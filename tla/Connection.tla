----------------------------- MODULE Connection -----------------------------
(***************************************************************************)
(* The network side of the ECSC flag submission server (main.cpp,          *)
(* workerpool.cpp, workerpool.h): the main thread accepts connections and  *)
(* hands each to a worker by a queue and an async event; the worker's      *)
(* event loop reads lines from it, queues their answers, writes them, and  *)
(* deletes it.  A line and its answer are counted, not spelled out; how an *)
(* answer comes about is FlagServer's.                                     *)
(***************************************************************************)
EXTENDS Integers, Sequences, Functions

CONSTANTS
    Conns,         \* connections that clients open
    N,             \* number of worker threads
    QueueLimit,    \* answers that may wait before reading stops (32)
    LinesPerRead,  \* lines that one recv() can bring (256 bytes)
    MaxLines       \* bound: lines that clients send

ASSUME ConnectionAssumption ==
    /\ N \in Nat \ {0} /\ QueueLimit \in Nat /\ LinesPerRead \in Nat \ {0}
    /\ MaxLines \in Nat

VARIABLES
    phase,       \* per connection: "new", "queued", "live", "gone"
    owner,       \* the worker it was given
    unread,      \* lines in its socket
    peer,        \* what its client did: "open", "closed", "reset"
    got, put,    \* lines read, answers written out
    readClosed, writeClosed,
    events,      \* what its watcher waits for
    seen,        \* hasSeenActivity
    next,        \* next_worker
    ready,       \* per worker: how many of its async watchers have been started,
                 \* break_handler first, then invoke_handler
    invoked,     \* invoke_queue
    woken, broken,  \* invoke_handler, break_handler: sent and not yet handled
    stopped,     \* its loop has ended
    closing,     \* 0: the main loop runs; i: ~WorkerPool waits for worker i
    resent,      \* workers whose destructor has begun
    active,      \* history: read from or written to since its first check
    cut,         \* history: deleted by a check
    missed       \* history: given to a worker before invoke_handler had started

sockVars == <<unread, peer>>
connVars == <<got, put, readClosed, writeClosed, events, seen, active, cut>>
poolVars == <<next, ready, invoked, woken>>
stopVars == <<broken, stopped, closing, resent>>
vars == <<phase, owner, sockVars, connVars, poolVars, stopVars, missed>>

Workers == 1..N
Pending(c) == got[c] - put[c]
Stopped(c) == owner[c] # 0 /\ stopped[owner[c]]
LinesSent == FoldFunction(LAMBDA a, b : a + b, 0, [c \in Conns |-> unread[c] + got[c]])

Init ==
    /\ phase = [c \in Conns |-> "new"] /\ owner = [c \in Conns |-> 0]
    /\ unread = [c \in Conns |-> 0] /\ peer = [c \in Conns |-> "open"]
    /\ got = [c \in Conns |-> 0] /\ put = [c \in Conns |-> 0]
    /\ readClosed = [c \in Conns |-> FALSE] /\ writeClosed = [c \in Conns |-> FALSE]
    /\ events = [c \in Conns |-> {}] /\ seen = [c \in Conns |-> TRUE]
    /\ next = 0
    /\ ready = [w \in Workers |-> 0]
    /\ invoked = [w \in Workers |-> <<>>] /\ woken = [w \in Workers |-> FALSE]
    /\ broken = [w \in Workers |-> FALSE] /\ stopped = [w \in Workers |-> FALSE]
    /\ closing = 0 /\ resent = {}
    /\ active = [c \in Conns |-> FALSE] /\ cut = [c \in Conns |-> FALSE]
    /\ missed = {}

(***************************************************************************)
(* Clients.                                                                *)
(***************************************************************************)
Client(c) ==
    /\ phase[c] # "new" /\ peer[c] # "reset"
    /\ \/ /\ peer[c] = "open" /\ LinesSent < MaxLines
          /\ unread' = [unread EXCEPT ![c] = @ + 1] /\ UNCHANGED peer
       \/ /\ \E p \in {"closed", "reset"} : p # peer[c] /\ peer' = [peer EXCEPT ![c] = p]
          /\ UNCHANGED unread
    /\ UNCHANGED <<phase, owner, connVars, poolVars, stopVars, missed>>

(***************************************************************************)
(* The main thread: io_accept, getWorker, Worker::invoke.  libev drops an  *)
(* async event that is sent to a watcher before its start.                 *)
(***************************************************************************)
BreakStarted(w) == ready[w] >= 1
InvokeStarted(w) == ready[w] = 2

Accept(c) ==
    /\ closing = 0 /\ phase[c] = "new"
    /\ LET w == IF next >= N THEN 1 ELSE next + 1 IN
        /\ next' = w
        /\ owner' = [owner EXCEPT ![c] = w]
        /\ invoked' = [invoked EXCEPT ![w] = Append(@, c)]
        /\ woken' = [woken EXCEPT ![w] = @ \/ InvokeStarted(w)]
        /\ missed' = IF InvokeStarted(w) THEN missed ELSE missed \cup {c}
    /\ phase' = [phase EXCEPT ![c] = "queued"]
    /\ UNCHANGED <<sockVars, connVars, ready, stopVars>>

(***************************************************************************)
(* A worker.  mainloop starts its two watchers, one after the other, and   *)
(* runs the loop; invoke_cb runs what is in the queue, which is init_cb of *)
(* each connection.                                                        *)
(***************************************************************************)
StartLoop(w) ==
    /\ ready[w] < 2 /\ ready' = [ready EXCEPT ![w] = @ + 1]
    /\ UNCHANGED <<phase, owner, sockVars, connVars, next, invoked, woken, stopVars, missed>>

Turns(w) == ready[w] = 2 /\ ~stopped[w]

\* Mutant: one function a call.
InvokeFirst(w) ==
    /\ Turns(w) /\ woken[w] /\ invoked[w] # <<>>
    /\ phase' = [phase EXCEPT ![Head(invoked[w])] = "live"]
    /\ events' = [events EXCEPT ![Head(invoked[w])] = {"READ"}]
    /\ invoked' = [invoked EXCEPT ![w] = Tail(@)]
    /\ woken' = [woken EXCEPT ![w] = FALSE]
    /\ UNCHANGED <<owner, sockVars, got, put, readClosed, writeClosed, seen, active, cut,
                   next, ready, stopVars, missed>>

Invoke(w) ==
    /\ Turns(w) /\ woken[w]
    /\ LET mine == {invoked[w][i] : i \in 1..Len(invoked[w])} IN
        /\ phase' = [c \in Conns |-> IF c \in mine THEN "live" ELSE phase[c]]
        /\ events' = [c \in Conns |-> IF c \in mine THEN {"READ"} ELSE events[c]]
    /\ invoked' = [invoked EXCEPT ![w] = <<>>]
    /\ woken' = [woken EXCEPT ![w] = FALSE]
    /\ UNCHANGED <<owner, sockVars, got, put, readClosed, writeClosed, seen, active, cut,
                   next, ready, stopVars, missed>>

\* read_cb.  Not every recv() ends a line.
Read(c) ==
    \/ /\ unread[c] > 0 /\ peer[c] # "reset"
       /\ \E n \in 0..LinesPerRead :
            /\ n <= unread[c]
            /\ unread' = [unread EXCEPT ![c] = @ - n]
            /\ got' = [got EXCEPT ![c] = @ + n]
       /\ UNCHANGED readClosed
    \/ /\ peer[c] = "reset" \/ (peer[c] = "closed" /\ unread[c] = 0)
       /\ readClosed' = [readClosed EXCEPT ![c] = TRUE]
       /\ UNCHANGED <<unread, got>>

\* write_cb, after what the same callback has read.  Not every write() ends an
\* answer; one that fails drops them all.
Write(c) ==
    \/ /\ got'[c] = put[c] /\ UNCHANGED <<put, writeClosed>>
    \/ /\ got'[c] > put[c] /\ peer[c] # "reset"
       /\ \E n \in 0..1 : put' = [put EXCEPT ![c] = @ + n]
       /\ UNCHANGED writeClosed
    \/ /\ got'[c] > put[c] /\ peer[c] = "reset"
       /\ writeClosed' = [writeClosed EXCEPT ![c] = TRUE] /\ UNCHANGED put

\* Mutants: answers left at the end of input are dropped; they are not waited for;
\* the queue has no limit.
FinishedOnEof(c) == readClosed'[c]
WaitForNoFlush(c) ==
    (IF readClosed'[c] \/ (~writeClosed'[c] /\ got'[c] - put'[c] > QueueLimit)
     THEN {} ELSE {"READ"})
      \cup (IF got'[c] = put'[c] \/ writeClosed'[c] \/ readClosed'[c] THEN {} ELSE {"WRITE"})
WaitForReads(c) ==
    (IF readClosed'[c] THEN {} ELSE {"READ"})
      \cup (IF got'[c] = put'[c] \/ writeClosed'[c] THEN {} ELSE {"WRITE"})

\* The end of callback: nothing more to do, or what to wait for.
Finished(c) == readClosed'[c] /\ (writeClosed'[c] \/ got'[c] = put'[c])
WaitFor(c) ==
    LET waiting == got'[c] - put'[c] IN
    (IF readClosed'[c] \/ (~writeClosed'[c] /\ waiting > QueueLimit) THEN {} ELSE {"READ"})
      \cup (IF waiting = 0 \/ writeClosed'[c] THEN {} ELSE {"WRITE"})

Callback(c) ==
    /\ phase[c] = "live" /\ Turns(owner[c])
    /\ \E ev \in SUBSET events[c] \ {{}} :
        /\ IF "READ" \in ev THEN Read(c) ELSE UNCHANGED <<unread, got, readClosed>>
        /\ IF "WRITE" \in ev THEN Write(c) ELSE UNCHANGED <<put, writeClosed>>
    /\ IF Finished(c)
       THEN phase' = [phase EXCEPT ![c] = "gone"] /\ events' = [events EXCEPT ![c] = {}]
       ELSE events' = [events EXCEPT ![c] = WaitFor(c)] /\ UNCHANGED phase
    /\ active' = [active EXCEPT ![c] = ~seen[c]]
    /\ UNCHANGED <<owner, peer, seen, cut, poolVars, stopVars, missed>>

\* check, every 30 seconds.
Check(c) ==
    /\ phase[c] = "live" /\ Turns(owner[c])
    /\ IF seen[c]
       THEN seen' = [seen EXCEPT ![c] = FALSE] /\ UNCHANGED <<phase, events, cut>>
       ELSE /\ phase' = [phase EXCEPT ![c] = "gone"] /\ events' = [events EXCEPT ![c] = {}]
            /\ cut' = [cut EXCEPT ![c] = TRUE] /\ UNCHANGED seen
    /\ UNCHANGED <<owner, sockVars, got, put, readClosed, writeClosed, active, poolVars,
                   stopVars, missed>>

(***************************************************************************)
(* The end: a signal breaks the main loop, ~WorkerPool tells the workers   *)
(* to break theirs, each ~Worker tells its own again and joins it.         *)
(***************************************************************************)
Signal ==
    /\ closing = 0 /\ closing' = 1
    /\ broken' = [w \in Workers |-> BreakStarted(w)]
    /\ UNCHANGED <<stopped, resent>>
\* Mutant: ~Worker joins without telling the loop again.
ResendNever ==
    /\ closing \in Workers \ resent
    /\ resent' = resent \cup {closing}
    /\ UNCHANGED <<broken, stopped, closing>>

Resend ==
    /\ closing \in Workers \ resent
    /\ resent' = resent \cup {closing}
    /\ broken' = [broken EXCEPT ![closing] = @ \/ BreakStarted(closing)]
    /\ UNCHANGED <<stopped, closing>>
Break(w) ==
    /\ Turns(w) /\ broken[w]
    /\ stopped' = [stopped EXCEPT ![w] = TRUE]
    /\ UNCHANGED <<broken, closing, resent>>
Join ==
    /\ closing \in resent /\ stopped[closing]
    /\ closing' = closing + 1
    /\ UNCHANGED <<broken, stopped, resent>>
Terminate ==
    /\ Signal \/ Resend \/ (\E w \in Workers : Break(w)) \/ Join
    /\ UNCHANGED <<phase, owner, sockVars, connVars, poolVars, missed>>

Next ==
    \/ \E c \in Conns : Client(c) \/ Accept(c) \/ Callback(c) \/ Check(c)
    \/ \E w \in Workers : StartLoop(w) \/ Invoke(w)
    \/ Terminate

Spec == Init /\ [][Next]_vars

\* Threads run and timers expire.  Clients and signals come when they like, and a
\* socket need never take another byte.
FairSpec ==
    /\ Spec
    /\ \A w \in Workers :
         WF_vars(StartLoop(w)) /\ WF_vars(Invoke(w)) /\ WF_vars(Break(w) /\ Terminate)
    /\ \A c \in Conns : WF_vars(Check(c))
    /\ WF_vars((Resend \/ Join) /\ Terminate)

-----------------------------------------------------------------------------
(* Properties *)

TypeOK ==
    /\ \A c \in Conns :
         /\ phase[c] \in {"new", "queued", "live", "gone"} /\ owner[c] \in 0..N
         /\ put[c] \in 0..got[c] /\ events[c] \subseteq {"READ", "WRITE"}
         /\ (phase[c] = "queued") <=> \E w \in Workers : \E i \in 1..Len(invoked[w]) :
                                         invoked[w][i] = c
    /\ next \in 0..N /\ closing \in 0..N + 1

\* However reads, answers, errors and the limit of the queue fall, a connection that
\* lives waits for something: for input, or to get rid of an answer it has (callback).
NeverDeaf ==
    \A c \in Conns : phase[c] = "live" =>
        \/ "READ" \in events[c]
        \/ "WRITE" \in events[c] /\ Pending(c) > 0 /\ ~writeClosed[c]

\* A client that sends and never reads makes the server keep only so many answers
\* (callback).
QueueBounded ==
    \A c \in Conns : ~writeClosed[c] => Pending(c) <= QueueLimit + LinesPerRead

\* A connection ends by itself only when its client's last line has been read and
\* answered, or the client is gone (callback, read_cb, write_cb).
AnsweredBeforeEnd ==
    \A c \in Conns : phase[c] = "gone" /\ ~cut[c] =>
        \/ peer[c] = "closed" /\ unread[c] = 0 /\ put[c] = got[c]
        \/ peer[c] = "reset"

\* Every connection is taken up by its worker (invoke, invoke_cb), except one that
\* came too early, and in the end its socket is closed, whatever its client does or
\* does not do (check).
SocketsClosed ==
    \A c \in Conns :
        (phase[c] = "queued" /\ c \notin missed) \/ phase[c] = "live"
            ~> phase[c] = "gone" \/ Stopped(c)

\* Once its workers listen to break_handler, a signal ends the process (~WorkerPool,
\* ~Worker).
SignalEnds ==
    (closing = 1 /\ resent = {} /\ \A w \in Workers : BreakStarted(w)) ~> closing = N + 1

-----------------------------------------------------------------------------
(* What the comments say and the code does not do. *)

\* hasSeenActivity: "set to true for activity, false during checks", and what is
\* deleted is deleted "Due to inactivity".  Nothing sets it again.
ActiveIsKept ==
    [][\A c \in Conns : ~cut[c] /\ cut'[c] => ~active[c]]_vars

\* workerpool.h: invoke() pushes functions to the event loop.  Not before mainloop
\* has started the watcher.
AcceptedIsServed ==
    \A c \in Conns : phase[c] = "queued" ~> phase[c] # "queued" \/ closing > 0
=============================================================================

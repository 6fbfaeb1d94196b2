-------------------------- MODULE ConnectionProofs --------------------------
(***************************************************************************)
(* Proofs about Connection: a live connection always waits for something,  *)
(* its queue of answers is bounded, and it ends by itself only when all is *)
(* answered or its client is gone, for every number of connections,        *)
(* workers and lines.                                                      *)
(***************************************************************************)
EXTENDS Connection, TLAPS

\* What a connection's watcher waits for, as callback last computed it.
Waits(c) ==
  (IF readClosed[c] \/ (~writeClosed[c] /\ Pending(c) > QueueLimit) THEN {} ELSE {"READ"})
    \cup (IF Pending(c) = 0 \/ writeClosed[c] THEN {} ELSE {"WRITE"})

SockTypes ==
  /\ phase \in [Conns -> {"new", "queued", "live", "gone"}]
  /\ unread \in [Conns -> Nat]
  /\ peer \in [Conns -> {"open", "closed", "reset"}]
  /\ got \in [Conns -> Nat] /\ put \in [Conns -> Nat]
  /\ readClosed \in [Conns -> BOOLEAN] /\ writeClosed \in [Conns -> BOOLEAN]
  /\ events \in [Conns -> SUBSET {"READ", "WRITE"}]
  /\ seen \in [Conns -> BOOLEAN] /\ cut \in [Conns -> BOOLEAN]
  /\ \A c \in Conns : put[c] <= got[c]

\* The state of one connection: nothing has happened to it before init_cb; the
\* flags say what became of its client; while it lives there is something left
\* to do, and its events are those callback computed from its state.
ConnInv ==
  \A c \in Conns :
    /\ phase[c] \in {"new", "queued"} =>
         got[c] = 0 /\ ~readClosed[c] /\ ~writeClosed[c]
    /\ readClosed[c] => peer[c] = "reset" \/ (peer[c] = "closed" /\ unread[c] = 0)
    /\ writeClosed[c] => peer[c] = "reset"
    /\ phase[c] = "live" =>
         events[c] = Waits(c) /\ ~(readClosed[c] /\ (writeClosed[c] \/ Pending(c) = 0))

\* The queues of functions: what is queued has not run, and is in one queue once.
QueueInv ==
  /\ owner \in [Conns -> 0..N] /\ next \in 0..N /\ closing \in 0..N + 1 /\ resent \subseteq Workers
  /\ invoked \in [Workers -> Seq(Conns)]
  /\ \A w \in Workers : \A i \in 1..Len(invoked[w]) :
       phase[invoked[w][i]] = "queued" /\ owner[invoked[w][i]] = w
  /\ \A c \in Conns : phase[c] = "queued" =>
       \E w \in Workers : \E i \in 1..Len(invoked[w]) : invoked[w][i] = c

IInv ==
  /\ SockTypes
  /\ ConnInv
  /\ QueueInv
  /\ QueueBounded
  /\ AnsweredBeforeEnd

-----------------------------------------------------------------------------

\* Nothing is accepted yet (main.cpp, before the loop).
LEMMA InitIInv == Init => IInv
<1> SUFFICES ASSUME Init PROVE IInv
  OBVIOUS
<1> USE ConnectionAssumption DEF Init, Workers
<1>1. SockTypes
  BY DEF SockTypes
<1>2. ConnInv /\ QueueBounded /\ AnsweredBeforeEnd
  BY DEF ConnInv, QueueBounded, AnsweredBeforeEnd, Pending
<1>3. QueueInv
  BY DEF QueueInv
<1> QED BY <1>1, <1>2, <1>3 DEF IInv

\* A live connection's events are never empty-handed: what callback computes has
\* a read, or a write and an answer to write (connection.cpp, callback).
LEMMA IInvNeverDeaf == IInv => NeverDeaf
  BY ConnectionAssumption
  DEF IInv, SockTypes, ConnInv, NeverDeaf, Waits, Pending

\* What a client does to its socket does not disturb the flags: the server has
\* seen the end of input only when there is no more (read_cb).
LEMMA ClientKeeps ==
  ASSUME IInv, NEW c \in Conns, Client(c)
  PROVE  IInv'
<1> USE DEF Client, sockVars, connVars, poolVars, stopVars, IInv, SockTypes
<1>1. SockTypes'
  OBVIOUS
<1>2. \A d \in Conns :
        /\ peer'[d] # peer[d] => unread'[d] = unread[d] /\ peer'[d] \in {"closed", "reset"}
        /\ unread'[d] # unread[d] => peer'[d] = "open" /\ peer[d] = "open"
        /\ peer[d] = "reset" => peer'[d] = "reset"
        /\ peer[d] = "closed" => peer'[d] # "open" /\ unread'[d] = unread[d]
  OBVIOUS
<1>3. ConnInv'
  BY <1>2 DEF ConnInv, Waits, Pending
<1>4. QueueBounded' /\ AnsweredBeforeEnd'
  BY <1>2 DEF QueueBounded, AnsweredBeforeEnd, Pending
<1>5. QueueInv'
  BY DEF QueueInv
<1> QED BY <1>1, <1>3, <1>4, <1>5

\* getWorker names a worker, and invoke puts the connection in its queue only
\* (main.cpp:io_accept, workerpool.cpp:getWorker, invoke).
LEMMA AcceptKeeps ==
  ASSUME IInv, NEW c \in Conns, Accept(c)
  PROVE  IInv'
<1> DEFINE w == IF next >= N THEN 1 ELSE next + 1
<1>1. w \in Workers /\ w \in 0..N
  BY ConnectionAssumption DEF IInv, QueueInv, Workers
<1>2. /\ phase[c] = "new" /\ next' = w /\ closing' = closing /\ resent' = resent
      /\ owner' = [owner EXCEPT ![c] = w]
      /\ invoked' = [invoked EXCEPT ![w] = Append(@, c)]
      /\ phase' = [phase EXCEPT ![c] = "queued"]
      /\ UNCHANGED <<sockVars, connVars>>
  BY DEF Accept, stopVars
<1> HIDE DEF w
<1>3. SockTypes'
  BY <1>2 DEF IInv, SockTypes, sockVars, connVars
<1>4. ConnInv'
  BY <1>2 DEF IInv, SockTypes, ConnInv, Waits, Pending, sockVars, connVars
<1>5. QueueBounded' /\ AnsweredBeforeEnd'
  BY <1>2
  DEF IInv, SockTypes, QueueBounded, AnsweredBeforeEnd, Pending, sockVars, connVars
<1>6. QueueInv'
  <2>0. /\ invoked \in [Workers -> Seq(Conns)] /\ owner \in [Conns -> 0..N]
        /\ phase \in [Conns -> {"new", "queued", "live", "gone"}]
    BY DEF IInv, QueueInv, SockTypes
  <2>1. /\ invoked' \in [Workers -> Seq(Conns)] /\ owner' \in [Conns -> 0..N]
        /\ next' \in 0..N /\ closing' \in 0..N + 1 /\ resent' \subseteq Workers
    BY <1>1, <1>2, <2>0 DEF IInv, QueueInv
  <2>2. \A v \in Workers : /\ v # w => invoked'[v] = invoked[v]
                           /\ v = w => invoked'[v] = Append(invoked[v], c)
    BY <1>1, <1>2, <2>0
  <2>3. \A v \in Workers : invoked[v] \in Seq(Conns)
    BY <2>0
  <2>4. /\ owner'[c] = w /\ phase'[c] = "queued"
        /\ \A d \in Conns : d # c => owner'[d] = owner[d] /\ phase'[d] = phase[d]
    BY <1>2, <2>0
  <2>5. ASSUME NEW v \in Workers, NEW i \in 1..Len(invoked'[v])
        PROVE  phase'[invoked'[v][i]] = "queued" /\ owner'[invoked'[v][i]] = v
    <3>1. CASE v = w /\ i = Len(invoked[v]) + 1
      BY <2>2, <2>3, <2>4, <3>1
    <3>2. CASE i \in 1..Len(invoked[v])
      <4>1. invoked'[v][i] = invoked[v][i] /\ invoked[v][i] \in Conns
        BY <2>2, <2>3, <3>2
      <4>2. phase[invoked[v][i]] = "queued" /\ owner[invoked[v][i]] = v
        BY <3>2 DEF IInv, QueueInv
      <4> QED BY <1>2, <2>4, <4>1, <4>2
    <3> QED BY <2>2, <2>3, <2>5, <3>1, <3>2
  <2>6. ASSUME NEW d \in Conns, phase'[d] = "queued"
        PROVE  \E v \in Workers : \E i \in 1..Len(invoked'[v]) : invoked'[v][i] = d
    <3>1. CASE d = c
      <4>1. /\ Len(invoked[w]) + 1 \in 1..Len(invoked'[w])
            /\ invoked'[w][Len(invoked[w]) + 1] = c
        BY <1>1, <2>2, <2>3
      <4> QED BY <1>1, <3>1, <4>1
    <3>2. CASE d # c
      <4>1. PICK v \in Workers : \E i \in 1..Len(invoked[v]) : invoked[v][i] = d
        BY <2>4, <2>6, <3>2 DEF IInv, QueueInv
      <4>2. PICK i \in 1..Len(invoked[v]) : invoked[v][i] = d
        BY <4>1
      <4>3. i \in 1..Len(invoked'[v]) /\ invoked'[v][i] = d
        BY <2>2, <2>3, <4>2
      <4> QED BY <4>3
    <3> QED BY <3>1, <3>2
  <2> QED BY <2>1, <2>5, <2>6 DEF QueueInv
<1> QED BY <1>3, <1>4, <1>5, <1>6 DEF IInv

\* invoke_cb runs what is queued and clears the queue: init_cb makes each of these
\* connections live, with nothing read and nothing to write yet.
LEMMA InvokeKeeps ==
  ASSUME IInv, NEW w \in Workers, Invoke(w)
  PROVE  IInv'
<1> DEFINE mine == {invoked[w][i] : i \in 1..Len(invoked[w])}
<1>1. /\ phase' = [c \in Conns |-> IF c \in mine THEN "live" ELSE phase[c]]
      /\ events' = [c \in Conns |-> IF c \in mine THEN {"READ"} ELSE events[c]]
      /\ invoked' = [invoked EXCEPT ![w] = <<>>]
      /\ UNCHANGED <<owner, sockVars, got, put, readClosed, writeClosed, seen, cut, next, closing, resent>>
  BY DEF Invoke, stopVars
<1>2. \A c \in mine : phase[c] = "queued" /\ owner[c] = w
  BY DEF IInv, QueueInv
<1>3. \A c \in Conns : c \in mine => \E i \in 1..Len(invoked[w]) : invoked[w][i] = c
  OBVIOUS
<1>4. \A i \in 1..Len(invoked[w]) : invoked[w][i] \in mine
  OBVIOUS
<1> HIDE DEF mine
<1>5. SockTypes'
  BY <1>1 DEF IInv, SockTypes, sockVars
<1>6. ConnInv'
  <2> SUFFICES ASSUME NEW c \in Conns PROVE ConnInv!(c)'
    BY DEF ConnInv
  <2>1. CASE c \in mine
    <3>1. got[c] = 0 /\ put[c] = 0 /\ ~readClosed[c] /\ ~writeClosed[c]
      BY <1>2, <2>1 DEF IInv, SockTypes, ConnInv
    <3>2. /\ phase'[c] = "live" /\ events'[c] = {"READ"} /\ Pending(c)' = 0
          /\ ~readClosed'[c] /\ ~writeClosed'[c] /\ peer'[c] = peer[c]
      BY <1>1, <2>1, <3>1 DEF Pending, sockVars
    <3> QED BY <3>2, ConnectionAssumption DEF Waits
  <2>2. CASE c \notin mine
    <3>1. phase'[c] = phase[c] /\ events'[c] = events[c]
      BY <1>1, <2>2
    <3> QED BY <1>1, <3>1 DEF IInv, ConnInv, Waits, Pending, sockVars
  <2> QED BY <2>1, <2>2
<1>7. QueueBounded' /\ AnsweredBeforeEnd'
  BY <1>1 DEF IInv, QueueBounded, AnsweredBeforeEnd, Pending, sockVars
<1>8. QueueInv'
  <2>1. /\ \A v \in Workers : invoked'[v] = IF v = w THEN <<>> ELSE invoked[v]
        /\ invoked' \in [Workers -> Seq(Conns)]
    BY <1>1 DEF IInv, QueueInv
  <2>2. ASSUME NEW v \in Workers, NEW i \in 1..Len(invoked'[v])
        PROVE  phase'[invoked'[v][i]] = "queued" /\ owner'[invoked'[v][i]] = v
    <3>1. v # w /\ invoked'[v] = invoked[v] /\ invoked[v] \in Seq(Conns)
      BY <2>1, <2>2 DEF IInv, QueueInv
    <3>2. phase[invoked[v][i]] = "queued" /\ owner[invoked[v][i]] = v /\ invoked[v][i] \in Conns
      BY <2>2, <3>1 DEF IInv, QueueInv
    <3>3. invoked[v][i] \notin mine
      BY <1>2, <3>1, <3>2
    <3> QED BY <1>1, <3>1, <3>2, <3>3
  <2>3. ASSUME NEW d \in Conns, phase'[d] = "queued"
        PROVE  \E v \in Workers : \E i \in 1..Len(invoked'[v]) : invoked'[v][i] = d
    <3>1. phase[d] = "queued" /\ d \notin mine
      BY <1>1, <2>3
    <3>2. PICK v \in Workers : \E i \in 1..Len(invoked[v]) : invoked[v][i] = d
      BY <3>1 DEF IInv, QueueInv
    <3>3. v # w
      BY <1>4, <3>1, <3>2
    <3> QED BY <2>1, <3>2, <3>3
  <2> QED BY <1>1, <2>1, <2>2, <2>3 DEF IInv, QueueInv
<1> QED BY <1>5, <1>6, <1>7, <1>8 DEF IInv

-----------------------------------------------------------------------------
(* The event loop of one connection.                                       *)

\* What read_cb does to the counts and the flag of the connection it runs for.
ReadResult(c) ==
  /\ unread' \in [Conns -> Nat] /\ got' \in [Conns -> Nat] /\ readClosed' \in [Conns -> BOOLEAN]
  /\ \A d \in Conns \ {c} :
       unread'[d] = unread[d] /\ got'[d] = got[d] /\ readClosed'[d] = readClosed[d]
  /\ got[c] <= got'[c] /\ got'[c] <= got[c] + LinesPerRead
  /\ readClosed'[c] => peer[c] = "reset" \/ (peer[c] = "closed" /\ unread'[c] = 0)

\* A recv() brings at most its buffer, and end of input when there is no more.
LEMMA ReadDoes ==
  ASSUME IInv, NEW c \in Conns, Read(c)
  PROVE  ReadResult(c)
<1> USE ConnectionAssumption DEF IInv, SockTypes, ConnInv, ReadResult
<1>1. CASE /\ unread[c] > 0 /\ peer[c] # "reset"
           /\ \E n \in 0..LinesPerRead :
                /\ n <= unread[c]
                /\ unread' = [unread EXCEPT ![c] = @ - n]
                /\ got' = [got EXCEPT ![c] = @ + n]
           /\ UNCHANGED readClosed
  <2>1. PICK n \in 0..LinesPerRead :
          /\ n <= unread[c]
          /\ unread' = [unread EXCEPT ![c] = @ - n]
          /\ got' = [got EXCEPT ![c] = @ + n]
    BY <1>1
  <2>2. n \in Nat /\ unread[c] - n \in Nat /\ got[c] + n \in Nat /\ n <= LinesPerRead
    BY <2>1
  <2> QED BY <1>1, <2>1, <2>2
<1>2. CASE /\ peer[c] = "reset" \/ (peer[c] = "closed" /\ unread[c] = 0)
           /\ readClosed' = [readClosed EXCEPT ![c] = TRUE]
           /\ UNCHANGED <<unread, got>>
  BY <1>2
<1> QED BY <1>1, <1>2 DEF Read

\* write_cb, run after the read, writes at most what there is, and gives up only
\* on a client that is gone.
LEMMA WriteDoes ==
  ASSUME IInv, NEW c \in Conns, ReadResult(c), Write(c)
  PROVE  /\ put' \in [Conns -> Nat] /\ writeClosed' \in [Conns -> BOOLEAN]
         /\ \A d \in Conns \ {c} : put'[d] = put[d] /\ writeClosed'[d] = writeClosed[d]
         /\ put[c] <= put'[c] /\ put'[c] <= got'[c]
         /\ writeClosed[c] => writeClosed'[c]
         /\ writeClosed'[c] => peer[c] = "reset"
<1> USE ConnectionAssumption DEF IInv, SockTypes, ConnInv, ReadResult
<1>1. CASE got'[c] = put[c] /\ UNCHANGED <<put, writeClosed>>
  BY <1>1
<1>2. CASE /\ got'[c] > put[c] /\ peer[c] # "reset"
           /\ \E n \in 0..1 : put' = [put EXCEPT ![c] = @ + n]
           /\ UNCHANGED writeClosed
  <2>1. PICK n \in 0..1 : put' = [put EXCEPT ![c] = @ + n]
    BY <1>2
  <2>2. n \in {0, 1} /\ put[c] + n \in Nat /\ put[c] + n <= got'[c]
    BY <1>2, <2>1
  <2> QED BY <1>2, <2>1, <2>2
<1>3. CASE /\ got'[c] > put[c] /\ peer[c] = "reset"
           /\ writeClosed' = [writeClosed EXCEPT ![c] = TRUE] /\ UNCHANGED put
  BY <1>3
<1> QED BY <1>1, <1>2, <1>3 DEF Write

\* One run of callback: the limit holds because it reads only when the queue was
\* within it, and it deletes the connection when, and only when, the input has
\* ended and nothing is left to write.
LEMMA CallbackKeeps ==
  ASSUME IInv, NEW c \in Conns, Callback(c)
  PROVE  IInv'
<1> USE ConnectionAssumption
<1>0. /\ phase[c] = "live" /\ events[c] = Waits(c)
      /\ UNCHANGED <<owner, peer, seen, cut, next, invoked, closing, resent>>
      /\ Pending(c) \in Nat /\ got[c] \in Nat /\ put[c] \in Nat
  BY DEF IInv, SockTypes, ConnInv, Callback, poolVars, stopVars, Pending
<1>1. PICK ev \in SUBSET events[c] \ {{}} :
        /\ IF "READ" \in ev THEN Read(c) ELSE UNCHANGED <<unread, got, readClosed>>
        /\ IF "WRITE" \in ev THEN Write(c) ELSE UNCHANGED <<put, writeClosed>>
  BY DEF Callback
<1>2. ReadResult(c)
  BY <1>1, ReadDoes DEF IInv, SockTypes, ConnInv, ReadResult
<1>3. "READ" \in ev \/ got'[c] = got[c]
  BY <1>1
<1>4. /\ put' \in [Conns -> Nat] /\ writeClosed' \in [Conns -> BOOLEAN]
      /\ \A d \in Conns \ {c} : put'[d] = put[d] /\ writeClosed'[d] = writeClosed[d]
      /\ put[c] <= put'[c] /\ put'[c] <= got'[c]
      /\ writeClosed[c] => writeClosed'[c]
      /\ writeClosed'[c] => peer[c] = "reset"
  <2>1. CASE "WRITE" \in ev
    BY <1>1, <1>2, <2>1, WriteDoes
  <2>2. CASE "WRITE" \notin ev
    BY <1>1, <1>2, <2>2 DEF IInv, SockTypes, ConnInv, ReadResult
  <2> QED BY <2>1, <2>2
<1>5. "READ" \in ev => writeClosed[c] \/ Pending(c) <= QueueLimit
  <2>1. "READ" \in ev => "READ" \in Waits(c)
    BY <1>0, <1>1
  <2> QED BY <1>0, <2>1 DEF Waits
<1>6. /\ \A d \in Conns \ {c} : phase'[d] = phase[d] /\ events'[d] = events[d]
      /\ \/ Finished(c) /\ phase'[c] = "gone" /\ events'[c] = {}
         \/ ~Finished(c) /\ phase'[c] = "live" /\ events'[c] = WaitFor(c)
      /\ phase' \in [Conns -> {"new", "queued", "live", "gone"}]
      /\ events' \in [Conns -> SUBSET {"READ", "WRITE"}]
  <2>1. WaitFor(c) \in SUBSET {"READ", "WRITE"}
    BY DEF WaitFor
  <2>2. CASE Finished(c)
    BY <2>2 DEF Callback, IInv, SockTypes
  <2>3. CASE ~Finished(c)
    BY <1>0, <2>1, <2>3 DEF Callback, IInv, SockTypes
  <2> QED BY <2>2, <2>3
<1>7. SockTypes'
  <2>1. \A d \in Conns : put'[d] <= got'[d]
    BY <1>2, <1>4 DEF IInv, SockTypes, ReadResult
  <2> QED BY <1>0, <1>2, <1>4, <1>6, <2>1 DEF IInv, SockTypes, ReadResult
<1>8. \A d \in Conns \ {c} : Pending(d)' = Pending(d) /\ Waits(d)' = Waits(d)
  BY <1>2, <1>4 DEF Pending, Waits, ReadResult
<1>9. got'[c] \in Nat /\ put'[c] \in Nat /\ Pending(c)' = got'[c] - put'[c]
  BY <1>7 DEF SockTypes, Pending
<1>10. ConnInv'
  <2>1. ASSUME NEW d \in Conns \ {c} PROVE ConnInv!(d)'
    BY <1>0, <1>2, <1>4, <1>6, <1>8 DEF IInv, ConnInv, ReadResult
  <2>2. ConnInv!(c)'
    <3>1. readClosed'[c] => peer'[c] = "reset" \/ (peer'[c] = "closed" /\ unread'[c] = 0)
      BY <1>0, <1>2 DEF ReadResult
    <3>2. Waits(c)' = WaitFor(c)
      BY <1>9 DEF Waits, WaitFor
    <3>3. Finished(c) <=> readClosed'[c] /\ (writeClosed'[c] \/ Pending(c)' = 0)
      BY <1>9 DEF Finished
    <3> QED BY <1>0, <1>4, <1>6, <3>1, <3>2, <3>3
  <2> QED BY <2>1, <2>2 DEF ConnInv
<1>11. QueueBounded'
  <2>1. ~writeClosed'[c] => Pending(c)' <= QueueLimit + LinesPerRead
    <3>1. CASE "READ" \in ev
      BY <1>0, <1>2, <1>4, <1>5, <1>9, <3>1 DEF ReadResult, Pending
    <3>2. CASE "READ" \notin ev
      BY <1>0, <1>3, <1>4, <1>9, <3>2 DEF IInv, QueueBounded, Pending
    <3> QED BY <3>1, <3>2
  <2> QED BY <1>4, <1>8, <2>1 DEF IInv, QueueBounded
<1>12. AnsweredBeforeEnd'
  <2>1. phase'[c] = "gone" =>
          \/ peer'[c] = "closed" /\ unread'[c] = 0 /\ put'[c] = got'[c]
          \/ peer'[c] = "reset"
    BY <1>0, <1>2, <1>4, <1>6, <1>9 DEF Finished, ReadResult
  <2> QED BY <1>0, <1>2, <1>4, <1>6, <2>1 DEF IInv, AnsweredBeforeEnd, ReadResult
<1>13. QueueInv'
  <2>1. \A d \in Conns : phase'[d] = "queued" <=> phase[d] = "queued"
    BY <1>0, <1>6
  <2>2. \A w \in Workers : \A i \in 1..Len(invoked[w]) : invoked[w][i] \in Conns
    BY DEF IInv, QueueInv
  <2>3. \A w \in Workers : \A i \in 1..Len(invoked'[w]) :
          phase'[invoked'[w][i]] = "queued" /\ owner'[invoked'[w][i]] = w
    <3>1. invoked' = invoked /\ owner' = owner
      BY <1>0
    <3> QED BY <2>1, <2>2, <3>1 DEF IInv, QueueInv
  <2>4. \A d \in Conns : phase'[d] = "queued" =>
          \E w \in Workers : \E i \in 1..Len(invoked'[w]) : invoked'[w][i] = d
    BY <1>0, <2>1 DEF IInv, QueueInv
  <2> QED BY <1>0, <2>3, <2>4 DEF IInv, QueueInv
<1> QED BY <1>7, <1>10, <1>11, <1>12, <1>13 DEF IInv

\* The check deletes, and only what it deletes is cut off (connection.cpp, check).
LEMMA CheckKeeps ==
  ASSUME IInv, NEW c \in Conns, Check(c)
  PROVE  IInv'
<1> USE DEF sockVars, connVars, poolVars, stopVars
<1>1. /\ phase[c] = "live" /\ seen' \in [Conns -> BOOLEAN]
      /\ UNCHANGED <<owner, sockVars, got, put, readClosed, writeClosed, next, invoked, closing, resent>>
  BY DEF Check, IInv, SockTypes
<1>2. \/ UNCHANGED <<phase, events, cut>>
      \/ /\ phase' = [phase EXCEPT ![c] = "gone"] /\ events' = [events EXCEPT ![c] = {}]
         /\ cut' = [cut EXCEPT ![c] = TRUE]
  BY DEF Check
<1>3. /\ SockTypes'
      /\ \A d \in Conns :
           \/ phase'[d] = phase[d] /\ events'[d] = events[d] /\ cut'[d] = cut[d]
           \/ d = c /\ phase'[d] = "gone" /\ cut'[d]
  BY <1>1, <1>2 DEF IInv, SockTypes
<1>4. ConnInv'
  BY <1>1, <1>3 DEF IInv, ConnInv, Waits, Pending
<1>5. QueueBounded' /\ AnsweredBeforeEnd'
  BY <1>1, <1>3 DEF IInv, QueueBounded, AnsweredBeforeEnd, Pending
<1>6. QueueInv'
  <2>1. \A d \in Conns : phase'[d] = "queued" <=> phase[d] = "queued"
    BY <1>1, <1>3
  <2>2. \A w \in Workers : \A i \in 1..Len(invoked[w]) : invoked[w][i] \in Conns
    BY DEF IInv, QueueInv
  <2>3. \A w \in Workers : \A i \in 1..Len(invoked'[w]) :
          phase'[invoked'[w][i]] = "queued" /\ owner'[invoked'[w][i]] = w
    BY <1>1, <2>1, <2>2 DEF IInv, QueueInv
  <2>4. \A d \in Conns : phase'[d] = "queued" =>
          \E w \in Workers : \E i \in 1..Len(invoked'[w]) : invoked'[w][i] = d
    BY <1>1, <2>1 DEF IInv, QueueInv
  <2> QED BY <1>1, <2>3, <2>4 DEF IInv, QueueInv
<1> QED BY <1>3, <1>4, <1>5, <1>6 DEF IInv

\* Starting a loop and ending the pool touch no connection; ~WorkerPool counts to
\* N + 1 (workerpool.cpp).
LEMMA OtherKeeps ==
  ASSUME IInv, (\E w \in Workers : StartLoop(w)) \/ Terminate \/ UNCHANGED vars
  PROVE  IInv'
<1> USE ConnectionAssumption DEF sockVars, connVars, poolVars, stopVars
<1>1. UNCHANGED <<phase, owner, sockVars, connVars, next, invoked>>
  BY DEF StartLoop, Terminate, vars
<1>2. closing' \in 0..N + 1 /\ resent' \subseteq Workers
  <2>1. closing \in 0..N + 1 /\ resent \subseteq Workers
    BY DEF IInv, QueueInv
  <2>2. CASE Terminate /\ Join
    <3>1. closing \in Workers
      BY <2>1, <2>2 DEF Join
    <3> QED BY <2>1, <2>2, <3>1 DEF Join, Workers
  <2>3. CASE Terminate /\ Resend
    BY <2>1, <2>3 DEF Resend
  <2>4. CASE (closing' = closing \/ closing' = 1) /\ resent' = resent
    BY <2>1, <2>4
  <2> QED BY <2>2, <2>3, <2>4 DEF StartLoop, Terminate, Signal, Resend, Break, Join, vars
<1>3. SockTypes'
  BY <1>1 DEF IInv, SockTypes
<1>4. ConnInv'
  BY <1>1 DEF IInv, ConnInv, Waits, Pending
<1>5. QueueBounded' /\ AnsweredBeforeEnd'
  BY <1>1 DEF IInv, QueueBounded, AnsweredBeforeEnd, Pending
<1>6. QueueInv'
  BY <1>1, <1>2 DEF IInv, QueueInv
<1> QED BY <1>3, <1>4, <1>5, <1>6 DEF IInv

\* Together: every step of a client, the listener, a worker or the shutdown
\* keeps the invariant.
LEMMA IInvNext == IInv /\ [Next]_vars => IInv'
  BY ClientKeeps, AcceptKeeps, InvokeKeeps, CallbackKeeps, CheckKeeps, OtherKeeps DEF Next

-----------------------------------------------------------------------------
(* The theorems.                                                           *)

\* The inductive invariant holds.
LEMMA InductiveInvariant == Spec => []IInv
  BY InitIInv, IInvNext, PTL DEF Spec

\* The types of a connection's state, and that it is queued exactly while its
\* init_cb is in a worker's queue (workerpool.cpp, invoke and invoke_cb).
THEOREM TypesKept == Spec => []TypeOK
<1>1. IInv => TypeOK
  <2> SUFFICES ASSUME IInv PROVE TypeOK
    OBVIOUS
  <2>1. ASSUME NEW c \in Conns
        PROVE  (phase[c] = "queued") <=> \E w \in Workers : \E i \in 1..Len(invoked[w]) :
                                           invoked[w][i] = c
    BY DEF IInv, QueueInv
  <2> QED BY <2>1 DEF IInv, SockTypes, QueueInv, TypeOK
<1> QED BY InductiveInvariant, <1>1, PTL

\* No connection is ever left waiting for nothing, which no event would wake
\* (connection.cpp, the end of callback).
THEOREM LiveIsNeverDeaf == Spec => []NeverDeaf
  BY InductiveInvariant, IInvNeverDeaf, PTL

\* A client that never reads its answers costs a bounded queue (callback).
THEOREM QueueStaysBounded == Spec => []QueueBounded
<1>1. IInv => QueueBounded
  BY DEF IInv
<1> QED BY InductiveInvariant, <1>1, PTL

\* callback deletes a connection only when the last line is answered or the
\* client is gone (callback, read_cb, write_cb).
THEOREM EndsAnswered == Spec => []AnsweredBeforeEnd
<1>1. IInv => AnsweredBeforeEnd
  BY DEF IInv
<1> QED BY InductiveInvariant, <1>1, PTL
=============================================================================

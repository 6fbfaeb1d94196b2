------------------------------ MODULE GameFeed ------------------------------
(***************************************************************************)
(* How the flag submission server learns of the game (redis.cpp, timer.py  *)
(* of the ECSC gameserver).  The control server's master timer sets and    *)
(* publishes its keys one by one; the server asks for two of them with     *)
(* GET, then subscribes to them, in one pipeline, and handles replies and  *)
(* messages in the order Redis sent them.  Connections break, the process  *)
(* ends and is started again.                                              *)
(***************************************************************************)
EXTENDS Integers, Sequences

CONSTANTS
    NoVal,      \* nil
    Halts,      \* how a game halts: SUSPENDED, STOPPED
    MaxRound,   \* bound: rounds of the game
    MaxDrops    \* bound: breaks of the connection and ends of the process

ASSUME FeedAssumption ==
    /\ MaxRound \in Nat /\ MaxDrops \in Nat /\ NoVal \notin Nat
    /\ Halts \subseteq {"SUSPENDED", "STOPPED"}

VARIABLES
    game,       \* the master timer's state and round
    todo,       \* how many of its four commands are left: SET and PUBLISH of the
                \* state, SET and PUBLISH of the round
    store,      \* Redis: timing:state and timing:currentRound
    link,       \* the server's connection to Redis: "down" or "up"
    asked,      \* how many of GET, GET, SUBSCRIBE, SUBSCRIBE Redis has run
    stream,     \* replies and messages on the way to the server
    view,       \* Redis::state and Redis::current_round
    alive,      \* the server's process runs
    drops

timerVars == <<game, todo>>
netVars   == <<link, asked, stream>>
vars == <<timerVars, store, netVars, view, alive, drops>>

View == INSTANCE GameView WITH game <- game, view <- view, alive <- alive
Keys == <<"state", "round">>

Init ==
    /\ View!ViewInit
    /\ todo = 0 /\ store = [state |-> NoVal, round |-> NoVal]
    /\ link = "down" /\ asked = 0 /\ stream = <<>>
    /\ drops = 0

(***************************************************************************)
(* The master timer.  check_time and start_ctf change it, on_update_times  *)
(* sets and publishes the state, later the round.                          *)
(***************************************************************************)
ChangeGame ==
    /\ todo = 0
    /\ View!StartGame \/ View!NextTick \/ View!Halt
    /\ todo' = 4
    /\ UNCHANGED <<store, netVars, view, alive, drops>>

\* redis_set_and_publish: SET, then PUBLISH, of the one key, then of the other.
At == IF todo > 2 THEN 1 ELSE 2

SetKey ==
    /\ todo \in {4, 2}
    /\ todo' = todo - 1
    /\ store' = [store EXCEPT ![Keys[At]] = game[Keys[At]]]
    /\ UNCHANGED <<game, netVars, view, alive, drops>>

Publish ==
    /\ todo \in {3, 1}
    /\ todo' = todo - 1
    /\ stream' = IF link = "up" /\ asked >= 2 + At
                 THEN Append(stream, [get |-> FALSE, key |-> Keys[At], val |-> game[Keys[At]]])
                 ELSE stream
    /\ UNCHANGED <<game, store, link, asked, view, alive, drops>>

(***************************************************************************)
(* The server's main thread and Redis.                                     *)
(***************************************************************************)
Start ==
    /\ View!Up
    /\ UNCHANGED <<timerVars, store, netVars, drops>>

Connect ==
    /\ alive /\ link = "down"
    /\ link' = "up"
    /\ UNCHANGED <<timerVars, store, asked, stream, view, alive, drops>>

\* Nothing keeps Redis from serving the timer between two of the four commands.
RunCommand ==
    /\ link = "up" /\ asked < 4
    /\ asked' = asked + 1
    /\ stream' = IF asked < 2
                 THEN Append(stream, [get |-> TRUE, key |-> Keys[asked + 1],
                                      val |-> store[Keys[asked + 1]]])
                 ELSE stream
    /\ UNCHANGED <<timerVars, store, link, view, alive, drops>>

\* Mutants: nil taken for 0; only replies to GET are handled.
HearNil ==
    /\ stream # <<>>
    /\ LET m == Head(stream) IN
        view' = [view EXCEPT ![m.key] = IF m.val # NoVal THEN m.val
                                        ELSE IF m.key = "round" THEN 0 ELSE "STOPPED"]
    /\ stream' = Tail(stream)
    /\ UNCHANGED <<timerVars, store, link, asked, alive, drops>>
HearReplies ==
    /\ stream # <<>>
    /\ LET m == Head(stream) IN
        view' = IF ~m.get \/ m.val = NoVal THEN view ELSE [view EXCEPT ![m.key] = m.val]
    /\ stream' = Tail(stream)
    /\ UNCHANGED <<timerVars, store, link, asked, alive, drops>>

\* onGetKey and onHandleMessage; a missing key leaves the value as it is.
Hear ==
    /\ stream # <<>>
    /\ LET m == Head(stream) IN
        view' = IF m.val = NoVal THEN view ELSE [view EXCEPT ![m.key] = m.val]
    /\ stream' = Tail(stream)
    /\ UNCHANGED <<timerVars, store, link, asked, alive, drops>>

Disconnected == link' = "down" /\ asked' = 0 /\ stream' = <<>>

\* hiredis hands nil to the callbacks that wait for a reply: onGetKey throws and
\* ends the process, onHandleMessage logs, and onDisconnect has it reconnect.
Drop ==
    /\ link = "up" /\ drops < MaxDrops
    /\ drops' = drops + 1
    /\ Disconnected
    /\ alive' = ~(asked < 2 \/ \E i \in 1..Len(stream) : stream[i].get)
    /\ UNCHANGED <<timerVars, store, view>>

\* The process ends for another reason: a signal, an exception elsewhere.
Exit ==
    /\ View!Down /\ drops < MaxDrops
    /\ drops' = drops + 1
    /\ Disconnected
    /\ UNCHANGED <<timerVars, store>>

Next ==
    \/ ChangeGame \/ SetKey \/ Publish
    \/ Start \/ Connect \/ RunCommand \/ Hear \/ Drop \/ Exit

Spec == Init /\ [][Next]_vars

\* Redis, the restart policy and the event loop of main go on, and so does a
\* timer that has begun to publish.  Nothing makes the game go on.
FairSpec ==
    /\ Spec
    /\ WF_vars(SetKey) /\ WF_vars(Publish) /\ WF_vars(Start) /\ WF_vars(Connect)
    /\ WF_vars(RunCommand) /\ WF_vars(Hear)

-----------------------------------------------------------------------------
(* Properties *)

TypeOK ==
    /\ game.state \in {"RUNNING", "STOPPED"} \cup Halts /\ game.round \in 0..MaxRound
    /\ todo \in 0..4 /\ link \in {"down", "up"} /\ asked \in 0..4
    /\ view.round \in -1..MaxRound
    /\ \A i \in 1..Len(stream) : stream[i].key \in {"state", "round"}
    /\ ~alive => link = "down"
    /\ link = "down" => asked = 0 /\ stream = <<>>

\* Replies and messages, before and after a connection breaks, never take the
\* server's round back or tell it one that is yet to come (redis.cpp as a whole):
\* the feed implements GameView.
FeedIsView == View!ViewSpec

\* A change published while the server listens to both keys becomes known to it,
\* unless the connection breaks or the game has moved on (onHandleMessage).
Listening == link = "up" /\ asked = 4
ChangeArrives ==
    \A r \in 1..MaxRound :
        /\ (Listening /\ todo = 4 /\ game.round = r)
             ~> (view.round >= r \/ link = "down")
        /\ (Listening /\ todo = 4 /\ game = [state |-> "STOPPED", round |-> r])
             ~> (view.state = "STOPPED" \/ link = "down")

\* After faults have ended a server that is connected and listens has the game's
\* state.  Not so: a publication between GET and SUBSCRIBE is lost.
ListenerKnows == <>[](alive /\ Listening /\ todo = 0 => view.state = store.state)
=============================================================================

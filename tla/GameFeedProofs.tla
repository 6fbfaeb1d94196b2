--------------------------- MODULE GameFeedProofs ---------------------------
(***************************************************************************)
(* Proofs about GameFeed: what the flag submission server hears of the     *)
(* game, over replies and publications that race and connections that      *)
(* break, is what GameView says it may believe.                            *)
(***************************************************************************)
EXTENDS GameFeed, TLAPS

GameStates == {"RUNNING"} \cup Halts
Message == [get : BOOLEAN, key : {"state", "round"},
            val : GameStates \cup Nat \cup {NoVal}]

Typed ==
  /\ game \in [state : {"RUNNING", "STOPPED"} \cup Halts, round : 0..MaxRound]
  /\ store \in [state : GameStates \cup {NoVal}, round : Nat \cup {NoVal}]
  /\ view \in [state : {"STOPPED"} \cup GameStates, round : Int]
  /\ todo \in 0..4 /\ link \in {"down", "up"} /\ asked \in 0..4
  /\ alive \in BOOLEAN /\ drops \in 0..MaxDrops
  /\ stream \in Seq(Message)

\* There is no connection, and nothing on the way, without a process.
LinkInv ==
  /\ ~alive => link = "down"
  /\ link = "down" => asked = 0 /\ stream = <<>>

\* What Redis has, and what is still to be published, is the game's.
StoreInv ==
  /\ todo > 0 \/ store.state # NoVal \/ game.state = "RUNNING" => game.round > 0
  /\ todo > 0 => game.state \in GameStates
  /\ store.round # NoVal => store.round \in 1..game.round
  /\ todo = 1 => store.round = game.round

Tells(i) == stream[i].key = "round" /\ stream[i].val # NoVal

\* The rounds on the way are in order, between the one the server knows and the
\* one that Redis has.
StreamInv ==
  /\ view.round = -1 \/ (store.round # NoVal /\ view.round \in 1..store.round)
  /\ \A i \in 1..Len(stream) :
       /\ stream[i].key = "state" /\ stream[i].val # NoVal =>
            stream[i].val \in GameStates /\ game.round > 0
       /\ Tells(i) => /\ store.round # NoVal /\ stream[i].val \in 1..store.round
                      /\ view.round <= stream[i].val
  /\ \A i, j \in 1..Len(stream) : i <= j /\ Tells(i) /\ Tells(j) => stream[i].val <= stream[j].val

IInv == Typed /\ LinkInv /\ StoreInv /\ StreamInv

-----------------------------------------------------------------------------
(* What is on the way after a step.                                        *)

\* A reply or a publication more, of what Redis has at that time.
LEMMA AppendKeeps ==
  ASSUME IInv, NEW m \in Message, store' \in [state : GameStates \cup {NoVal}, round : Nat \cup {NoVal}],
         stream' = Append(stream, m), UNCHANGED <<game, view>>,
         store.round # NoVal => store'.round # NoVal /\ store'.round >= store.round,
         m.key = "state" /\ m.val # NoVal => m.val \in GameStates /\ game.round > 0,
         m.key = "round" => m.val = store'.round,
         store'.round # NoVal => store'.round >= 1
  PROVE  stream' \in Seq(Message) /\ StreamInv'
<1>1. stream \in Seq(Message) /\ view.round \in Int /\ store.round \in Nat \cup {NoVal}
      /\ store'.round \in Nat \cup {NoVal} /\ game' = game /\ view' = view
  BY DEF IInv, Typed
<1>2. /\ stream' \in Seq(Message) /\ Len(stream') = Len(stream) + 1 /\ Len(stream) \in Nat
      /\ \A i \in 1..Len(stream) : stream'[i] = stream[i]
      /\ stream'[Len(stream) + 1] = m
  BY <1>1
<1>3. view.round = -1 \/ (store'.round # NoVal /\ view.round \in 1..store'.round)
  BY <1>1, FeedAssumption DEF IInv, StreamInv
<1>4. ASSUME NEW i \in 1..Len(stream')
      PROVE  /\ stream'[i].key = "state" /\ stream'[i].val # NoVal =>
                  stream'[i].val \in GameStates /\ game.round > 0
             /\ Tells(i)' => /\ store'.round # NoVal /\ stream'[i].val \in 1..store'.round
                             /\ view.round <= stream'[i].val
  <2>1. CASE i \in 1..Len(stream)
    BY <1>1, <1>2, <2>1, FeedAssumption DEF IInv, StreamInv, Tells
  <2>2. CASE i = Len(stream) + 1
    BY <1>1, <1>2, <1>3, <2>2, FeedAssumption DEF Tells
  <2> QED BY <1>2, <2>1, <2>2
<1>5. ASSUME NEW i \in 1..Len(stream'), NEW j \in 1..Len(stream'), i <= j, Tells(i)', Tells(j)'
      PROVE  stream'[i].val <= stream'[j].val
  <2>1. CASE j \in 1..Len(stream)
    BY <1>1, <1>2, <1>5, <2>1 DEF IInv, StreamInv, Tells
  <2>2. CASE j = Len(stream) + 1
    <3>1. stream'[j].val = store'.round
      BY <1>2, <1>5, <2>2 DEF Tells
    <3> QED BY <1>1, <1>4, <1>5, <3>1
  <2> QED BY <1>2, <2>1, <2>2
<1> QED BY <1>1, <1>2, <1>3, <1>4, <1>5 DEF StreamInv

-----------------------------------------------------------------------------
(* One step.                                                               *)

\* At the start the server runs not, and knows nothing.
LEMMA InitIInv == Init => IInv
<1> SUFFICES ASSUME Init PROVE IInv
  OBVIOUS
<1> USE FeedAssumption DEF Init, View!ViewInit, View!Unknown
<1>1. Typed
  <2>1. /\ game \in [state : {"RUNNING", "STOPPED"} \cup Halts, round : 0..MaxRound]
        /\ store \in [state : GameStates \cup {NoVal}, round : Nat \cup {NoVal}]
        /\ view \in [state : {"STOPPED"} \cup GameStates, round : Int]
    OBVIOUS
  <2>2. stream \in Seq(Message)
    OBVIOUS
  <2>3. todo \in 0..4 /\ asked \in 0..4 /\ drops \in 0..MaxDrops
    OBVIOUS
  <2>4. link \in {"down", "up"} /\ alive \in BOOLEAN
    OBVIOUS
  <2> HIDE DEF Init, View!ViewInit, View!Unknown
  <2> QED BY <2>1, <2>2, <2>3, <2>4 DEF Typed
<1>2. LinkInv /\ StoreInv /\ StreamInv
  BY DEF LinkInv, StoreInv, StreamInv
<1> QED BY <1>1, <1>2 DEF IInv

\* The game goes on when nothing is left to publish.
LEMMA ChangeGameKeeps == IInv /\ ChangeGame => IInv'
<1> SUFFICES ASSUME IInv, ChangeGame PROVE IInv'
  OBVIOUS
<1>1. /\ UNCHANGED <<store, link, asked, stream, view, alive, drops>>
      /\ todo' = 4 /\ todo = 0
  BY DEF ChangeGame, netVars
<1>2. /\ game' \in [state : GameStates, round : 0..MaxRound]
      /\ game'.round >= game.round /\ game'.round > 0
  <2>1. game \in [state : {"RUNNING", "STOPPED"} \cup Halts, round : 0..MaxRound] /\ MaxRound \in Nat
    BY FeedAssumption DEF IInv, Typed
  <2>2. CASE View!StartGame
    BY <2>1, <2>2 DEF View!StartGame, GameStates
  <2>3. CASE View!NextTick
    BY <2>1, <2>3 DEF View!NextTick, GameStates
  <2>4. CASE View!Halt
    <3>1. PICK h \in Halts : game' = [game EXCEPT !.state = h]
      BY <2>4 DEF View!Halt
    <3>2. game.state = "RUNNING" /\ game.round > 0
      BY <2>4 DEF View!Halt, IInv, StoreInv, Typed
    <3> QED BY <2>1, <3>1, <3>2 DEF GameStates
  <2> QED BY <2>2, <2>3, <2>4 DEF ChangeGame
<1>3. Typed'
  BY <1>1, <1>2 DEF IInv, Typed, GameStates
<1>4. LinkInv' /\ StoreInv'
  BY <1>1, <1>2, FeedAssumption DEF IInv, Typed, LinkInv, StoreInv
<1>5. StreamInv'
  BY <1>1, <1>2, FeedAssumption DEF IInv, Typed, StreamInv, Tells
<1> QED BY <1>3, <1>4, <1>5 DEF IInv

\* The key that the timer is at.
LEMMA AtShape ==
  ASSUME IInv, todo > 0
  PROVE  /\ game.state \in GameStates /\ game.round \in 1..MaxRound /\ MaxRound \in Nat
         /\ \/ Keys[At] = "state" /\ game[Keys[At]] = game.state
            \/ Keys[At] = "round" /\ game[Keys[At]] = game.round /\ todo \in 1..2
  BY FeedAssumption DEF IInv, Typed, StoreInv, At, Keys

\* The state or the round goes to Redis, ...
LEMMA SetKeyKeeps == IInv /\ SetKey => IInv'
<1> SUFFICES ASSUME IInv, SetKey PROVE IInv'
  OBVIOUS
<1>1. /\ UNCHANGED <<game, link, asked, stream, view, alive, drops>>
      /\ todo \in {4, 2} /\ todo' = todo - 1
      /\ store' = [store EXCEPT ![Keys[At]] = game[Keys[At]]]
  BY DEF SetKey, netVars
<1>2. /\ game.state \in GameStates /\ game.round \in 1..MaxRound /\ MaxRound \in Nat
      /\ store \in [state : GameStates \cup {NoVal}, round : Nat \cup {NoVal}]
  BY <1>1, AtShape DEF IInv, Typed
<1>3. /\ store' \in [state : GameStates \cup {NoVal}, round : Nat \cup {NoVal}]
      /\ store'.round = store.round \/ store'.round = game.round
      /\ todo' = 1 => store'.round = game.round
  <2>1. CASE Keys[At] = "state" /\ game[Keys[At]] = game.state
    <3>1. todo' # 1
      BY <1>1, <2>1 DEF At, Keys
    <3> QED BY <1>1, <1>2, <2>1, <3>1
  <2>2. CASE Keys[At] = "round" /\ game[Keys[At]] = game.round
    BY <1>1, <1>2, <2>2
  <2> QED BY <1>1, <2>1, <2>2, AtShape
<1>4. store.round # NoVal => store'.round # NoVal /\ store'.round >= store.round
  BY <1>2, <1>3, FeedAssumption DEF IInv, StoreInv, Typed
<1>5. store'.round # NoVal => store'.round \in 1..game.round
  BY <1>2, <1>3 DEF IInv, StoreInv
<1>6. StreamInv'
  BY <1>1, <1>2, <1>3, <1>4, <1>5 DEF IInv, Typed, StreamInv, Tells
<1>7. Typed'
  BY <1>1, <1>3 DEF IInv, Typed
<1>8. LinkInv' /\ StoreInv'
  BY <1>1, <1>2, <1>3, <1>5 DEF IInv, LinkInv, StoreInv, Typed
<1> QED BY <1>6, <1>7, <1>8 DEF IInv

\* ... and then to a server that listens: it is what Redis has by now.
LEMMA PublishKeeps == IInv /\ Publish => IInv'
<1> SUFFICES ASSUME IInv, Publish PROVE IInv'
  OBVIOUS
<1> DEFINE m == [get |-> FALSE, key |-> Keys[At], val |-> game[Keys[At]]]
<1>1. /\ UNCHANGED <<game, store, link, asked, view, alive, drops>>
      /\ todo \in {3, 1} /\ todo' = todo - 1
      /\ stream' = IF link = "up" /\ asked >= 2 + At THEN Append(stream, m) ELSE stream
  BY DEF Publish
<1>2. /\ game.state \in GameStates /\ game.round \in 1..MaxRound /\ MaxRound \in Nat
      /\ store \in [state : GameStates \cup {NoVal}, round : Nat \cup {NoVal}]
  BY <1>1, AtShape DEF IInv, Typed
<1>3. /\ m \in Message
      /\ m.key = "round" => m.val = store.round
      /\ m.key = "state" => m.val \in GameStates
  <2>1. CASE Keys[At] = "state" /\ game[Keys[At]] = game.state
    BY <1>2, <2>1 DEF Message
  <2>2. CASE Keys[At] = "round" /\ game[Keys[At]] = game.round /\ todo \in 1..2
    <3>1. store.round = game.round
      BY <1>1, <2>2 DEF IInv, StoreInv
    <3> QED BY <1>2, <2>2, <3>1 DEF Message
  <2> QED BY <1>1, <2>1, <2>2, AtShape
<1> HIDE DEF m
<1>4. store.round # NoVal => store.round \in 1..game.round
  BY DEF IInv, StoreInv
<1>5. StreamInv' /\ stream' \in Seq(Message)
  <2>1. CASE stream' = Append(stream, m)
    BY <1>1, <1>2, <1>3, <1>4, <2>1, AppendKeeps
  <2>2. CASE stream' = stream
    BY <1>1, <2>2 DEF IInv, Typed, StreamInv, Tells
  <2> QED BY <1>1, <2>1, <2>2
<1>6. Typed'
  BY <1>1, <1>5 DEF IInv, Typed
<1>7. LinkInv' /\ StoreInv'
  BY <1>1, <1>2 DEF IInv, LinkInv, StoreInv, Typed
<1> QED BY <1>5, <1>6, <1>7 DEF IInv

\* Redis answers a GET, or notes a subscription.
LEMMA RunCommandKeeps == IInv /\ RunCommand => IInv'
<1> SUFFICES ASSUME IInv, RunCommand PROVE IInv'
  OBVIOUS
<1> DEFINE key == Keys[asked + 1]
           m == [get |-> TRUE, key |-> key, val |-> store[key]]
<1>1. /\ UNCHANGED <<game, todo, store, link, view, alive, drops>>
      /\ link = "up" /\ asked < 4 /\ asked' = asked + 1 /\ asked \in 0..4
      /\ stream' = IF asked < 2 THEN Append(stream, m) ELSE stream
  BY DEF RunCommand, timerVars, IInv, Typed
<1>2. StreamInv' /\ stream' \in Seq(Message)
  <2>1. CASE asked < 2
    <3>1. store \in [state : GameStates \cup {NoVal}, round : Nat \cup {NoVal}]
      BY DEF IInv, Typed
    <3>2. key = "state" \/ key = "round"
      BY <1>1, <2>1 DEF Keys
    <3>3. /\ m \in Message
          /\ m.key = "state" /\ m.val # NoVal => m.val \in GameStates /\ game.round > 0
          /\ m.key = "round" => m.val = store.round
      BY <3>1, <3>2 DEF Message, IInv, StoreInv
    <3>4. store.round # NoVal => store.round >= 1 /\ store.round >= store.round
      BY DEF IInv, StoreInv, Typed
    <3> HIDE DEF key, m
    <3> QED BY <1>1, <2>1, <3>1, <3>3, <3>4, AppendKeeps
  <2>2. CASE ~(asked < 2)
    BY <1>1, <2>2 DEF IInv, Typed, StreamInv, Tells
  <2> QED BY <2>1, <2>2
<1>3. Typed'
  BY <1>1, <1>2 DEF IInv, Typed
<1>4. LinkInv' /\ StoreInv'
  BY <1>1 DEF IInv, LinkInv, StoreInv
<1> QED BY <1>2, <1>3, <1>4 DEF IInv

\* The server takes the next reply or message.
LEMMA HearKeeps == IInv /\ Hear => IInv'
<1> SUFFICES ASSUME IInv, Hear PROVE IInv'
  OBVIOUS
<1>1. /\ UNCHANGED <<game, todo, store, link, asked, alive, drops>>
      /\ stream # <<>> /\ stream' = Tail(stream)
  BY DEF Hear, timerVars
<1>2. /\ stream' \in Seq(Message) /\ Len(stream) \in Nat \ {0} /\ Len(stream') = Len(stream) - 1
      /\ stream[1] \in Message /\ Head(stream) = stream[1]
      /\ \A i \in 1..Len(stream') : i + 1 \in 1..Len(stream) /\ stream'[i] = stream[i + 1]
  <2>1. stream \in Seq(Message)
    BY DEF IInv, Typed
  <2> QED BY <1>1, <2>1
<1>3. view' = IF stream[1].val = NoVal THEN view
              ELSE [view EXCEPT ![stream[1].key] = stream[1].val]
  BY <1>2 DEF Hear
<1>4. /\ view \in [state : {"STOPPED"} \cup GameStates, round : Int]
      /\ stream[1].key \in {"state", "round"} /\ 1 \in 1..Len(stream)
  BY <1>2 DEF IInv, Typed, Message
<1>5. /\ view' \in [state : {"STOPPED"} \cup GameStates, round : Int]
      /\ view'.round = IF Tells(1) THEN stream[1].val ELSE view.round
  <2>1. CASE stream[1].val = NoVal
    BY <1>3, <1>4, <2>1 DEF Tells
  <2>2. CASE stream[1].val # NoVal /\ stream[1].key = "state"
    <3>1. stream[1].val \in GameStates
      BY <1>4, <2>2 DEF IInv, StreamInv
    <3> QED BY <1>3, <1>4, <2>2, <3>1 DEF Tells
  <2>3. CASE stream[1].val # NoVal /\ stream[1].key = "round"
    <3>1. stream[1].val \in Int
      BY <1>4, <2>3, FeedAssumption DEF IInv, StreamInv, Tells
    <3> QED BY <1>3, <1>4, <2>3, <3>1 DEF Tells
  <2> QED BY <1>4, <2>1, <2>2, <2>3
<1>6. \A i \in 1..Len(stream') : Tells(i)' = Tells(i + 1)
  BY <1>2 DEF Tells
<1>7. StreamInv'
  <2>1. view'.round = -1 \/ (store'.round # NoVal /\ view'.round \in 1..store'.round)
    BY <1>1, <1>4, <1>5 DEF IInv, StreamInv
  <2>2. ASSUME NEW i \in 1..Len(stream')
        PROVE  /\ stream'[i].key = "state" /\ stream'[i].val # NoVal =>
                    stream'[i].val \in GameStates /\ game'.round > 0
               /\ Tells(i)' => /\ store'.round # NoVal /\ stream'[i].val \in 1..store'.round
                               /\ view'.round <= stream'[i].val
    <3>1. i + 1 \in 1..Len(stream) /\ stream'[i] = stream[i + 1] /\ 1 <= i + 1
      BY <1>2
    <3>2. Tells(1) /\ Tells(i + 1) => stream[1].val <= stream[i + 1].val
      BY <1>4, <3>1 DEF IInv, StreamInv
    <3> QED BY <1>1, <1>5, <1>6, <3>1, <3>2 DEF IInv, StreamInv
  <2>3. ASSUME NEW i \in 1..Len(stream'), NEW j \in 1..Len(stream'), i <= j, Tells(i)', Tells(j)'
        PROVE  stream'[i].val <= stream'[j].val
    <3>1. /\ i + 1 \in 1..Len(stream) /\ j + 1 \in 1..Len(stream) /\ i + 1 <= j + 1
          /\ Tells(i + 1) /\ Tells(j + 1)
          /\ stream'[i] = stream[i + 1] /\ stream'[j] = stream[j + 1]
      BY <1>2, <1>6, <2>3
    <3> QED BY <3>1 DEF IInv, StreamInv
  <2> QED BY <2>1, <2>2, <2>3 DEF StreamInv
<1>8. Typed'
  BY <1>1, <1>2, <1>5 DEF IInv, Typed
<1>9. LinkInv' /\ StoreInv'
  BY <1>1 DEF IInv, LinkInv, StoreInv
<1> QED BY <1>7, <1>8, <1>9 DEF IInv

\* Processes and connections come and go, and take the stream with them.
LEMMA OthersKeep == IInv /\ (Start \/ Connect \/ Drop \/ Exit \/ UNCHANGED vars) => IInv'
<1> SUFFICES ASSUME IInv, Start \/ Connect \/ Drop \/ Exit \/ UNCHANGED vars PROVE IInv'
  OBVIOUS
<1>1. CASE Start
  <2>1. /\ UNCHANGED <<game, todo, store, link, asked, stream, drops>>
        /\ alive' = TRUE /\ ~alive /\ view' = [state |-> "STOPPED", round |-> -1]
    BY <1>1 DEF Start, View!Up, View!Unknown, timerVars, netVars
  <2>2. stream = <<>>
    BY <2>1 DEF IInv, LinkInv
  <2>3. Typed'
    <3>1. view' \in [state : {"STOPPED"} \cup GameStates, round : Int] /\ alive' \in BOOLEAN
      BY <2>1
    <3> QED BY <2>1, <3>1 DEF IInv, Typed
  <2>4. LinkInv' /\ StoreInv'
    BY <2>1 DEF IInv, LinkInv, StoreInv
  <2>5. StreamInv'
    BY <2>1, <2>2 DEF StreamInv
  <2> QED BY <2>3, <2>4, <2>5 DEF IInv
<1>2. CASE Connect
  <2>1. /\ UNCHANGED <<game, todo, store, asked, stream, view, alive, drops>>
        /\ alive /\ link' = "up"
    BY <1>2 DEF Connect, timerVars
  <2> QED BY <2>1 DEF IInv, Typed, LinkInv, StoreInv, StreamInv, Tells
<1>3. CASE Drop \/ Exit
  <2>1. /\ UNCHANGED <<game, todo, store, view>>
        /\ link' = "down" /\ asked' = 0 /\ stream' = <<>>
        /\ drops < MaxDrops /\ drops' = drops + 1
    BY <1>3 DEF Drop, Exit, Disconnected, View!Down, timerVars
  <2>2. alive' \in BOOLEAN
    BY <1>3 DEF Drop, Exit, View!Down
  <2>3. Typed'
    <3>1. stream' \in Seq(Message)
      BY <2>1
    <3> QED BY <2>1, <2>2, <3>1, FeedAssumption DEF IInv, Typed
  <2>4. LinkInv' /\ StoreInv'
    BY <2>1 DEF IInv, LinkInv, StoreInv
  <2>5. StreamInv'
    BY <2>1 DEF IInv, StreamInv
  <2> QED BY <2>3, <2>4, <2>5 DEF IInv
<1>4. CASE UNCHANGED vars
  BY <1>4 DEF vars, timerVars, netVars, IInv, Typed, LinkInv, StoreInv, StreamInv, Tells
<1> QED BY <1>1, <1>2, <1>3, <1>4

\* Every step keeps the invariant.
LEMMA IInvNext == IInv /\ [Next]_vars => IInv'
  BY ChangeGameKeeps, SetKeyKeeps, PublishKeeps, RunCommandKeeps, HearKeeps, OthersKeep DEF Next

\* The inductive invariant holds.
LEMMA InductiveInvariant == Spec => []IInv
  BY InitIInv, IInvNext, PTL DEF Spec

-----------------------------------------------------------------------------
(* The theorems.                                                           *)

\* The types of the feed's state; there is no connection without a process.
THEOREM TypesKept == Spec => []TypeOK
<1>1. IInv => TypeOK
  <2> SUFFICES ASSUME IInv PROVE TypeOK
    OBVIOUS
  <2>1. \A i \in 1..Len(stream) : stream[i].key \in {"state", "round"}
    <3>1. \A i \in 1..Len(stream) : stream[i] \in Message
      BY DEF IInv, Typed
    <3> QED BY <3>1 DEF Message
  <2>2. view.round \in -1..MaxRound
    BY FeedAssumption DEF IInv, Typed, StoreInv, StreamInv
  <2> QED BY <2>1, <2>2 DEF IInv, Typed, LinkInv, TypeOK
<1> QED BY InductiveInvariant, <1>1, PTL

\* Taking a reply or a message is learning one thing, or nothing.
LEMMA HearLearns == IInv /\ Hear => [View!ViewNext]_(View!viewVars)
<1> SUFFICES ASSUME IInv, Hear PROVE View!ViewNext \/ UNCHANGED View!viewVars
  OBVIOUS
<1> DEFINE m == stream[1]
<1>1. UNCHANGED <<game, alive>> /\ Len(stream) >= 1 /\ alive
  <2>1. stream # <<>> /\ UNCHANGED <<game, alive>>
    BY DEF Hear, timerVars
  <2> QED BY <2>1 DEF IInv, Typed, LinkInv
<1>2. /\ view' = IF m.val = NoVal THEN view ELSE [view EXCEPT ![m.key] = m.val]
      /\ m.key \in {"state", "round"}
      /\ view \in [state : {"STOPPED"} \cup GameStates, round : Int]
  <2>1. stream[1] \in Message /\ Head(stream) = stream[1]
    BY <1>1 DEF IInv, Typed
  <2> QED BY <2>1 DEF Hear, IInv, Typed, Message
<1>3. CASE m.val = NoVal
  BY <1>1, <1>2, <1>3 DEF View!viewVars
<1>4. CASE m.val # NoVal /\ m.key = "state"
  <2>1. m.val \in GameStates /\ game.round > 0
    BY <1>1, <1>4 DEF IInv, StreamInv
  <2>2. view' = [view EXCEPT !.state = m.val] /\ m.val \in {"RUNNING", game.state} \cup Halts
    BY <1>2, <1>4, <2>1 DEF GameStates
  <2>3. View!LearnState
    BY <1>1, <2>1, <2>2 DEF View!LearnState
  <2> QED BY <1>1, <2>3 DEF View!ViewNext
<1>5. CASE m.val # NoVal /\ m.key = "round"
  <2>1. /\ view.round <= m.val /\ m.val \in 1..game.round /\ m.val \in Int
        /\ game.round \in Nat
    BY <1>1, <1>5 DEF IInv, Typed, StoreInv, StreamInv, Tells
  <2>2. view' = [view EXCEPT !.round = m.val]
    BY <1>2, <1>5
  <2>3. CASE m.val = view.round
    <3>1. view' = view
      BY <1>2, <2>2, <2>3
    <3> QED BY <1>1, <3>1 DEF View!viewVars
  <2>4. CASE m.val # view.round
    <3>1. m.val \in view.round + 1..game.round /\ m.val > 0
      BY <1>2, <2>1, <2>4
    <3>2. View!LearnRound
      BY <1>1, <2>2, <3>1 DEF View!LearnRound
    <3> QED BY <1>1, <3>2 DEF View!ViewNext
  <2> QED BY <2>3, <2>4
<1> QED BY <1>2, <1>3, <1>4, <1>5

\* Every step of the feed is one of GameView, or leaves what it describes alone.
LEMMA StepIsView == IInv /\ [Next]_vars => [View!ViewNext]_(View!viewVars)
<1> SUFFICES ASSUME IInv, [Next]_vars PROVE View!ViewNext \/ UNCHANGED View!viewVars
  OBVIOUS
<1>1. CASE ChangeGame
  BY <1>1 DEF ChangeGame, View!ViewNext
<1>2. CASE Start \/ Exit
  BY <1>2 DEF Start, Exit, View!Down, View!ViewNext, timerVars
<1>3. CASE Drop
  <2>1. UNCHANGED <<game, view>> /\ alive /\ alive' \in BOOLEAN
    BY <1>3 DEF Drop, timerVars, IInv, Typed, LinkInv
  <2>2. CASE alive' = FALSE
    BY <2>1, <2>2 DEF View!Down, View!ViewNext
  <2>3. CASE alive' = TRUE
    BY <2>1, <2>3 DEF View!viewVars
  <2> QED BY <2>1, <2>2, <2>3
<1>4. CASE Hear
  BY <1>4, HearLearns
<1>5. CASE SetKey \/ Publish \/ Connect \/ RunCommand \/ UNCHANGED vars
  BY <1>5 DEF SetKey, Publish, netVars, Connect, RunCommand, vars, timerVars, View!viewVars
<1> QED BY <1>1, <1>2, <1>3, <1>4, <1>5 DEF Next

\* Replies and messages never take the server's round back or tell it one that is
\* yet to come: the feed implements GameView (redis.cpp as a whole).
THEOREM FeedImplementsView == Spec => FeedIsView
<1>1. Init => View!ViewInit
  BY DEF Init
<1> QED BY <1>1, InductiveInvariant, StepIsView, PTL DEF Spec, FeedIsView, View!ViewSpec
=============================================================================

--------------------------- MODULE RotatorProofs ---------------------------
(***************************************************************************)
(* Proofs about GameTimer, and about Rotator, which extends it.            *)
(*                                                                         *)
(* First the game timer by itself: its types, the consistency of the row,  *)
(* and what becomes of ticks and orders that all open transactions have    *)
(* seen, in any overlap.  Then the rotator: it implements GameTimer, its   *)
(* totals only grow, and as long as no update of the row has been lost the *)
(* round ids are the ticks, the windows are disjoint and the points exact, *)
(* wherever a boundary run fails and is made again.                        *)
(***************************************************************************)
EXTENDS Rotator, FiniteSetTheorems, TLAPS

-----------------------------------------------------------------------------
(* The game timer.                                                         *)

\* The strengthening of RowConsistent: every object in memory is consistent,
\* so that whichever of them is written back next, the row is too.
ConsistentInv ==
  /\ TypeOK
  /\ Consistent(row)
  /\ \A p \in Proc : Consistent(timer[p])

SameSettings(t, u) ==
  t.startAt = u.startAt /\ t.stopAfter = u.stopAfter /\ t.freeze = u.freeze

-----------------------------------------------------------------------------
(* What the methods of GameTimer preserve.                                 *)

Good(t) == t \in Timer /\ Consistent(t)

\* The object ensure_row inserts is a consistent one (game_timer.py:96-109).
LEMMA FirstRowGood == Good(FirstRow)
  BY ConfigAssumption, TimeAssumption
  DEF Good, FirstRow, Timer, Consistent, CTFState, OptNat

\* Opening a numbered tick of a game not asked to stop (game_timer.py:165-171).
LEMMA OpenTickGood ==
  ASSUME NEW t \in Timer, NEW n \in Nat, NEW k \in Nat,
         k >= 1, t.desired # "STOPPED"
  PROVE  /\ Good(OpenTick(t, n, k))
         /\ OpenTick(t, n, k).tick = k
<1> DEFINE o == OpenTick(t, n, k)
<1>1. n + Rotation \in Nat
  BY TimeAssumption
<1>2. o \in Timer
  BY <1>1 DEF OpenTick, Timer, CTFState, OptNat
<1>3. /\ o.tick = k /\ o.start = n /\ o.end = n + Rotation
      /\ o.state = "RUNNING" /\ o.desired = t.desired
  BY DEF OpenTick, Timer
<1> HIDE DEF o
<1>4. Consistent(o)
  BY <1>1, <1>3, TimeAssumption DEF Consistent
<1> QED BY <1>2, <1>3, <1>4 DEF Good, o

\* sync_scheduled_start past its early returns (game_timer.py:119-124).
LEMMA SyncedGood ==
  ASSUME NEW t, Good(t), NEW n \in Nat, ShouldRun(t, n)
  PROVE  /\ Good(Synced(t, n))
         /\ Synced(t, n).desired = "RUNNING"
         /\ Synced(t, n).tick = IF t.tick < 1 THEN 1 ELSE t.tick
<1>1. CASE t.tick < 1
  <2>1. Synced(t, n) = OpenTick(t, n, 1)
    BY <1>1 DEF Synced
  <2>2. t \in Timer /\ t.desired = "RUNNING"
    BY DEF Good, ShouldRun
  <2>3. Good(OpenTick(t, n, 1)) /\ OpenTick(t, n, 1).tick = 1
    BY <2>2, OpenTickGood
  <2>4. OpenTick(t, n, 1).desired = t.desired
    BY <2>2 DEF OpenTick, Timer
  <2> QED BY <1>1, <2>1, <2>2, <2>3, <2>4
<1>2. CASE ~(t.tick < 1)
  <2> DEFINE s == Synced(t, n)
  <2>1. s \in Timer
    BY <1>2 DEF Good, Synced, Timer, CTFState
  <2>2. /\ s.state = "RUNNING" /\ s.desired = t.desired /\ s.tick = t.tick
        /\ s.start = t.start /\ s.end = t.end
    BY <1>2 DEF Good, Synced, Timer
  <2> HIDE DEF s
  <2>3. Consistent(s)
    BY <2>2 DEF Good, ShouldRun, Consistent
  <2> QED BY <1>2, <2>1, <2>2, <2>3 DEF Good, ShouldRun, s
<1> QED BY <1>1, <1>2

\* finish_boundary: the next tick, the same one, or none (game_timer.py:141-163).
LEMMA FinishedGood ==
  ASSUME NEW t, Good(t), NEW n \in Nat
  PROVE  /\ Good(Finished(t, n))
         /\ \/ Finished(t, n).tick \in {t.tick, t.tick + 1}
            \/ Finished(t, n).tick = 0 /\ Finished(t, n).desired = "STOPPED"
<1>1. CASE t.desired # "RUNNING"
  BY <1>1, TimeAssumption DEF Good, Finished, Timer, Consistent, CTFState, OptNat
<1>2. CASE t.desired = "RUNNING" /\ t.stopAfter # NoVal /\ t.tick >= t.stopAfter
  BY <1>2, TimeAssumption DEF Good, Finished, Timer, Consistent, CTFState, OptNat
<1>3. CASE t.desired = "RUNNING" /\ ~(t.stopAfter # NoVal /\ t.tick >= t.stopAfter)
  <2>1. Finished(t, n) = OpenTick(t, n, t.tick + 1)
    BY <1>3 DEF Finished
  <2>2. t \in Timer /\ t.tick \in Nat
    BY DEF Good, Timer
  <2> QED BY <1>3, <2>1, <2>2, OpenTickGood
<1> QED BY <1>1, <1>2, <1>3

\* set_desired (game_timer.py:173-190).
LEMMA DesiredGood ==
  ASSUME NEW t, Good(t), NEW d \in CTFState
  PROVE  /\ Good(Desired(t, d))
         /\ Desired(t, d).tick = IF d = "STOPPED" THEN 0 ELSE t.tick
         /\ Desired(t, d).desired = d
<1>1. CASE d = "STOPPED"
  BY <1>1, TimeAssumption DEF Good, Desired, Timer, Consistent, CTFState, OptNat
<1>2. CASE d = "SUSPENDED"
  BY <1>2, TimeAssumption DEF Good, Desired, Timer, Consistent, CTFState, OptNat
<1>3. CASE d = "RUNNING"
  BY <1>3, TimeAssumption DEF Good, Desired, Timer, Consistent, CTFState, OptNat
<1> QED BY <1>1, <1>2, <1>3 DEF CTFState

\* schedule() touches none of the fields a tick is made of (game_timer.py:192-207).
LEMMA ScheduledGood ==
  ASSUME NEW t, Good(t), NEW b \in Body
  PROVE  /\ Good(Scheduled(t, b))
         /\ Scheduled(t, b).tick = t.tick
<1>1. b \in ScheduleBody
  BY ConfigAssumption DEF Body, NoSchedule, ScheduleBody, OptNat
<1> DEFINE s == Scheduled(t, b)
<1>2. s \in Timer
  BY <1>1 DEF Good, Scheduled, ScheduleBody, Timer
<1>3. /\ s.state = t.state /\ s.desired = t.desired /\ s.tick = t.tick
      /\ s.start = t.start /\ s.end = t.end
  BY DEF Good, Scheduled, Timer
<1> HIDE DEF s
<1>4. Consistent(s)
  BY <1>3 DEF Good, Consistent
<1> QED BY <1>2, <1>3, <1>4 DEF Good, s

\* sync_scheduled_start touches no setting (game_timer.py:111-124).
LEMMA SyncedKeeps ==
  ASSUME NEW t, Good(t), NEW n \in Nat
  PROVE  SameSettings(Synced(t, n), t)
  BY DEF Good, Synced, OpenTick, SameSettings, Timer

\* Nor does finish_boundary, which neither revives a stopped game nor opens
\* a tick behind the last one (game_timer.py:141-163).
LEMMA FinishedKeeps ==
  ASSUME NEW t, Good(t), NEW n \in Nat
  PROVE  /\ SameSettings(Finished(t, n), t)
         /\ t.desired = "STOPPED" => Finished(t, n).desired = "STOPPED"
         /\ Finished(t, n).tick > t.tick /\ t.stopAfter # NoVal =>
              Finished(t, n).tick <= t.stopAfter
<1>1. t \in Timer /\ t.tick \in Nat /\ t.stopAfter \in OptNat
  BY DEF Good, Timer
<1>2. CASE t.desired # "RUNNING"
  <2>1. SameSettings(Finished(t, n), t) /\ Finished(t, n).desired = t.desired
    BY <1>1, <1>2 DEF Finished, SameSettings, Timer
  <2>2. Finished(t, n).tick <= t.tick /\ Finished(t, n).tick \in Nat
    BY <1>1, <1>2 DEF Finished, Timer
  <2> QED BY <1>1, <2>1, <2>2
<1>3. CASE t.desired = "RUNNING" /\ t.stopAfter # NoVal /\ t.tick >= t.stopAfter
  BY <1>1, <1>3 DEF Finished, SameSettings, Timer
<1>4. CASE t.desired = "RUNNING" /\ ~(t.stopAfter # NoVal /\ t.tick >= t.stopAfter)
  <2>1. Finished(t, n) = OpenTick(t, n, t.tick + 1)
    BY <1>4 DEF Finished
  <2>2. /\ SameSettings(OpenTick(t, n, t.tick + 1), t)
        /\ OpenTick(t, n, t.tick + 1).tick = t.tick + 1
    BY <1>1 DEF OpenTick, SameSettings, Timer
  <2> QED BY <1>1, <1>4, <2>1, <2>2 DEF OptNat
<1> QED BY <1>2, <1>3, <1>4

\* What a request may do to the settings, the wish to stop and the tick
\* (game_api.py:23-92).
LEMMA ResultKeeps ==
  ASSUME NEW t, Good(t), NEW n \in Nat,
         NEW r \in [op : Ops, body : Body], Updates(r, t, n)
  PROVE  /\ r.op # "schedule" => SameSettings(Result(r, t, n), t)
         /\ \A f \in {"startAt", "stopAfter", "freeze"} :
              r.op # "schedule" \/ r.body[f] = NoVal => Result(r, t, n)[f] = t[f]
         /\ t.desired = "STOPPED" /\ r.op \notin {"start", "pause"} =>
              Result(r, t, n).desired = "STOPPED"
<1>1. \A d \in CTFState : SameSettings(Desired(t, d), t) /\ Desired(t, d).desired = d
  BY DEF Good, Desired, SameSettings, Timer, CTFState
<1>2. CASE r.op = "start"
  <2> DEFINE d == Desired(t, "RUNNING")
  <2>1. Good(d) /\ SameSettings(d, t)
    BY <1>1, DesiredGood DEF CTFState
  <2>2. Result(r, t, n) \in {d, Synced(d, n)}
    BY <1>2 DEF Result
  <2> HIDE DEF d
  <2>3. SameSettings(Result(r, t, n), t)
    BY <2>1, <2>2, SyncedKeeps DEF SameSettings
  <2> QED BY <1>2, <2>3 DEF SameSettings
<1>3. CASE r.op = "pause"
  BY <1>1, <1>3 DEF Result, SameSettings, CTFState
<1>4. CASE r.op = "stop"
  BY <1>1, <1>4 DEF Result, SameSettings, CTFState
<1>5. CASE r.op = "schedule"
  <2>1. Result(r, t, n) = Scheduled(t, r.body)
    BY <1>5 DEF Result
  <2>2. /\ Scheduled(t, r.body).desired = t.desired
        /\ Scheduled(t, r.body).startAt \in
             IF r.body.startAt = NoVal THEN {t.startAt} ELSE {r.body.startAt}
        /\ Scheduled(t, r.body).stopAfter \in
             IF r.body.stopAfter = NoVal THEN {t.stopAfter} ELSE {r.body.stopAfter}
        /\ Scheduled(t, r.body).freeze \in
             IF r.body.freeze = NoVal THEN {t.freeze} ELSE {r.body.freeze}
    BY DEF Good, Scheduled, Timer
  <2> QED BY <1>5, <2>1, <2>2
<1>6. CASE r.op = "status"
  <2>1. t.desired = "RUNNING" /\ Result(r, t, n) = Synced(t, n)
    BY <1>6 DEF Result, Updates, ShouldRun
  <2> QED BY <1>6, <2>1, SyncedKeeps DEF SameSettings
<1> QED BY <1>2, <1>3, <1>4, <1>5, <1>6 DEF Ops

\* Every request handler leaves a consistent row, and moves the tick only to
\* open tick 1 or to reset it.
LEMMA ResultGood ==
  ASSUME NEW t, Good(t), NEW n \in Nat,
         NEW r \in [op : Ops, body : Body], Updates(r, t, n)
  PROVE  /\ Good(Result(r, t, n))
         /\ \/ Result(r, t, n).tick = t.tick
            \/ t.tick = 0 /\ Result(r, t, n).tick = 1
            \/ Result(r, t, n).tick = 0 /\ Result(r, t, n).desired = "STOPPED"
<1>1. CASE r.op = "start"
  <2> DEFINE d == Desired(t, "RUNNING")
  <2>1. Good(d) /\ d.tick = t.tick
    BY DesiredGood DEF CTFState
  <2>2. CASE ShouldRun(d, n)
    <3>1. Result(r, t, n) = Synced(d, n)
      BY <1>1, <2>2 DEF Result
    <3> HIDE DEF d
    <3>2. Good(Synced(d, n)) /\ Synced(d, n).tick = IF d.tick < 1 THEN 1 ELSE d.tick
      BY <2>1, <2>2, SyncedGood
    <3> QED BY <2>1, <3>1, <3>2 DEF Good, Timer
  <2>3. CASE ~ShouldRun(d, n)
    BY <1>1, <2>1, <2>3 DEF Result
  <2> QED BY <2>2, <2>3
<1>2. CASE r.op = "pause"
  BY <1>2, DesiredGood DEF Result, CTFState
<1>3. CASE r.op = "stop"
  BY <1>3, DesiredGood DEF Result, CTFState
<1>4. CASE r.op = "schedule"
  BY <1>4, ScheduledGood DEF Result
<1>5. CASE r.op = "status"
  <2>1. ShouldRun(t, n) /\ Result(r, t, n) = Synced(t, n)
    BY <1>5 DEF Result, Updates
  <2> QED BY <2>1, SyncedGood DEF Good, Timer
<1> QED BY <1>1, <1>2, <1>3, <1>4, <1>5 DEF Ops

-----------------------------------------------------------------------------
(* Types and consistency, however the transactions overlap.                *)

\* What p has loaded, or sees when it loads, is good.
LEMMA SeenGood ==
  ASSUME ConsistentInv, NEW p \in Proc
  PROVE  Good(row) /\ Good(timer[p]) /\ Good(Seen(p))
  BY DEF ConsistentInv, TypeOK, Good, Seen

\* A step that only ends transactions, or puts good objects in their place,
\* keeps every object good.
LEMMA EndGood ==
  ASSUME ConsistentInv, NEW p \in Proc, End(p)
  PROVE  /\ timer' \in [Proc -> Timer]
         /\ \A q \in Proc : Consistent(timer'[q])
         /\ lock' \in {NoVal, Rot}
         /\ pc' = [pc EXCEPT ![p] = "idle"]
  BY FirstRowGood DEF ConsistentInv, TypeOK, Good, End

\* A load gives the loader a consistent object (game_timer.py:46-67).
LEMMA LoadGood ==
  ASSUME ConsistentInv, NEW p \in Proc, NEW t, Good(t),
         timer' = [timer EXCEPT ![p] = t]
  PROVE  timer' \in [Proc -> Timer] /\ \A q \in Proc : Consistent(timer'[q])
  BY DEF ConsistentInv, TypeOK, Good

\* Nobody has loaded anything yet, and the row is missing or the first one.
LEMMA ConsistentInvInit == Init => ConsistentInv
<1> SUFFICES ASSUME Init PROVE ConsistentInv
  OBVIOUS
<1>1. NoRequest \in [op : Ops, body : Body]
  BY DEF NoRequest, Ops, Body
<1>2. TypeOK
  BY <1>1, FirstRowGood, ProcAssumption DEF Init, TypeOK, Good, Proc
<1> QED
  BY <1>2, FirstRowGood DEF Init, ConsistentInv, Good

\* Every step keeps the row, all loaded objects and the uncommitted write
\* consistent, whatever the transactions' order (game_timer.py:46-163).
LEMMA ConsistentInvNext == ConsistentInv /\ [Next]_vars => ConsistentInv'
<1> SUFFICES ASSUME ConsistentInv, [Next]_vars PROVE ConsistentInv'
  OBVIOUS
<1> USE DEF Proc
<1>T. TypeOK
  BY DEF ConsistentInv
<1>R. Rot \in Proc
  OBVIOUS
<1>1. ASSUME NEW a \in Api, NEW op \in Ops, NEW body \in Schedules \cup {NoSchedule},
             ApiLoad(a, op, body)
      PROVE  ConsistentInv'
  <2>1. timer' \in [Proc -> Timer] /\ \A q \in Proc : Consistent(timer'[q])
    BY <1>1, SeenGood, LoadGood DEF ApiLoad
  <2>2. req' \in [Api -> [op : Ops, body : Body]]
    BY <1>1, <1>T DEF ApiLoad, TypeOK, Body
  <2> QED
    BY <1>1, <1>T, <2>1, <2>2, ProcAssumption DEF ApiLoad, TypeOK, ConsistentInv
<1>2. ASSUME NEW a \in Api, ApiUpdate(a)
      PROVE  ConsistentInv'
  <2>1. Good(row')
    BY <1>2, <1>T, SeenGood, ResultGood DEF ApiUpdate, TypeOK
  <2>2. req' \in [Api -> [op : Ops, body : Body]]
    BY <1>2, <1>T DEF ApiUpdate, TypeOK, Body, NoRequest, Ops
  <2>3. /\ timer' \in [Proc -> Timer] /\ \A q \in Proc : Consistent(timer'[q])
        /\ lock' \in {NoVal, Rot} /\ pc' = [pc EXCEPT ![a] = "idle"]
    BY <1>2, EndGood DEF ApiUpdate
  <2> QED
    BY <1>2, <1>T, <2>1, <2>2, <2>3, ProcAssumption
    DEF ApiUpdate, TypeOK, ConsistentInv, Good
<1>3. ASSUME NEW a \in Api, ApiRollback(a)
      PROVE  ConsistentInv'
  <2>2. req' \in [Api -> [op : Ops, body : Body]]
    BY <1>3, <1>T DEF ApiRollback, TypeOK, Body, NoRequest, Ops
  <2>3. /\ timer' \in [Proc -> Timer] /\ \A q \in Proc : Consistent(timer'[q])
        /\ lock' \in {NoVal, Rot} /\ pc' = [pc EXCEPT ![a] = "idle"]
    BY <1>3, EndGood DEF ApiRollback
  <2> QED
    BY <1>3, <1>T, <2>2, <2>3, ProcAssumption
    DEF ApiRollback, TypeOK, ConsistentInv, Good
<1>4. CASE RotLoad
  <2>1. timer' \in [Proc -> Timer] /\ \A q \in Proc : Consistent(timer'[q])
    BY <1>4, <1>R, SeenGood, LoadGood DEF RotLoad
  <2> QED
    BY <1>4, <1>T, <2>1, ProcAssumption DEF RotLoad, TypeOK, ConsistentInv
<1>5. CASE RotSync
  <2>1. Good(timer[Rot]) /\ Good(row) /\ now \in Nat
    BY <1>R, <1>T, SeenGood DEF TypeOK
  <2>2. timer' \in [Proc -> Timer] /\ \A q \in Proc : Consistent(timer'[q])
    <3>1. CASE ShouldRun(timer[Rot], now)
      <4>1. Good(Synced(timer[Rot], now))
        BY <2>1, <3>1, SyncedGood
      <4> QED BY <1>5, <1>R, <3>1, <4>1, LoadGood DEF RotSync
    <3>2. CASE ~ShouldRun(timer[Rot], now)
      BY <1>5, <1>R, <2>1, <3>2, LoadGood DEF RotSync
    <3> QED BY <3>1, <3>2
  <2> QED
    BY <1>5, <1>T, <2>2, ProcAssumption DEF RotSync, TypeOK, ConsistentInv
<1>6. CASE RotCommit
  <2>1. Good(row')
    BY <1>6, <1>R, SeenGood DEF RotCommit
  <2>2. /\ timer' \in [Proc -> Timer] /\ \A q \in Proc : Consistent(timer'[q])
        /\ lock' \in {NoVal, Rot} /\ pc' = [pc EXCEPT ![Rot] = "idle"]
    BY <1>6, <1>R, EndGood DEF RotCommit
  <2> QED
    BY <1>6, <1>T, <2>1, <2>2, ProcAssumption
    DEF RotCommit, TypeOK, ConsistentInv, Good
<1>7. CASE RotBoundary
  BY <1>7, <1>T, ProcAssumption DEF RotBoundary, TypeOK, ConsistentInv
<1>8. CASE RotReload
  <2>1. timer' \in [Proc -> Timer] /\ \A q \in Proc : Consistent(timer'[q])
    BY <1>8, <1>R, SeenGood, LoadGood DEF RotReload
  <2> QED
    BY <1>8, <1>T, <2>1, ProcAssumption DEF RotReload, TypeOK, ConsistentInv
<1>9. CASE RotFinish
  <2>1. Good(row')
    BY <1>9, <1>R, <1>T, SeenGood, FinishedGood DEF RotFinish, TypeOK
  <2>2. /\ timer' \in [Proc -> Timer] /\ \A q \in Proc : Consistent(timer'[q])
        /\ lock' \in {NoVal, Rot} /\ pc' = [pc EXCEPT ![Rot] = "idle"]
    BY <1>9, <1>R, EndGood DEF RotFinish
  <2> QED
    BY <1>9, <1>T, <2>1, <2>2, ProcAssumption
    DEF RotFinish, TypeOK, ConsistentInv, Good
<1>10. CASE RotCrash
  <2>1. /\ timer' \in [Proc -> Timer] /\ \A q \in Proc : Consistent(timer'[q])
        /\ lock' \in {NoVal, Rot} /\ pc' = [pc EXCEPT ![Rot] = "idle"]
    BY <1>10, <1>R, EndGood DEF RotCrash
  <2> QED
    BY <1>10, <1>T, <2>1, ProcAssumption DEF RotCrash, TypeOK, ConsistentInv
<1>11. CASE Elapse
  BY <1>11, <1>T DEF Elapse, TypeOK, ConsistentInv
<1>12. CASE UNCHANGED vars
  BY <1>12, <1>T DEF vars, TypeOK, ConsistentInv
<1> QED
  BY <1>1, <1>2, <1>3, <1>4, <1>5, <1>6, <1>7, <1>8, <1>9, <1>10, <1>11, <1>12
  DEF Next, ApiStep, RotStep

\* The columns of the row, the objects of all handlers and of the rotator,
\* and the requests keep their types (game_timer.py:46-94).
THEOREM TypeCorrect == Spec => []TypeOK
<1>1. ConsistentInv => TypeOK
  BY DEF ConsistentInv
<1> QED
  BY <1>1, ConsistentInvInit, ConsistentInvNext, PTL DEF Spec

\* However many handlers overlap with each other and with the rotator, a lost
\* update never leaves a row that no single transaction could have written:
\* full-row writes of consistent objects (game_timer.py:69-94).
THEOREM RowStaysConsistent == Spec => []RowConsistent
<1>1. ConsistentInv => RowConsistent
  BY DEF ConsistentInv, RowConsistent
<1> QED
  BY <1>1, ConsistentInvInit, ConsistentInvNext, PTL DEF Spec

-----------------------------------------------------------------------------
(* What all open transactions have seen.                                   *)

\* A set of rows stays settled if no method leads out of it: loads copy what
\* is in it, and whatever is written back was computed from such a copy
\* (game_timer.py:46-94).
LEMMA SettledStays ==
  ASSUME ConsistentInv, [Next]_vars, NEW S, Settled(S),
         \A a \in Api : ApiUpdate(a) => row' \in S,
         timer[Rot] \in S /\ ShouldRun(timer[Rot], now) => Synced(timer[Rot], now) \in S,
         RotFinish => row' \in S
  PROVE  Settled(S)'
<1> USE ProcAssumption DEF Proc
<1>T. TypeOK /\ timer \in [Proc -> Timer] /\ Rot \in Proc
  BY DEF ConsistentInv, TypeOK
<1>S. row \in S /\ (\A p \in Proc : InFlight(p) => timer[p] \in S) /\ Seen(Rot) \in S
  BY DEF Settled, Seen, InFlight
<1>1. ASSUME NEW a \in Api, NEW op \in Ops, NEW body \in Schedules \cup {NoSchedule},
             ApiLoad(a, op, body)
      PROVE  Settled(S)'
  <2>1. /\ row' = row /\ lock' = lock /\ timer'[a] = row
        /\ \A p \in Proc \ {a} : pc'[p] = pc[p] /\ timer'[p] = timer[p]
    BY <1>1, <1>T DEF ApiLoad, TypeOK
  <2> QED BY <1>S, <2>1 DEF Settled, InFlight, InWindow
<1>2. ASSUME NEW p \in Proc, End(p), row' \in S
      PROVE  Settled(S)'
  <2>1. /\ pc'[p] = "idle" /\ lock' # p /\ lock' \in {lock, NoVal}
        /\ \A q \in Proc \ {p} : pc'[q] = pc[q] /\ timer'[q] = timer[q]
    BY <1>2, <1>T DEF End, TypeOK
  <2> QED BY <1>2, <1>S, <2>1 DEF Settled, InFlight, InWindow
<1>3. ASSUME NEW a \in Api, ApiUpdate(a) \/ ApiRollback(a)
      PROVE  Settled(S)'
  BY <1>3, <1>2, <1>S DEF ApiUpdate, ApiRollback
<1>4. CASE RotLoad \/ RotReload
  <2>1. /\ row' = row /\ lock' = lock /\ timer'[Rot] \in {row, Seen(Rot)}
        /\ \A p \in Proc \ {Rot} : pc'[p] = pc[p] /\ timer'[p] = timer[p]
    BY <1>4, <1>T DEF RotLoad, RotReload, TypeOK
  <2> QED BY <1>S, <2>1 DEF Settled, InFlight, InWindow
<1>5. CASE RotSync
  <2>1. /\ row' = row /\ lock' \in {lock, Rot}
        /\ \A p \in Proc \ {Rot} : pc'[p] = pc[p] /\ timer'[p] = timer[p]
        /\ timer'[Rot] \in IF ShouldRun(timer[Rot], now) THEN {Synced(timer[Rot], now)} ELSE {row}
    BY <1>5, <1>T DEF RotSync, TypeOK
  <2>2. timer[Rot] \in S
    BY <1>5, <1>S, <1>T DEF RotSync, InFlight, InWindow
  <2> QED BY <1>S, <2>1, <2>2 DEF Settled, InFlight, InWindow
<1>6. CASE RotCommit \/ RotFinish \/ RotCrash
  BY <1>6, <1>2, <1>S DEF RotCommit, RotFinish, RotCrash
<1>7. CASE RotBoundary
  <2>1. /\ row' = row /\ lock' = lock /\ timer' = timer /\ pc'[Rot] = "boundary"
        /\ \A p \in Proc \ {Rot} : pc'[p] = pc[p]
    BY <1>7, <1>T DEF RotBoundary, TypeOK
  <2> QED BY <1>S, <2>1 DEF Settled, InFlight, InWindow
<1>8. CASE UNCHANGED <<row, lock, pc, timer>>
  BY <1>8 DEF Settled, InFlight, InWindow
<1> QED
  BY <1>1, <1>3, <1>4, <1>5, <1>6, <1>7, <1>8 DEF Next, ApiStep, RotStep, Elapse, vars

\* What a request writes is the row, or computed from its own object, which is
\* in S if S is settled.
LEMMA UpdateFrom ==
  ASSUME ConsistentInv, NEW S, Settled(S), NEW a \in Api, ApiUpdate(a)
  PROVE  /\ Commits(a) /\ timer[a] \in S /\ Good(timer[a]) /\ now \in Nat
         /\ req[a] \in [op : Ops, body : Body]
         /\ \/ row' = row /\ row \in S
            \/ Updates(req[a], timer[a], now) /\ row' = Result(req[a], timer[a], now)
<1> USE DEF Proc
<1>1. TypeOK /\ pc[a] = "loaded" /\ pc'[a] = "idle"
  BY DEF ConsistentInv, TypeOK, ApiUpdate, End
<1>2. timer[a] \in S /\ row \in S
  BY <1>1 DEF Settled, InFlight, InWindow
<1>3. Good(timer[a]) /\ now \in Nat /\ req[a] \in [op : Ops, body : Body]
  BY <1>1, SeenGood DEF TypeOK
<1> QED BY <1>1, <1>2, <1>3 DEF Commits, ApiUpdate

\* And so is what finish_boundary writes (game_timer.py:141-163).
LEMMA FinishFrom ==
  ASSUME ConsistentInv, NEW S, Settled(S), RotFinish
  PROVE  /\ timer[Rot] \in S /\ Good(timer[Rot]) /\ now \in Nat
         /\ pc[Rot] = "finishing" /\ row' = Finished(timer[Rot], now)
<1> USE DEF Proc
<1>1. TypeOK /\ pc[Rot] = "finishing"
  BY DEF ConsistentInv, RotFinish
<1>2. timer[Rot] \in S
  BY <1>1 DEF Settled, InFlight, InWindow
<1> QED BY <1>1, <1>2, SeenGood DEF TypeOK, RotFinish

\* A stop that is settled ends by a start or a pause only.
StopStep ==
  Settled(Stopped) =>
    Settled(Stopped)' \/ \E a \in Api : Commits(a) /\ req[a].op \in {"start", "pause"}

LEMMA StopStepped == ConsistentInv /\ [Next]_vars => StopStep
<1> SUFFICES ASSUME ConsistentInv, [Next]_vars, Settled(Stopped),
                    \A a \in Api : Commits(a) => req[a].op \notin {"start", "pause"}
             PROVE  Settled(Stopped)'
  BY DEF StopStep
<1>1. ASSUME NEW a \in Api, ApiUpdate(a) PROVE row' \in Stopped
  <2>1. /\ Commits(a) /\ timer[a] \in Stopped /\ Good(timer[a]) /\ now \in Nat
        /\ req[a] \in [op : Ops, body : Body]
        /\ \/ row' = row /\ row \in Stopped
           \/ Updates(req[a], timer[a], now) /\ row' = Result(req[a], timer[a], now)
    BY <1>1, UpdateFrom
  <2>2. timer[a].desired = "STOPPED" /\ req[a].op \notin {"start", "pause"}
    BY <2>1 DEF Stopped
  <2> QED BY <2>1, <2>2, ResultGood, ResultKeeps DEF Good, Stopped
<1>2. timer[Rot] \in Stopped => ~ShouldRun(timer[Rot], now)
  BY DEF Stopped, ShouldRun
<1>3. ASSUME RotFinish PROVE row' \in Stopped
  <2>1. timer[Rot] \in Stopped /\ Good(timer[Rot]) /\ now \in Nat /\ row' = Finished(timer[Rot], now)
    BY <1>3, FinishFrom
  <2> QED BY <2>1, FinishedGood, FinishedKeeps DEF Good, Stopped
<1> QED BY <1>1, <1>2, <1>3, SettledStays

\* A setting that is settled is changed by a schedule request that sets it.
ScheduleStep ==
  \A f \in {"startAt", "stopAfter", "freeze"} : \A v \in {row[f]} \ {NoVal} :
    Settled(With(f, v)) =>
      \/ Settled(With(f, v))'
      \/ \E a \in Api : Commits(a) /\ req[a].op = "schedule" /\ req[a].body[f] # NoVal

LEMMA ScheduleStepped == ConsistentInv /\ [Next]_vars => ScheduleStep
<1> SUFFICES ASSUME ConsistentInv, [Next]_vars,
                    NEW f \in {"startAt", "stopAfter", "freeze"}, NEW v, Settled(With(f, v)),
                    \A a \in Api : Commits(a) => req[a].op # "schedule" \/ req[a].body[f] = NoVal
             PROVE  Settled(With(f, v))'
  BY DEF ScheduleStep
<1>1. ASSUME NEW a \in Api, ApiUpdate(a) PROVE row' \in With(f, v)
  <2>1. /\ Commits(a) /\ timer[a] \in With(f, v) /\ Good(timer[a]) /\ now \in Nat
        /\ req[a] \in [op : Ops, body : Body]
        /\ \/ row' = row /\ row \in With(f, v)
           \/ Updates(req[a], timer[a], now) /\ row' = Result(req[a], timer[a], now)
    BY <1>1, UpdateFrom
  <2>2. CASE Updates(req[a], timer[a], now) /\ row' = Result(req[a], timer[a], now)
    <3>1. Good(row')
      BY <2>1, <2>2, ResultGood
    <3>2. row'[f] = timer[a][f]
      BY <2>1, <2>2, ResultKeeps
    <3> QED BY <2>1, <3>1, <3>2 DEF Good, With
  <2> QED BY <2>1, <2>2
<1>2. \A t, u : Good(u) /\ t \in With(f, v) /\ SameSettings(u, t) => u \in With(f, v)
  BY DEF Good, With, SameSettings
<1>3. timer[Rot] \in With(f, v) /\ ShouldRun(timer[Rot], now) => Synced(timer[Rot], now) \in With(f, v)
  <2>1. Good(timer[Rot]) /\ now \in Nat
    BY SeenGood DEF ConsistentInv, TypeOK, Proc
  <2> QED BY <1>2, <2>1, SyncedGood, SyncedKeeps
<1>4. ASSUME RotFinish PROVE row' \in With(f, v)
  <2>1. timer[Rot] \in With(f, v) /\ Good(timer[Rot]) /\ now \in Nat /\ row' = Finished(timer[Rot], now)
    BY <1>4, FinishFrom
  <2> QED BY <1>2, <2>1, FinishedGood, FinishedKeeps
<1> QED BY <1>1, <1>3, <1>4, SettledStays

\* No tick is opened behind a last tick that is settled.
LastTickStep ==
  \A k \in {row.stopAfter} \ {NoVal, 0} :
    Settled(LastTickIs(k)) =>
      \/ Settled(LastTickIs(k))'
      \/ \E a \in Api : Commits(a) /\ req[a].op = "schedule" /\ req[a].body.stopAfter # NoVal

LEMMA LastTickStepped == ConsistentInv /\ [Next]_vars => LastTickStep
<1> SUFFICES ASSUME ConsistentInv, [Next]_vars, NEW k \in {row.stopAfter} \ {NoVal, 0},
                    Settled(LastTickIs(k)),
                    \A a \in Api : Commits(a) => req[a].op # "schedule" \/ req[a].body.stopAfter = NoVal
             PROVE  Settled(LastTickIs(k))'
  BY DEF LastTickStep
<1>0. k \in Nat \ {0}
  BY DEF ConsistentInv, TypeOK, Timer, OptNat
<1>1. ASSUME NEW a \in Api, ApiUpdate(a) PROVE row' \in LastTickIs(k)
  <2>1. /\ Commits(a) /\ timer[a] \in LastTickIs(k) /\ Good(timer[a]) /\ now \in Nat
        /\ req[a] \in [op : Ops, body : Body]
        /\ \/ row' = row /\ row \in LastTickIs(k)
           \/ Updates(req[a], timer[a], now) /\ row' = Result(req[a], timer[a], now)
    BY <1>1, UpdateFrom
  <2>2. CASE Updates(req[a], timer[a], now) /\ row' = Result(req[a], timer[a], now)
    <3>1. /\ Good(row')
          /\ row'.tick = timer[a].tick \/ row'.tick = 1 \/ row'.tick = 0
      BY <2>1, <2>2, ResultGood
    <3>2. row'.stopAfter = timer[a].stopAfter
      <4>1. req[a].op # "schedule" \/ req[a].body["stopAfter"] = NoVal
        BY <2>1
      <4>2. row'["stopAfter"] = timer[a]["stopAfter"]
        BY <2>1, <2>2, <4>1, ResultKeeps
      <4> QED BY <4>2
    <3> QED BY <1>0, <2>1, <3>1, <3>2 DEF Good, LastTickIs, Timer
  <2> QED BY <2>1, <2>2
<1>2. timer[Rot] \in LastTickIs(k) /\ ShouldRun(timer[Rot], now) =>
        Synced(timer[Rot], now) \in LastTickIs(k)
  <2>1. Good(timer[Rot]) /\ now \in Nat
    BY SeenGood DEF ConsistentInv, TypeOK, Proc
  <2> QED BY <1>0, <2>1, SyncedGood, SyncedKeeps DEF Good, LastTickIs, Timer, SameSettings
<1>3. ASSUME RotFinish PROVE row' \in LastTickIs(k)
  <2>1. timer[Rot] \in LastTickIs(k) /\ Good(timer[Rot]) /\ now \in Nat /\ row' = Finished(timer[Rot], now)
    BY <1>3, FinishFrom
  <2>2. /\ Good(row') /\ SameSettings(row', timer[Rot])
        /\ row'.tick > timer[Rot].tick /\ timer[Rot].stopAfter # NoVal => row'.tick <= timer[Rot].stopAfter
    BY <2>1, FinishedGood, FinishedKeeps
  <2> QED BY <1>0, <2>1, <2>2, TimeAssumption DEF Good, LastTickIs, Timer, SameSettings
<1> QED BY <1>1, <1>2, <1>3, SettledStays

\* A tick that is settled is left for the next one or for none.
TickStep ==
  \A k \in {row.tick} \ {0} :
    /\ Settled(From(k)) => Settled(From(k))' \/ (row'.tick = 0 /\ row'.desired = "STOPPED")
    /\ Settled(To(k)) => Settled(To(k))' \/ (pc[Rot] = "finishing" /\ row'.tick = k + 1)

LEMMA TickStepped == ConsistentInv /\ [Next]_vars => TickStep
<1> SUFFICES ASSUME ConsistentInv, [Next]_vars, NEW k \in {row.tick} \ {0}
             PROVE  /\ Settled(From(k)) =>
                         Settled(From(k))' \/ (row'.tick = 0 /\ row'.desired = "STOPPED")
                    /\ Settled(To(k)) => Settled(To(k))' \/ (pc[Rot] = "finishing" /\ row'.tick = k + 1)
  BY DEF TickStep
<1>0. k \in Nat \ {0}
  BY DEF ConsistentInv, TypeOK, Timer
<1>1. Good(timer[Rot]) /\ now \in Nat
  BY SeenGood DEF ConsistentInv, TypeOK, Proc
<1>2. ASSUME NEW S, Settled(S), NEW a \in Api, ApiUpdate(a)
      PROVE  /\ timer[a] \in S /\ timer[a].tick \in Nat
             /\ \/ row' = row /\ row \in S
                \/ row' \in Timer /\ row'.tick \in {timer[a].tick, 1} /\ (row'.tick # timer[a].tick => timer[a].tick = 0)
                \/ row' \in Timer /\ row'.tick = 0 /\ row'.desired = "STOPPED"
  <2>1. /\ timer[a] \in S /\ Good(timer[a]) /\ now \in Nat
        /\ req[a] \in [op : Ops, body : Body]
        /\ \/ row' = row /\ row \in S
           \/ Updates(req[a], timer[a], now) /\ row' = Result(req[a], timer[a], now)
    BY <1>2, UpdateFrom
  <2> QED BY <2>1, ResultGood DEF Good, Timer
<1>3. ASSUME ShouldRun(timer[Rot], now)
      PROVE  /\ Synced(timer[Rot], now) \in Timer /\ timer[Rot].tick \in Nat
             /\ Synced(timer[Rot], now).tick = IF timer[Rot].tick < 1 THEN 1 ELSE timer[Rot].tick
  BY <1>1, <1>3, SyncedGood DEF Good, Timer
<1>4. ASSUME NEW S, Settled(S), RotFinish
      PROVE  /\ timer[Rot] \in S /\ timer[Rot].tick \in Nat /\ row' \in Timer /\ pc[Rot] = "finishing"
             /\ \/ row'.tick \in {timer[Rot].tick, timer[Rot].tick + 1}
                \/ row'.tick = 0 /\ row'.desired = "STOPPED"
  BY <1>4, FinishFrom, FinishedGood DEF Good, Timer
<1>5. ASSUME Settled(From(k)), ~(row'.tick = 0 /\ row'.desired = "STOPPED")
      PROVE  Settled(From(k))'
  <2>1. \A a \in Api : ApiUpdate(a) => row' \in From(k)
    BY <1>0, <1>2, <1>5 DEF From
  <2>2. timer[Rot] \in From(k) /\ ShouldRun(timer[Rot], now) => Synced(timer[Rot], now) \in From(k)
    BY <1>0, <1>3 DEF From
  <2>3. RotFinish => row' \in From(k)
    BY <1>0, <1>4, <1>5 DEF From
  <2> QED BY <1>5, <2>1, <2>2, <2>3, SettledStays
<1>6. ASSUME Settled(To(k)), ~(pc[Rot] = "finishing" /\ row'.tick = k + 1)
      PROVE  Settled(To(k))'
  <2>1. \A a \in Api : ApiUpdate(a) => row' \in To(k)
    BY <1>0, <1>2, <1>6 DEF To
  <2>2. timer[Rot] \in To(k) /\ ShouldRun(timer[Rot], now) => Synced(timer[Rot], now) \in To(k)
    BY <1>0, <1>3 DEF To
  <2>3. RotFinish => row' \in To(k)
    BY <1>0, <1>4, <1>6 DEF To
  <2> QED BY <1>6, <2>1, <2>2, <2>3, SettledStays
<1> QED BY <1>5, <1>6

\* All four hold of every step.
LEMMA SettledSteps ==
  Spec => [][StopStep]_vars /\ [][ScheduleStep]_vars /\ [][LastTickStep]_vars /\ [][TickStep]_vars
  BY ConsistentInvInit, ConsistentInvNext, StopStepped, ScheduleStepped, LastTickStepped,
     TickStepped, PTL DEF Spec

\* Whatever overlaps, a stop that every open transaction has seen is ended by
\* nothing but a start or pause request (game_timer.py:141-180,
\* game_api.py:23-33).
THEOREM StopsSettle == Spec => StopSettles
  BY SettledSteps DEF StopSettles, StopStep

\* Nor is a setting they have all seen changed by anything but a schedule
\* request that sets it (game_timer.py:192-207).
THEOREM SchedulesSettle == Spec => ScheduleSettles
  BY SettledSteps DEF ScheduleSettles, ScheduleStep

\* Nor is a tick opened behind a last tick they have all seen
\* (game_timer.py:155-161).
THEOREM LastTicksSettle == Spec => LastTickSettles
  BY SettledSteps DEF LastTickSettles, LastTickStep

\* Nor is a tick they have all seen left but by a stop, or by the rotator for
\* the next one (game_timer.py:111-124, 141-180).
THEOREM TicksSettle == Spec => TickSettles
  BY SettledSteps DEF TickSettles, TickStep

-----------------------------------------------------------------------------
(* The rotator, with the tables it writes.                                 *)

\* The submissions of S in the windows of the ticks up to k.
UpTo(S, rs, k) ==
  {s \in S : \E l \in 1..k : l \in Rounds(rs) /\ rs[l].start <= s /\ s < rs[l].end}

\* Rounds are made one after the other, each in a window of its own that has begun.
RoundsOK(rs, n) ==
  /\ rs \in [Ticks -> Round \cup {NoVal}]
  /\ \A r \in Rounds(rs) :
       /\ rs[r].tick = r
       /\ rs[r].end = rs[r].start + Rotation /\ rs[r].start <= n
       /\ \A q \in 1..r - 1 : q \in Rounds(rs) /\ rs[q].end <= rs[r].start

PointsTypes(ps, S) ==
  ps \in [Ticks -> Nat \cup {NoVal}] /\ S \subseteq Nat /\ IsFiniteSet(S)

\* The scored ticks are the first ones, and what is scored is what the windows of
\* S hold, of L perhaps not everything.
PointsOK(ps, rs, S, L) ==
  /\ PointsTypes(ps, S)
  /\ \A k \in Ticks : ps[k] # NoVal =>
       /\ k + 1 \in Rounds(rs)
       /\ Cardinality(UpTo(S \ L, rs, k)) <= ps[k] /\ ps[k] <= Cardinality(UpTo(S, rs, k))
  /\ \E m \in 0..MaxTick : {k \in Ticks : ps[k] # NoVal} = 1..m

\* The ticks that have had their chance: scored or skipped.
Had == skipped \cup {k \in Ticks : points[k] # NoVal}

\* All ticks whose successor has its round have, but perhaps the last.
HadOK(H, rs) == \A r \in Rounds(rs) : \A k \in 1..r - 2 : k \in H

\* The tables are ready for the tick of t, or have it already.
Fits(t, rs, H, n) ==
  /\ t.tick <= MaxTick
  /\ t.tick >= 2 => t.tick - 1 \in Rounds(rs)
  /\ t.tick >= 3 /\ t.tick \notin Rounds(rs) => t.tick - 2 \in H
  /\ t.end # NoVal =>
       /\ t.start <= n
       /\ t.tick \in Rounds(rs) => rs[t.tick].start <= t.start
       /\ t.tick >= 2 /\ t.tick \notin Rounds(rs) => rs[t.tick - 1].end <= t.start

\* Tick k is over, and the one before it has had its chance.
Closed(k, rs, H, n) ==
  k >= 1 => /\ k \in Rounds(rs) /\ rs[k].end <= n
            /\ k >= 2 => k - 1 \in H

\* The totals are exact until a tick is skipped.
TablesInv ==
  /\ RoundsOK(rounds, now)
  /\ jobs \subseteq Rounds(rounds)
  /\ PointsTypes(points, subs)
  /\ HadOK(Had, rounds)
  /\ skipped = {} => PointsOK(points, rounds, subs, late)
  /\ pending \subseteq Nat

TimersInv == Fits(row, rounds, Had, now) /\ Fits(timer[Rot], rounds, Had, now)

\* What the rotator works on is not behind the row, except that tick 1 may be
\* opened again, and then no earlier.
AheadInv ==
  /\ pc[Rot] # "idle" => row.tick <= timer[Rot].tick \/ row.tick = 1
  /\ row.tick = timer[Rot].tick /\ row.end # NoVal /\ timer[Rot].end # NoVal =>
       timer[Rot].start <= row.start

\* How far a boundary run is, and that the tick it leaves is closed.
StageInv ==
  /\ stage \in {"none", "scored", "ran", "done"}
  /\ pc[Rot] = "boundary" => BoundaryReady(timer[Rot], now)
  /\ stage = "scored" => pc[Rot] \in {"synced", "boundary"} /\ timer[Rot].tick \in Rounds(rounds)
  /\ stage = "ran" => pc[Rot] = "synced"
  /\ stage = "done" => pc[Rot] \in {"boundary", "finishing"}
  /\ pc[Rot] = "finishing" => stage = "done"
  /\ (pc[Rot] = "boundary" /\ stage # "none") \/ pc[Rot] = "finishing" =>
       Closed(timer[Rot].tick, rounds, Had, now)

RInv == TablesInv /\ TimersInv /\ AheadInv /\ StageInv

-----------------------------------------------------------------------------
(* What the methods do to the tick and its times.                          *)

\* A method leaves the tick and its times or takes the times away ...
Keeps(t, u) ==
  \/ u.tick = t.tick /\ u.start = t.start /\ u.end = t.end
  \/ u.tick \in {0, t.tick} /\ u.end = NoVal

\* ... or it opens tick k.
Opens(u, n, k) == u.tick = k /\ u.start = n /\ u.end = n + Rotation

\* sync_scheduled_start opens tick 1 or nothing (game_timer.py:111-124).
LEMMA SyncedMoves ==
  ASSUME NEW t, Good(t), NEW n \in Nat
  PROVE  IF t.tick = 0 THEN Opens(Synced(t, n), n, 1)
         ELSE /\ Synced(t, n).tick = t.tick
              /\ Synced(t, n).start = t.start /\ Synced(t, n).end = t.end
  BY DEF Good, Synced, OpenTick, Timer, Opens

\* So do the handlers (game_api.py:23-92).
LEMMA ResultMoves ==
  ASSUME NEW t, Good(t), NEW n \in Nat, NEW r \in [op : Ops, body : Body]
  PROVE  \/ Keeps(t, Result(r, t, n))
         \/ t.tick = 0 /\ Opens(Result(r, t, n), n, 1)
<1>1. \A d \in CTFState : Keeps(t, Desired(t, d))
  BY DEF Good, Desired, Timer, CTFState, Keeps
<1>3. CASE r.op = "start"
  <2> DEFINE d == Desired(t, "RUNNING")
  <2>0. Good(d) /\ d.tick = t.tick
    BY DesiredGood DEF CTFState
  <2>1. d.start = t.start /\ d.end = t.end
    BY DEF Good, Desired, Timer
  <2>2. Result(r, t, n) = IF ShouldRun(d, n) THEN Synced(d, n) ELSE d
    BY <1>3 DEF Result
  <2> HIDE DEF d
  <2> QED BY <2>0, <2>1, <2>2, SyncedMoves DEF Keeps
<1>4. CASE r.op = "pause"
  BY <1>1, <1>4 DEF Result, CTFState
<1>5. CASE r.op = "stop"
  BY <1>1, <1>5 DEF Result, CTFState
<1>6. CASE r.op = "schedule"
  <2>1. Result(r, t, n) = Scheduled(t, r.body)
    BY <1>6 DEF Result
  <2>2. Keeps(t, Scheduled(t, r.body))
    BY DEF Keeps, Scheduled, Good, Timer
  <2> QED BY <2>1, <2>2
<1>7. CASE r.op = "status"
  BY <1>7, SyncedMoves DEF Result, Keeps
<1> QED BY <1>3, <1>4, <1>5, <1>6, <1>7 DEF Ops

\* finish_boundary opens the next tick or takes the times away
\* (game_timer.py:141-163).
LEMMA FinishedMoves ==
  ASSUME NEW t, Good(t), NEW n \in Nat
  PROVE  \/ Keeps(t, Finished(t, n)) /\ Finished(t, n).end = NoVal
         \/ Opens(Finished(t, n), n, t.tick + 1)
  BY DEF Good, Finished, OpenTick, Timer, Keeps, Opens

-----------------------------------------------------------------------------
(* What the invariant of the tables says about timers.                     *)

\* A timer that has kept its tick, or lost it or its times, still fits.
LEMMA KeepsFits ==
  ASSUME NEW t, Good(t), NEW u, Good(u), Keeps(t, u),
         NEW rs, NEW H, NEW n \in Nat, Fits(t, rs, H, n)
  PROVE  Fits(u, rs, H, n)
<1>1. t.tick \in Nat /\ u.tick \in Nat /\ MaxTick \in Nat
  BY TimeAssumption DEF Good, Timer
<1> QED BY <1>1 DEF Keeps, Fits

\* Tick 1 may be opened at any time: if it has a round, that has begun.
LEMMA FirstFits ==
  ASSUME NEW u, NEW rs, NEW H, NEW n \in Nat, RoundsOK(rs, n), Opens(u, n, 1)
  PROVE  Fits(u, rs, H, n)
<1>1. 1 \in Rounds(rs) => rs[1].start <= n
  BY DEF RoundsOK
<1> QED BY <1>1, TimeAssumption, RotatorAssumption DEF Opens, Fits

\* A later tick may be opened when the one before it is closed.
LEMMA NextFits ==
  ASSUME NEW u, NEW rs, NEW H, NEW n \in Nat, NEW k \in Nat, RoundsOK(rs, n),
         Closed(k, rs, H, n), Opens(u, n, k + 1), k + 1 <= MaxTick
  PROVE  Fits(u, rs, H, n)
<1>1. \A r \in Rounds(rs) : rs[r].start <= n
  BY DEF RoundsOK
<1>2. k + 1 - 1 = k /\ k + 1 - 2 = k - 1
  OBVIOUS
<1> QED BY <1>1, <1>2 DEF Opens, Fits, Closed

\* The object of an idle rotator fits anything.
LEMMA FirstRowFits ==
  ASSUME NEW rs, NEW H, NEW n
  PROVE  Fits(FirstRow, rs, H, n)
  BY TimeAssumption DEF FirstRow, Fits

\* With time passing, nothing that fitted stops fitting.
LEMMA LaterFits ==
  ASSUME NEW t, Good(t), NEW rs, NEW H, NEW n \in Nat, Fits(t, rs, H, n)
  PROVE  Fits(t, rs, H, n + 1)
<1>1. t.end # NoVal => t.start \in Nat
  BY DEF Good, Consistent, Timer, OptNat
<1> QED BY <1>1 DEF Fits

\* What a round is made of, and that ids count from 1.
LEMMA RoundTypes ==
  ASSUME NEW rs, NEW n \in Nat, RoundsOK(rs, n), NEW r \in Rounds(rs)
  PROVE  /\ r \in Nat \ {0} /\ r <= MaxTick
         /\ rs[r] \in Round /\ rs[r].tick = r
         /\ rs[r].start \in Nat /\ rs[r].end \in Nat
         /\ rs[r].end = rs[r].start + Rotation
  BY TimeAssumption DEF RoundsOK, Rounds, Round, Ticks

\* So rounds and the boundaries in them stay right as time passes.
LEMMA LaterRounds ==
  ASSUME NEW rs, NEW n \in Nat, RoundsOK(rs, n)
  PROVE  RoundsOK(rs, n + 1)
<1>1. \A r \in Rounds(rs) : rs[r].start \in Nat
  BY RoundTypes
<1> QED BY <1>1 DEF RoundsOK

\* When a tick is closed, those before it are.
LEMMA EarlierClosed ==
  ASSUME NEW rs, NEW H, NEW n \in Nat, RoundsOK(rs, n), HadOK(H, rs),
         NEW k \in Nat, Closed(k, rs, H, n), NEW j \in Nat, j <= k
  PROVE  Closed(j, rs, H, n)
<1>1. CASE j = k \/ j = 0
  BY <1>1 DEF Closed
<1>2. CASE j # k /\ j # 0
  <2>1. k \in Rounds(rs) /\ rs[k].end <= n /\ j \in 1..k - 1
    BY <1>2 DEF Closed
  <2>2. j \in Rounds(rs) /\ rs[j].end <= rs[k].start
    BY <2>1 DEF RoundsOK
  <2>3. rs[j].end <= n
    BY <2>1, <2>2, RoundTypes, TimeAssumption
  <2>4. j >= 2 => j - 1 \in H
    BY <2>1 DEF HadOK
  <2> QED BY <2>2, <2>3, <2>4 DEF Closed
<1> QED BY <1>1, <1>2

-----------------------------------------------------------------------------
(* The first transaction of a boundary run.                                *)

\* A timer a boundary run can be made for.
Ready(t) == Good(t) /\ t.tick >= 1 /\ t.end # NoVal /\ Fits(t, rounds, Had, now)

\* What is there to know of a timer that is ready.
LEMMA ReadyTypes ==
  ASSUME NEW t, Ready(t)
  PROVE  /\ t.tick \in Ticks /\ t.start \in Nat /\ t.start <= now
         /\ t.end \in Nat /\ t.end = t.start + Rotation
  BY TimeAssumption DEF Ready, Good, Consistent, Fits, Timer, OptNat, Ticks

\* A tick without a round comes right after the last one that has one
\* (rotator.py:62-81).
LEMMA LastRound ==
  ASSUME RoundsOK(rounds, now), now \in Nat, NEW t, Ready(t), t.tick \notin Rounds(rounds)
  PROVE  Rounds(rounds) = 1..t.tick - 1 /\ LastRoundTick = t.tick - 1
<1> DEFINE r == t.tick
           ids == {0} \cup {rounds[q].tick : q \in Rounds(rounds)}
<1>1. r \in Ticks /\ r \in Nat \ {0}
  BY ReadyTypes, TimeAssumption DEF Ticks
<1>2. \A q \in Rounds(rounds) : q \in Nat \ {0} /\ rounds[q].tick = q /\ 1..q - 1 \subseteq Rounds(rounds)
  BY RoundTypes DEF RoundsOK
<1>3. \A q \in Rounds(rounds) : q < r
  BY <1>1, <1>2
<1>4. r >= 2 => r - 1 \in Rounds(rounds)
  BY DEF Ready, Fits
<1>5. Rounds(rounds) = 1..r - 1
  <2> HIDE DEF r
  <2>1. \A q \in Rounds(rounds) : q \in 1..r - 1
    BY <1>1, <1>2, <1>3
  <2>2. \A q \in 1..r - 1 : q \in Rounds(rounds)
    <3> SUFFICES ASSUME NEW q \in 1..r - 1 PROVE q \in Rounds(rounds)
      OBVIOUS
    <3>1. r - 1 \in Rounds(rounds) /\ (q = r - 1 \/ q \in 1..(r - 1) - 1)
      BY <1>1, <1>4
    <3> QED BY <1>2, <3>1
  <2> QED BY <2>1, <2>2
<1>6. ids = 0..r - 1
  BY <1>1, <1>2, <1>5
<1>7. LastRoundTick = CHOOSE k \in 0..r - 1 : \A l \in 0..r - 1 : l <= k
  BY <1>6 DEF LastRoundTick
<1>8. LastRoundTick = r - 1
  <2> HIDE DEF r
  <2>1. r - 1 \in 0..r - 1 /\ \A l \in 0..r - 1 : l <= r - 1
    BY <1>1
  <2>2. \A k \in 0..r - 1 : (\A l \in 0..r - 1 : l <= k) => k = r - 1
    BY <1>1, <2>1
  <2> QED BY <1>7, <2>1, <2>2
<1> QED BY <1>5, <1>8

\* Making a round that is missing adds it behind the others; what there was
\* stays (rotator.py:62-81).
LEMMA RoundAdded ==
  ASSUME RoundsOK(rounds, now), now \in Nat, NEW t, Ready(t)
  PROVE  LET rs == EnsureRound(t.tick, t)
         IN  /\ RoundsOK(rs, now)
             /\ Rounds(rs) = Rounds(rounds) \cup {t.tick}
             /\ \A q \in Rounds(rounds) : rs[q] = rounds[q]
             /\ rs[t.tick].start <= t.start /\ rs[t.tick].end <= t.end
             /\ t.tick \notin Rounds(rounds) => rs[t.tick].start = t.start
<1> DEFINE rs == EnsureRound(t.tick, t)
           new == [tick |-> t.tick, start |-> t.start, end |-> t.end]
<1>T. /\ t.tick \in Ticks /\ t.tick \in Nat \ {0} /\ t.start \in Nat /\ t.start <= now
      /\ t.end \in Nat /\ t.end = t.start + Rotation
  BY ReadyTypes, TimeAssumption DEF Ticks
<1>1. CASE t.tick \in Rounds(rounds)
  <2>1. rs = rounds
    BY <1>1 DEF EnsureRound, Rounds
  <2>2. rounds[t.tick].start <= t.start
    BY <1>1 DEF Ready, Fits
  <2>3. rounds[t.tick].end <= t.end
    BY <1>1, <1>T, <2>2, RoundTypes, TimeAssumption
  <2> QED BY <1>1, <2>1, <2>2, <2>3
<1>2. CASE t.tick \notin Rounds(rounds)
  <2>1. rs = [rounds EXCEPT ![t.tick] = new]
    <3>1. LastRoundTick + 1 = t.tick
      BY <1>2, <1>T, LastRound
    <3>2. rounds[t.tick] = NoVal
      BY <1>2, <1>T DEF Rounds
    <3> QED BY <3>1, <3>2 DEF EnsureRound
  <2>2. rounds \in [Ticks -> Round \cup {NoVal}] /\ new \in Round
    BY <1>T DEF RoundsOK, Round
  <2>3. /\ rs \in [Ticks -> Round \cup {NoVal}]
        /\ rs[t.tick] = new
        /\ \A q \in Ticks \ {t.tick} : rs[q] = rounds[q]
    BY <1>T, <2>1, <2>2
  <2>4. new.tick = t.tick /\ new.start = t.start /\ new.end = t.end
    OBVIOUS
  <2> HIDE DEF new, rs
  <2>5. Rounds(rs) = Rounds(rounds) \cup {t.tick}
    BY <1>T, <2>2, <2>3, RotatorAssumption DEF Rounds
  <2>6. \A q \in Rounds(rounds) : rs[q] = rounds[q]
    BY <1>2, <2>3 DEF Rounds
  <2>7. Rounds(rounds) = 1..t.tick - 1
    BY <1>2, LastRound
  <2>8. \A q \in 1..t.tick - 1 : rounds[q].end <= t.start
    <3> SUFFICES ASSUME NEW q \in 1..t.tick - 1 PROVE rounds[q].end <= t.start
      OBVIOUS
    <3>1. t.tick - 1 \in Rounds(rounds) /\ rounds[t.tick - 1].end <= t.start
      BY <1>2, <1>T, <2>7 DEF Ready, Fits
    <3>2. CASE q = t.tick - 1
      BY <3>1, <3>2
    <3>3. CASE q # t.tick - 1
      <4>1. q \in 1..(t.tick - 1) - 1 /\ q \in Rounds(rounds)
        BY <1>T, <2>7, <3>3
      <4>2. rounds[q].end <= rounds[t.tick - 1].start
        BY <3>1, <4>1 DEF RoundsOK
      <4>3. /\ rounds[q].end \in Nat /\ rounds[t.tick - 1].start \in Nat
            /\ rounds[t.tick - 1].end = rounds[t.tick - 1].start + Rotation
            /\ rounds[t.tick - 1].end \in Nat
        BY <3>1, <4>1, RoundTypes
      <4> QED BY <1>T, <3>1, <4>2, <4>3, TimeAssumption
    <3> QED BY <3>2, <3>3
  <2>9. \A r \in Rounds(rs) :
          /\ rs[r].tick = r
          /\ rs[r].end = rs[r].start + Rotation /\ rs[r].start <= now
          /\ \A q \in 1..r - 1 : q \in Rounds(rs) /\ rs[q].end <= rs[r].start
    <3> SUFFICES ASSUME NEW r \in Rounds(rs)
                 PROVE  /\ rs[r].tick = r
                        /\ rs[r].end = rs[r].start + Rotation /\ rs[r].start <= now
                        /\ \A q \in 1..r - 1 : q \in Rounds(rs) /\ rs[q].end <= rs[r].start
      OBVIOUS
    <3>1. CASE r = t.tick
      BY <1>T, <2>3, <2>4, <2>5, <2>6, <2>7, <2>8, <3>1
    <3>2. CASE r \in Rounds(rounds)
      BY <2>5, <2>6, <3>2 DEF RoundsOK
    <3> QED BY <2>5, <3>1, <3>2
  <2>10. rs[t.tick].start <= t.start /\ rs[t.tick].end <= t.end
    BY <1>T, <2>3, <2>4
  <2> QED BY <2>3, <2>4, <2>5, <2>6, <2>9, <2>10 DEF RoundsOK, rs
<1> QED BY <1>1, <1>2

\* Windows that were there before hold the same submissions afterwards.
LEMMA UpToSame ==
  ASSUME NEW S, NEW rs, NEW qs, NEW k \in Nat, 1..k \subseteq Rounds(rs),
         Rounds(rs) \subseteq Rounds(qs), \A q \in Rounds(rs) : qs[q] = rs[q]
  PROVE  UpTo(S, qs, k) = UpTo(S, rs, k)
  BY DEF UpTo

\* Under the id of its tick a tick has one window, apart from all earlier ones:
\* its submissions add to theirs (rotator.py:233-250).
LEMMA WindowAdds ==
  ASSUME NEW rs, NEW n \in Nat, RoundsOK(rs, n), NEW k \in Rounds(rs),
         NEW S, S \subseteq Nat, IsFiniteSet(S)
  PROVE  /\ Cardinality(UpTo(S, rs, k)) =
              Cardinality(Window(rs, S, k)) + Cardinality(UpTo(S, rs, k - 1))
         /\ Cardinality(Window(rs, S, k)) \in Nat /\ Cardinality(UpTo(S, rs, k - 1)) \in Nat
<1> DEFINE W == Window(rs, S, k)
           U == UpTo(S, rs, k - 1)
<1>1. k \in Nat \ {0} /\ rs[k].start \in Nat /\ rs[k].end \in Nat
  BY RoundTypes
<1>2. W = {s \in S : rs[k].start <= s /\ s < rs[k].end}
  BY RoundTypes DEF Window
<1>3. UpTo(S, rs, k) = W \cup U
  BY <1>1, <1>2 DEF UpTo
<1>4. W \cap U = {}
  <2> SUFFICES ASSUME NEW s \in W, s \in U PROVE FALSE
    OBVIOUS
  <2>1. PICK l \in 1..k - 1 : l \in Rounds(rs) /\ rs[l].start <= s /\ s < rs[l].end
    BY DEF UpTo
  <2>2. rs[l].end <= rs[k].start
    BY <2>1 DEF RoundsOK
  <2>3. s \in Nat /\ rs[k].start <= s /\ rs[l].end \in Nat
    BY <1>2, <2>1, RoundTypes
  <2> HIDE DEF W, U
  <2> QED BY <1>1, <2>1, <2>2, <2>3
<1>5. IsFiniteSet(W) /\ IsFiniteSet(U)
  BY FS_Subset DEF Window, UpTo
<1>6. Cardinality(W) \in Nat /\ Cardinality(U) \in Nat
  BY <1>5, FS_CardinalityType
<1> HIDE DEF W, U
<1>7. Cardinality(W \cup U) = Cardinality(W) + Cardinality(U) - Cardinality(W \cap U)
  BY <1>5, FS_Union
<1> QED BY <1>3, <1>4, <1>6, <1>7, FS_EmptySet DEF W, U

\* More submissions, or more rounds, are no fewer in a window.
LEMMA WindowGrows ==
  ASSUME NEW rs, NEW qs, NEW S, NEW T, IsFiniteSet(T), S \subseteq T, NEW k,
         Rounds(rs) \subseteq Rounds(qs), \A q \in Rounds(rs) : qs[q] = rs[q]
  PROVE  /\ Cardinality(Window(rs, S, k)) \in Nat /\ Cardinality(Window(qs, T, k)) \in Nat
         /\ Cardinality(Window(rs, S, k)) <= Cardinality(Window(qs, T, k))
<1>1. Window(rs, S, k) \subseteq Window(qs, T, k)
  BY DEF Window
<1>2. IsFiniteSet(Window(qs, T, k))
  BY FS_Subset DEF Window
<1> QED BY <1>1, <1>2, FS_Subset, FS_CardinalityType

\* The total that is carried over is a number.
LEMMA CarriedType ==
  ASSUME points \in [Ticks -> Nat \cup {NoVal}], NEW k \in Ticks
  PROVE  Carried(k) \in Nat
<1>1. k > 1 => k - 1 \in Ticks
  BY TimeAssumption DEF Ticks
<1> QED BY <1>1 DEF Carried

\* Scoring a tick touches its total only.
LEMMA ScoredTyped ==
  ASSUME PointsTypes(points, subs), NEW rs, NEW k \in Ticks
  PROVE  /\ PointsTypes(Scored(rs, k), subs)
         /\ Scored(rs, k)[k] # NoVal
         /\ \A j \in Ticks \ {k} : Scored(rs, k)[j] = points[j]
<1> DEFINE c == Cardinality(Window(rs, subs, k)) + Carried(k)
<1>1. Cardinality(Window(rs, subs, k)) \in Nat
  BY FS_Subset, FS_CardinalityType DEF Window, PointsTypes
<1>2. c \in Nat
  BY <1>1, CarriedType DEF PointsTypes
<1>3. Scored(rs, k) = [points EXCEPT ![k] = c]
  BY DEF Scored
<1> HIDE DEF c
<1> QED BY <1>2, <1>3, TimeAssumption DEF PointsTypes

\* A round that is added leaves no tick before the last two without its chance
\* (rotator.py:62-81, 500-513).
LEMMA HadKept ==
  ASSUME now \in Nat, RoundsOK(rounds, now), HadOK(Had, rounds), NEW t, Ready(t)
  PROVE  HadOK(Had, EnsureRound(t.tick, t))
<1> DEFINE rs == EnsureRound(t.tick, t)
<1>1. Rounds(rs) = Rounds(rounds) \cup {t.tick}
  BY RoundAdded
<1>T. t.tick \in Nat \ {0} /\ t.tick \in Ticks
  BY ReadyTypes, TimeAssumption DEF Ticks
<1> HIDE DEF rs
<1>2. ASSUME NEW r \in Rounds(rs), NEW k \in 1..r - 2
      PROVE  k \in Had
  <2>1. CASE r \in Rounds(rounds)
    BY <2>1 DEF HadOK
  <2>2. CASE r = t.tick /\ r \notin Rounds(rounds)
    <3>1. r >= 3 /\ r - 2 \in Had /\ r - 1 \in Rounds(rounds)
      BY <1>T, <2>2 DEF Ready, Fits
    <3>2. CASE k = r - 2
      BY <3>1, <3>2
    <3>3. CASE k # r - 2
      <4>1. k \in 1..(r - 1) - 2
        BY <1>T, <2>2, <3>3
      <4> QED BY <3>1, <4>1 DEF HadOK
    <3> QED BY <3>2, <3>3
  <2> QED BY <1>1, <2>1, <2>2
<1> QED BY <1>2 DEF HadOK, rs

\* What is scored stays exact when a round is added.
LEMMA PointsKept ==
  ASSUME now \in Nat, RoundsOK(rounds, now), PointsOK(points, rounds, subs, late),
         NEW t, Ready(t)
  PROVE  PointsOK(points, EnsureRound(t.tick, t), subs, late)
<1> DEFINE rs == EnsureRound(t.tick, t)
<1>1. /\ RoundsOK(rs, now) /\ Rounds(rs) = Rounds(rounds) \cup {t.tick}
      /\ \A q \in Rounds(rounds) : rs[q] = rounds[q]
  BY RoundAdded
<1> HIDE DEF rs
<1>2. ASSUME NEW k \in Ticks, points[k] # NoVal
      PROVE  /\ k + 1 \in Rounds(rs)
             /\ Cardinality(UpTo(subs \ late, rs, k)) <= points[k]
             /\ points[k] <= Cardinality(UpTo(subs, rs, k))
  <2>1. /\ k \in Nat /\ k + 1 \in Rounds(rounds)
        /\ Cardinality(UpTo(subs \ late, rounds, k)) <= points[k]
        /\ points[k] <= Cardinality(UpTo(subs, rounds, k))
    <3>1. k \in Nat
      BY DEF Ticks
    <3> QED BY <1>2, <3>1 DEF PointsOK
  <2>2. 1..k \subseteq Rounds(rounds)
    BY <2>1 DEF RoundsOK
  <2>3. \A S : UpTo(S, rs, k) = UpTo(S, rounds, k)
    BY <1>1, <2>1, <2>2, UpToSame
  <2> QED BY <1>1, <2>1, <2>3
<1> QED BY <1>2 DEF PointsOK, rs

\* Scoring the tick before one that has its round: it is the one behind the
\* last scored tick or an earlier one, and gets what its windows hold
\* (scoring.py:203-215).
LEMMA ScoredExact ==
  ASSUME NEW rs, NEW k \in Nat \ {0}, now \in Nat, RoundsOK(rs, now),
         PointsOK(points, rs, subs, late), k + 1 \in Rounds(rs),
         \A j \in 1..k - 1 : points[j] # NoVal
  PROVE  PointsOK(Scored(rs, k), rs, subs, late)
<1> DEFINE ps == Scored(rs, k)
           c == Cardinality(Window(rs, subs, k)) + Carried(k)
           early == subs \ late
<1>1. k \in Ticks /\ k \in Rounds(rs)
  BY RoundTypes, TimeAssumption DEF RoundsOK, Ticks, Rounds
<1>2. /\ subs \subseteq Nat /\ IsFiniteSet(subs) /\ points \in [Ticks -> Nat \cup {NoVal}]
      /\ early \subseteq subs /\ early \subseteq Nat /\ IsFiniteSet(early)
  BY FS_Subset DEF PointsOK, PointsTypes
<1>3. \A S \in {subs, early} :
        /\ Cardinality(UpTo(S, rs, k)) = Cardinality(Window(rs, S, k)) + Cardinality(UpTo(S, rs, k - 1))
        /\ Cardinality(UpTo(S, rs, k - 1)) \in Nat /\ Cardinality(Window(rs, S, k)) \in Nat
  BY <1>1, <1>2, WindowAdds
<1>4. Cardinality(Window(rs, early, k)) <= Cardinality(Window(rs, subs, k))
  BY <1>2, WindowGrows
<1>5. /\ Carried(k) \in Nat
      /\ Cardinality(UpTo(early, rs, k - 1)) <= Carried(k)
      /\ Carried(k) <= Cardinality(UpTo(subs, rs, k - 1))
  <2>1. CASE k = 1
    <3>1. UpTo(subs, rs, k - 1) = {} /\ UpTo(early, rs, k - 1) = {} /\ Carried(k) = 0
      BY <2>1 DEF UpTo, Carried
    <3>2. Cardinality({}) = 0
      BY FS_EmptySet
    <3> HIDE DEF early
    <3> QED BY <3>1, <3>2
  <2>2. CASE k # 1
    <3>1. k - 1 \in 1..k - 1 /\ k - 1 \in Ticks /\ k > 1
      BY <1>1, <2>2, TimeAssumption DEF Ticks
    <3>2. points[k - 1] # NoVal
      BY <3>1
    <3>3. Carried(k) = points[k - 1]
      BY <3>1, <3>2 DEF Carried
    <3> QED BY <1>2, <3>1, <3>2, <3>3 DEF PointsOK
  <2> QED BY <2>1, <2>2
<1>6. ps = [points EXCEPT ![k] = c] /\ c \in Nat
  BY <1>3, <1>5 DEF Scored
<1>B. Cardinality(UpTo(early, rs, k)) <= c /\ c <= Cardinality(UpTo(subs, rs, k))
  BY <1>3, <1>4, <1>5
<1> HIDE DEF ps, c
<1>7. ps[k] = c /\ \A j \in Ticks \ {k} : ps[j] = points[j]
  BY <1>1, <1>2, <1>6
<1>8. ps \in [Ticks -> Nat \cup {NoVal}] /\ c # NoVal
  BY <1>1, <1>2, <1>6, TimeAssumption
<1>11. \A j \in Ticks : ps[j] # NoVal =>
         /\ j + 1 \in Rounds(rs)
         /\ Cardinality(UpTo(early, rs, j)) <= ps[j] /\ ps[j] <= Cardinality(UpTo(subs, rs, j))
  BY <1>7, <1>B DEF PointsOK
<1>12. \E m \in 0..MaxTick : {j \in Ticks : ps[j] # NoVal} = 1..m
  <2>1. PICK m \in 0..MaxTick : {j \in Ticks : points[j] # NoVal} = 1..m
    BY DEF PointsOK
  <2>2. 1..k - 1 \subseteq 1..m
    <3>1. \A j \in 1..k - 1 : j \in Ticks
      BY <1>1, TimeAssumption DEF Ticks
    <3> QED BY <2>1, <3>1
  <2>3. {j \in Ticks : ps[j] # NoVal} = 1..m \cup {k}
    BY <1>1, <1>7, <1>8, <2>1
  <2>4. CASE k <= m
    <3>1. 1..m \cup {k} = 1..m
      BY <2>4
    <3> QED BY <2>3, <3>1
  <2>5. CASE k > m
    <3>1. 1..m \cup {k} = 1..k /\ k \in 0..MaxTick
      BY <1>1, <2>2, <2>5, TimeAssumption DEF Ticks
    <3> QED BY <2>3, <3>1
  <2> QED BY <2>4, <2>5
<1> QED BY <1>2, <1>8, <1>11, <1>12 DEF PointsOK, PointsTypes, ps

-----------------------------------------------------------------------------
(* Every step is one of GameTimer or leaves its variables alone.           *)

\* What the rotator does to the tables it does beside the transactions
\* (rotator.py:495-529).
LEMMA StepIsTimerStep == [RNext]_allVars => [Next]_vars
<1> SUFFICES ASSUME [RNext]_allVars PROVE [Next]_vars
  OBVIOUS
<1>1. ASSUME NEW a \in Api, Request(a) PROVE ApiStep(a)
  BY <1>1, RotatorAssumption DEF Request, ApiStep
<1>2. CASE Load \/ Sync \/ Commit \/ Boundary \/ Reload \/ Finish \/ Crash
  BY <1>2 DEF Load, Sync, Commit, Boundary, Reload, Finish, Crash, Next, RotStep
<1>3. CASE RunScore \/ RunJobs \/ BeginSubmit \/ \E s \in pending : Accept(s) \/ Refuse(s)
  BY <1>3 DEF RunScore, RunJobs, BeginSubmit, Accept, Refuse
<1> QED
  BY <1>1, <1>2, <1>3 DEF RNext, RotatorStep, Next, allVars

\* The rotator with its tables implements the game timer: every property of
\* that holds of it (rotator.py:551-607).
THEOREM ImplementsGameTimer == RSpec => Spec
<1>1. RInit => Init
  BY DEF RInit
<1> QED
  BY <1>1, StepIsTimerStep, PTL DEF RSpec, Spec

-----------------------------------------------------------------------------
(* The invariant is kept.                                                  *)

\* Nothing is in the tables yet, and nobody works on anything.
LEMMA RInvInit == RInit => RInv
<1> SUFFICES ASSUME RInit PROVE RInv
  OBVIOUS
<1> USE DEF RInit, Init
<1>1. Rounds(rounds) = {}
  BY DEF Rounds
<1>2. TablesInv
  <2>1. {k \in Ticks : points[k] # NoVal} = 1..0 /\ 0 \in 0..MaxTick
    BY TimeAssumption
  <2>2. \E m \in 0..MaxTick : {k \in Ticks : points[k] # NoVal} = 1..m
    BY <2>1
  <2> QED BY <1>1, <2>2, FS_EmptySet DEF TablesInv, RoundsOK, PointsOK, PointsTypes, HadOK
<1>3. timer[Rot] = FirstRow /\ pc[Rot] = "idle"
  BY DEF Proc
<1>4. TimersInv
  BY <1>3, FirstRowFits DEF TimersInv
<1>5. AheadInv /\ StageInv
  BY <1>3 DEF AheadInv, StageInv, FirstRow
<1> QED BY <1>2, <1>4, <1>5 DEF RInv

\* What there is to know of the objects at hand.
LEMMA AtHand ==
  ASSUME ConsistentInv
  PROVE  /\ now \in Nat /\ Rot \in Proc /\ Good(row) /\ Good(timer[Rot])
         /\ row.tick \in Nat /\ timer[Rot].tick \in Nat
         /\ row.end # NoVal => row.start \in Nat /\ row.end = row.start + Rotation /\ row.tick >= 1
         /\ timer[Rot].end # NoVal =>
              /\ timer[Rot].start \in Nat /\ timer[Rot].end = timer[Rot].start + Rotation
              /\ timer[Rot].tick >= 1
<1>1. Rot \in Proc
  BY DEF Proc
<1>2. /\ now \in Nat /\ row \in Timer /\ timer[Rot] \in Timer
      /\ Consistent(row) /\ Consistent(timer[Rot])
  BY <1>1 DEF ConsistentInv, TypeOK
<1> QED BY <1>1, <1>2 DEF Good, Consistent, Timer, OptNat

\* Making the round and scoring the tick before: what is scored stays so
\* (rotator.py:495-529).
LEMMA RunScoreTables ==
  ASSUME ConsistentInv, RInv, RunScore
  PROVE  /\ UNCHANGED <<row, lock, now, pc, timer, req, jobs, subs, pending, late, lost>>
         /\ Ready(timer[Rot]) /\ pc[Rot] \in {"synced", "boundary"} /\ stage' = "scored"
         /\ RoundsOK(rounds', now) /\ Rounds(rounds') = Rounds(rounds) \cup {timer[Rot].tick}
         /\ \A q \in Rounds(rounds) : rounds'[q] = rounds[q]
         /\ rounds'[timer[Rot].tick].start <= timer[Rot].start
         /\ rounds'[timer[Rot].tick].end <= timer[Rot].end
         /\ timer[Rot].tick \notin Rounds(rounds) => rounds'[timer[Rot].tick].start = timer[Rot].start
         /\ PointsTypes(points', subs)
         /\ skipped' = {} => PointsOK(points', rounds', subs, late)
         /\ HadOK(Had', rounds') /\ Had \subseteq Had'
         /\ pc[Rot] = "boundary" /\ timer[Rot].tick >= 2 => timer[Rot].tick - 1 \in Had'
<1> DEFINE t == timer[Rot]
           rs == EnsureRound(t.tick, t)
<1>T. now \in Nat /\ Good(row) /\ Good(t) /\ row.tick \in Nat /\ t.tick \in Nat
  BY AtHand
<1>U. UNCHANGED <<row, lock, now, pc, timer, req, jobs, subs, pending, late, lost>>
  BY DEF RunScore, vars
<1>1. Ready(t) /\ stage = "none" /\ pc[Rot] \in {"synced", "boundary"}
  BY <1>T DEF RunScore, NeedsJobs, RInv, StageInv, BoundaryReady, Ready, TimersInv
<1>2. /\ RoundsOK(rounds, now) /\ PointsTypes(points, subs) /\ HadOK(Had, rounds)
      /\ skipped = {} => PointsOK(points, rounds, subs, late)
  BY DEF RInv, TablesInv
<1>3. /\ RoundsOK(rs, now) /\ Rounds(rs) = Rounds(rounds) \cup {t.tick}
      /\ \A q \in Rounds(rounds) : rs[q] = rounds[q]
      /\ rs[t.tick].start <= t.start /\ rs[t.tick].end <= t.end
      /\ t.tick \notin Rounds(rounds) => rs[t.tick].start = t.start
  BY <1>T, <1>1, <1>2, RoundAdded
<1>4. HadOK(Had, rs) /\ (skipped = {} => PointsOK(points, rs, subs, late))
  BY <1>T, <1>1, <1>2, HadKept, PointsKept
<1>5. t.tick \in Ticks /\ t.tick \in Nat \ {0}
  BY <1>1, ReadyTypes, TimeAssumption DEF Ticks
<1>6. rs[t.tick].tick - 1 = t.tick - 1
  BY <1>3 DEF RoundsOK
<1> DEFINE k == t.tick - 1
           skip == pc[Rot] = "boundary" /\ points[k] = NoVal
<1>7. /\ rounds' = rs
      /\ \/ k >= 1 /\ points' = Scored(rs, k) /\ skipped' = skipped
         \/ /\ k >= 1 /\ skipped' = IF skip THEN skipped \cup {k} ELSE skipped
            /\ points' = points
         \/ ~(k >= 1) /\ points' = points /\ skipped' = skipped
      /\ stage' = "scored"
  BY <1>6 DEF RunScore, Due
<1> HIDE DEF rs, t
<1>K. k \in Nat /\ (k >= 1 => k \in Ticks /\ k + 1 \in Rounds(rs)) /\ t.tick = k + 1
  BY <1>3, <1>5, TimeAssumption DEF Ticks
<1> HIDE DEF k
<1>8. /\ PointsTypes(points', subs)
      /\ skipped' = {} => PointsOK(points', rs, subs, late)
      /\ Had \subseteq Had'
      /\ pc[Rot] = "boundary" /\ k >= 1 => k \in Had'
  <2>1. CASE k >= 1 /\ points' = Scored(rs, k) /\ skipped' = skipped
    <3>1. /\ PointsTypes(Scored(rs, k), subs) /\ Scored(rs, k)[k] # NoVal
          /\ \A j \in Ticks \ {k} : Scored(rs, k)[j] = points[j]
      BY <1>2, <1>K, <2>1, ScoredTyped
    <3>2. ASSUME skipped = {} PROVE PointsOK(Scored(rs, k), rs, subs, late)
      <4>1. \A j \in 1..k - 1 : j \in 1..(k + 1) - 2
        BY <1>K
      <4>2. \A j \in 1..k - 1 : points[j] # NoVal
        BY <1>4, <1>K, <2>1, <3>2, <4>1 DEF HadOK, Had
      <4> QED BY <1>T, <1>3, <1>4, <1>K, <2>1, <3>2, <4>2, ScoredExact
    <3>3. Had \subseteq Had' /\ k \in Had'
      BY <1>K, <2>1, <3>1 DEF Had
    <3> QED BY <2>1, <3>1, <3>2, <3>3
  <2>2. CASE /\ k >= 1 /\ skipped' = (IF skip THEN skipped \cup {k} ELSE skipped)
             /\ points' = points
    <3>1. Had \subseteq Had' /\ (pc[Rot] = "boundary" => k \in Had')
      BY <1>K, <2>2 DEF Had
    <3>2. skipped' = {} => skipped = {}
      BY <2>2
    <3> QED BY <1>2, <1>4, <2>2, <3>1, <3>2
  <2>3. CASE ~(k >= 1) /\ points' = points /\ skipped' = skipped
    <3>1. Had' = Had
      BY <2>3 DEF Had
    <3> QED BY <1>2, <1>4, <2>3, <3>1
  <2> QED BY <1>7, <2>1, <2>2, <2>3
<1>9. HadOK(Had', rs)
  BY <1>4, <1>8 DEF HadOK
<1>10. pc[Rot] = "boundary" /\ t.tick >= 2 => t.tick - 1 \in Had'
  BY <1>K, <1>8
<1> QED BY <1>U, <1>1, <1>3, <1>7, <1>8, <1>9, <1>10 DEF t

\* So the tables are in order after it, and still fit both timers.
LEMMA RunScoreKeeps ==
  ASSUME ConsistentInv, RInv, RunScore
  PROVE  RInv'
<1> DEFINE t == timer[Rot]
           rs == rounds'
<1>T. now \in Nat /\ Good(row) /\ Good(t) /\ row.tick \in Nat /\ t.tick \in Nat
  BY AtHand
<1>U. UNCHANGED <<row, lock, now, pc, timer, req, jobs, subs, pending, late, lost>>
  BY RunScoreTables
<1>1. Ready(t) /\ pc[Rot] \in {"synced", "boundary"} /\ stage' = "scored"
  BY RunScoreTables
<1>2. /\ t.tick \in Ticks /\ t.tick \in Nat \ {0} /\ t.start \in Nat
      /\ t.end \in Nat
  BY <1>1, ReadyTypes, TimeAssumption DEF Ticks
<1>3. /\ RoundsOK(rs, now) /\ Rounds(rs) = Rounds(rounds) \cup {t.tick}
      /\ \A q \in Rounds(rounds) : rs[q] = rounds[q]
      /\ rs[t.tick].start <= t.start /\ rs[t.tick].end <= t.end
      /\ t.tick \notin Rounds(rounds) => rs[t.tick].start = t.start
  BY RunScoreTables
<1>4. /\ PointsTypes(points', subs) /\ (skipped' = {} => PointsOK(points', rs, subs, late))
      /\ HadOK(Had', rs) /\ Had \subseteq Had'
      /\ pc[Rot] = "boundary" /\ t.tick >= 2 => t.tick - 1 \in Had'
  BY RunScoreTables
<1> HIDE DEF t
<1>5. TablesInv'
  BY <1>U, <1>3, <1>4 DEF RInv, TablesInv
<1>6. ASSUME NEW u, Good(u), Fits(u, rounds, Had, now),
              u.tick = t.tick /\ u.end # NoVal => t.start <= u.start
       PROVE  Fits(u, rs, Had', now)
  <2>1. u.tick \in Nat /\ u.start \in OptNat /\ (u.end # NoVal => u.start \in Nat)
    BY <1>6 DEF Good, Timer, Consistent, OptNat
  <2>2. u.tick <= MaxTick /\ (u.tick >= 2 => u.tick - 1 \in Rounds(rounds))
    BY <1>6 DEF Fits
  <2>3. u.tick >= 2 => u.tick - 1 \in Rounds(rs) /\ rs[u.tick - 1] = rounds[u.tick - 1]
    BY <1>3, <2>2
  <2>4. u.tick >= 3 /\ u.tick \notin Rounds(rs) => u.tick - 2 \in Had'
    BY <1>3, <1>4, <1>6 DEF Fits
  <2>5. ASSUME u.end # NoVal, u.tick \in Rounds(rs)
        PROVE  rs[u.tick].start <= u.start
    <3>1. CASE u.tick \in Rounds(rounds)
      BY <1>3, <1>6, <2>5, <3>1 DEF Fits
    <3>2. CASE u.tick \notin Rounds(rounds)
      <4>1. u.tick = t.tick
        BY <1>3, <2>5, <3>2
      <4> QED BY <1>3, <1>6, <2>5, <3>2, <4>1
    <3> QED BY <3>1, <3>2
  <2> QED BY <1>3, <1>6, <2>2, <2>3, <2>4, <2>5 DEF Fits
<1>7. TimersInv'
  <2>1. Fits(row, rs, Had', now)
    BY <1>T, <1>1, <1>6 DEF RInv, TimersInv, AheadInv, Ready, t
  <2>2. Fits(t, rs, Had', now)
    BY <1>T, <1>1, <1>2, <1>6 DEF RInv, TimersInv, Ready
  <2> QED BY <1>U, <2>1, <2>2 DEF TimersInv, t
<1>8. AheadInv'
  BY <1>U DEF RInv, AheadInv
<1>9. StageInv'
  <2>1. pc[Rot] = "boundary" => Closed(t.tick, rs, Had', now)
    <3> SUFFICES ASSUME pc[Rot] = "boundary" PROVE Closed(t.tick, rs, Had', now)
      OBVIOUS
    <3>1. now >= t.end
      BY DEF RInv, StageInv, BoundaryReady, t
    <3>2. t.tick \in Rounds(rs) /\ rs[t.tick].end \in Nat
      BY <1>T, <1>3, RoundTypes
    <3>3. rs[t.tick].end <= now
      BY <1>T, <1>2, <1>3, <3>1, <3>2
    <3> QED BY <1>4, <3>2, <3>3 DEF Closed
  <2>2. t.tick \in Rounds(rs)
    BY <1>3
  <2>3. pc[Rot] = "boundary" => BoundaryReady(timer[Rot], now)
    BY DEF RInv, StageInv
  <2> QED BY <1>U, <1>1, <2>1, <2>2, <2>3 DEF StageInv, t
<1> QED BY <1>5, <1>7, <1>8, <1>9 DEF RInv

\* A step that neither scores nor skips.
LEMMA HadSame == UNCHANGED <<points, skipped>> => Had' = Had
  BY DEF Had

\* The jobs of a tick come after its round (rotator.py:514-521).
LEMMA RunJobsKeeps ==
  ASSUME ConsistentInv, RInv, RunJobs
  PROVE  RInv'
<1>1. UNCHANGED <<row, lock, now, pc, timer, req, rounds, points, subs, pending, late, skipped>>
  BY DEF RunJobs, vars
<1>H. Had' = Had
  BY <1>1, HadSame
<1>2. /\ stage = "scored" /\ pc[Rot] \in {"synced", "boundary"}
      /\ timer[Rot].tick \in Rounds(rounds)
  BY DEF RInv, StageInv, RunJobs
<1>3. jobs' \subseteq Rounds(rounds)
  BY <1>2 DEF RunJobs, RInv, TablesInv, RoundsOK
<1>4. TablesInv' /\ TimersInv' /\ AheadInv'
  BY <1>H, <1>1, <1>3 DEF RInv, TablesInv, TimersInv, AheadInv
<1>5. stage' = IF pc[Rot] = "boundary" THEN "done" ELSE "ran"
  BY DEF RunJobs
<1>6. StageInv'
  BY <1>H, <1>1, <1>2, <1>5 DEF RInv, StageInv
<1> QED BY <1>4, <1>6 DEF RInv

\* A submission that commits in time is in no window of a scored tick; one that
\* commits late is never required in a total, and never too many
\* (flag_submit.py:126-167).
LEMMA AcceptKeeps ==
  ASSUME ConsistentInv, RInv, NEW s \in pending, Accept(s)
  PROVE  RInv'
<1>1. UNCHANGED <<row, lock, now, pc, timer, req, rounds, jobs, points, stage, skipped>>
  BY DEF Accept, vars
<1>H. Had' = Had
  BY <1>1, HadSame
<1>2. now \in Nat /\ RoundsOK(rounds, now) /\ PointsTypes(points, subs) /\ s \in Nat
  BY AtHand DEF RInv, TablesInv
<1>3. subs' = subs \cup {s} /\ pending' \subseteq Nat
  BY DEF Accept, RInv, TablesInv
<1>4. PointsTypes(points, subs')
  BY <1>2, <1>3, FS_AddElement DEF PointsTypes
<1>5. ASSUME PointsOK(points, rounds, subs, late), NEW k \in Ticks, points[k] # NoVal
      PROVE  UpTo(subs' \ late', rounds, k) \subseteq UpTo(subs \ late, rounds, k)
  <2> SUFFICES ASSUME NEW x \in subs' \ late', NEW l \in 1..k, l \in Rounds(rounds),
                      rounds[l].start <= x, x < rounds[l].end
               PROVE  x \in subs \ late
    BY DEF UpTo
  <2>1. late \subseteq late'
    BY DEF Accept
  <2>2. x # s
    <3> SUFFICES ASSUME x = s PROVE FALSE
      OBVIOUS
    <3>1. PICK m \in 0..MaxTick : {j \in Ticks : points[j] # NoVal} = 1..m
      BY <1>5 DEF PointsOK
    <3>2. k \in 1..m /\ l \in 1..m
      BY <1>5, <3>1
    <3>3. l \in Ticks /\ points[l] # NoVal
      BY <3>1, <3>2
    <3>4. s \in Window(rounds, {s}, l)
      BY <1>2 DEF RoundsOK, Window
    <3> QED BY <3>3, <3>4 DEF Accept
  <2> QED BY <1>3, <2>1, <2>2
<1>6. ASSUME PointsOK(points, rounds, subs, late), NEW k \in Ticks, points[k] # NoVal
      PROVE  /\ Cardinality(UpTo(subs' \ late', rounds, k)) <= points[k]
             /\ points[k] <= Cardinality(UpTo(subs', rounds, k))
  <2>0. IsFiniteSet(subs) /\ IsFiniteSet(subs')
    BY <1>2, <1>4 DEF PointsTypes
  <2>1. /\ UpTo(subs, rounds, k) \subseteq UpTo(subs', rounds, k)
        /\ UpTo(subs' \ late', rounds, k) \subseteq UpTo(subs \ late, rounds, k)
    BY <1>3, <1>5, <1>6 DEF UpTo
  <2>2. IsFiniteSet(UpTo(subs', rounds, k)) /\ IsFiniteSet(UpTo(subs \ late, rounds, k))
    BY <2>0, FS_Subset DEF UpTo
  <2>3. /\ Cardinality(UpTo(subs, rounds, k)) <= Cardinality(UpTo(subs', rounds, k))
        /\ Cardinality(UpTo(subs' \ late', rounds, k)) <= Cardinality(UpTo(subs \ late, rounds, k))
    BY <2>1, <2>2, FS_Subset
  <2>4. /\ Cardinality(UpTo(subs, rounds, k)) \in Nat /\ Cardinality(UpTo(subs', rounds, k)) \in Nat
        /\ Cardinality(UpTo(subs' \ late', rounds, k)) \in Nat
        /\ Cardinality(UpTo(subs \ late, rounds, k)) \in Nat
    BY <2>1, <2>2, FS_Subset, FS_CardinalityType
  <2>5. /\ points[k] \in Nat
        /\ Cardinality(UpTo(subs \ late, rounds, k)) <= points[k]
        /\ points[k] <= Cardinality(UpTo(subs, rounds, k))
    BY <1>2, <1>6 DEF PointsOK, PointsTypes
  <2> QED BY <2>3, <2>4, <2>5
<1>7. PointsOK(points, rounds, subs, late) => PointsOK(points, rounds, subs', late')
  BY <1>4, <1>6 DEF PointsOK
<1>8. TablesInv'
  BY <1>1, <1>3, <1>4, <1>7, <1>H DEF RInv, TablesInv
<1>9. TimersInv' /\ AheadInv' /\ StageInv'
  BY <1>1, <1>H DEF RInv, TimersInv, AheadInv, StageInv
<1> QED BY <1>8, <1>9 DEF RInv

\* A transaction that begins or is rolled back has submitted nothing
\* (flag_submit.py:126-133).
LEMMA PendingKeeps ==
  ASSUME ConsistentInv, RInv, BeginSubmit \/ \E s \in pending : Refuse(s)
  PROVE  RInv'
<1>1. UNCHANGED <<row, lock, now, pc, timer, req, rounds, jobs, points, subs, stage, late,
                  skipped>>
  BY DEF BeginSubmit, Refuse, vars
<1>H. Had' = Had
  BY <1>1, HadSame
<1>2. pending' \subseteq Nat
  BY AtHand DEF BeginSubmit, Refuse, RInv, TablesInv
<1> QED BY <1>H, <1>1, <1>2 DEF RInv, TablesInv, TimersInv, AheadInv, StageInv

\* What has begun has begun, and what is over is over.
LEMMA ElapseKeeps ==
  ASSUME ConsistentInv, RInv, Elapse, UNCHANGED <<tables, stage>>
  PROVE  RInv'
<1>1. UNCHANGED <<row, lock, pc, timer, req, rounds, jobs, points, subs, pending, late, skipped, stage>> /\ now' = now + 1
  BY DEF Elapse, tables
<1>H. Had' = Had
  BY <1>1, HadSame
<1>2. now \in Nat /\ Good(row) /\ Good(timer[Rot]) /\ RoundsOK(rounds, now)
  BY AtHand DEF RInv, TablesInv
<1>3. TablesInv'
  BY <1>H, <1>1, <1>2, LaterRounds DEF RInv, TablesInv
<1>4. TimersInv'
  BY <1>H, <1>1, <1>2, LaterFits DEF RInv, TimersInv
<1>5. AheadInv'
  BY <1>1 DEF RInv, AheadInv
<1>6. BoundaryReady(timer[Rot], now) => BoundaryReady(timer[Rot], now + 1)
  BY <1>2 DEF BoundaryReady, Good, Timer, OptNat
<1>7. Closed(timer[Rot].tick, rounds, Had, now) => Closed(timer[Rot].tick, rounds, Had, now + 1)
  BY <1>2, RoundTypes DEF Closed
<1>8. StageInv'
  BY <1>H, <1>1, <1>6, <1>7 DEF RInv, StageInv
<1> QED BY <1>3, <1>4, <1>5, <1>8 DEF RInv

\* A step that leaves tables and clock alone has only timers and the run's
\* progress to answer for.
LEMMA TablesSame ==
  ASSUME RInv, UNCHANGED <<rounds, jobs, points, subs, pending, late, skipped, now>>
  PROVE  TablesInv'
  BY HadSame DEF RInv, TablesInv

\* The request handlers, if they take nothing back (game_api.py:23-92).
LEMMA RequestKeeps ==
  ASSUME ConsistentInv, RInv, NEW a \in Api, Request(a), ~lost'
  PROVE  RInv'
<1> USE ProcAssumption DEF Proc
<1>T. TypeOK /\ now \in Nat /\ Good(row) /\ Good(timer[Rot]) /\ row.tick \in Nat /\ timer[Rot].tick \in Nat
  BY AtHand DEF ConsistentInv
<1>1. UNCHANGED <<rounds, jobs, points, subs, pending, late, skipped, stage, now>> /\ pc'[Rot] = pc[Rot] /\ timer'[Rot] = timer[Rot]
  BY <1>T DEF Request, ApiLoad, ApiUpdate, ApiRollback, End, tables, TypeOK
<1>H. Had' = Had
  BY <1>1, HadSame
<1>2. \/ row' = row
      \/ /\ lock = NoVal /\ timer[a] = row /\ Good(row')
         /\ Keeps(row, row') \/ (row.tick = 0 /\ Opens(row', now, 1))
  <2>1. CASE ApiUpdate(a) /\ row' # row
    <3>1. /\ Updates(req[a], timer[a], now) /\ lock = NoVal /\ pc[a] = "loaded"
          /\ row' = Result(req[a], timer[a], now)
      BY <2>1 DEF ApiUpdate
    <3>2. timer[a] = row
      BY <2>1, <3>1 DEF Request, ApiUpdate, ApiLoad, ApiRollback, Overwrites, Seen
    <3>3. req[a] \in [op : Ops, body : Body]
      BY <1>T DEF TypeOK
    <3>4. Good(Result(req[a], row, now))
      BY <1>T, <3>1, <3>2, <3>3, ResultGood
    <3>5. \/ Keeps(row, Result(req[a], row, now))
          \/ row.tick = 0 /\ Opens(Result(req[a], row, now), now, 1)
      BY <1>T, <3>3, ResultMoves
    <3>6. row' = Result(req[a], row, now)
      BY <3>1, <3>2
    <3> QED BY <3>1, <3>2, <3>4, <3>5, <3>6
  <2>2. CASE ~ApiUpdate(a)
    BY <2>2 DEF Request, ApiLoad, ApiRollback
  <2> QED BY <2>1, <2>2
<1>3. Fits(row', rounds, Had, now)
  BY <1>T, <1>2, KeepsFits, FirstFits DEF RInv, TimersInv, TablesInv
<1>4. TimersInv'
  BY <1>H, <1>1, <1>3 DEF RInv, TimersInv
<1>5. AheadInv'
  <2>1. CASE row' = row
    BY <1>1, <2>1 DEF RInv, AheadInv
  <2>2. CASE Keeps(row, row')
    BY <1>T, <1>1, <2>2 DEF RInv, AheadInv, Keeps
  <2>3. CASE Opens(row', now, 1)
    BY <1>T, <1>1, <2>3 DEF RInv, AheadInv, Opens, TimersInv, Fits
  <2> QED BY <1>2, <2>1, <2>2, <2>3
<1>6. StageInv'
  BY <1>H, <1>1 DEF RInv, StageInv
<1> QED BY <1>1, <1>4, <1>5, <1>6, TablesSame DEF RInv

\* Loading the row (game_timer.py:46-67).
LEMMA LoadKeeps ==
  ASSUME ConsistentInv, RInv, Load
  PROVE  RInv'
<1>T. TypeOK /\ row.tick \in Nat /\ Rot \in Proc
  BY AtHand DEF ConsistentInv
<1>1. /\ UNCHANGED <<rounds, jobs, points, subs, pending, late, skipped, stage, now, row>>
      /\ pc[Rot] = "idle" /\ pc'[Rot] = "loaded" /\ timer'[Rot] = row
  BY <1>T DEF Load, RotLoad, tables, TypeOK
<1>H. Had' = Had
  BY <1>1, HadSame
<1>2. row.end # NoVal => row.start \in Nat
  BY AtHand
<1>3. TimersInv' /\ AheadInv'
  BY <1>H, <1>T, <1>1, <1>2 DEF RInv, TimersInv, AheadInv
<1>4. StageInv'
  BY <1>H, <1>1 DEF RInv, StageInv
<1> QED BY <1>1, <1>3, <1>4, TablesSame DEF RInv

\* sync_scheduled_start (game_timer.py:111-124).
LEMMA SyncKeeps ==
  ASSUME ConsistentInv, RInv, Sync, ~lost'
  PROVE  RInv'
<1>T. TypeOK /\ now \in Nat /\ row.tick \in Nat /\ Rot \in Proc /\ Good(row)
      /\ (row.end # NoVal => row.start \in Nat)
  BY AtHand DEF ConsistentInv
<1>1. /\ UNCHANGED <<rounds, jobs, points, subs, pending, late, skipped, stage, now, row>>
      /\ pc[Rot] = "loaded" /\ pc'[Rot] = "synced"
      /\ ShouldRun(timer[Rot], now) => timer[Rot] = row
  BY <1>T, ProcAssumption DEF Sync, RotSync, tables, TypeOK, Overwrites, Seen
<1>H. Had' = Had
  BY <1>1, HadSame
<1>2. timer'[Rot] = row \/ (ShouldRun(row, now) /\ timer'[Rot] = Synced(row, now))
  <2>1. timer \in [Proc -> Timer]
    BY <1>T DEF TypeOK
  <2>2. CASE ShouldRun(timer[Rot], now)
    <3>1. timer' = [timer EXCEPT ![Rot] = Synced(@, now)]
      BY <2>2 DEF Sync, RotSync
    <3> QED BY <1>T, <1>1, <2>1, <2>2, <3>1
  <2>3. CASE ~ShouldRun(timer[Rot], now)
    <3>1. timer' = [timer EXCEPT ![Rot] = row]
      BY <2>3 DEF Sync, RotSync
    <3>2. timer'[Rot] = row
      BY <1>T, <2>1, <3>1
    <3> QED BY <3>2
  <2> QED BY <2>2, <2>3
<1>3. CASE timer'[Rot] = row
  BY <1>H, <1>T, <1>1, <1>3, TablesSame DEF RInv, TimersInv, AheadInv, StageInv
<1>4. CASE ShouldRun(row, now) /\ timer'[Rot] = Synced(row, now)
  <2> DEFINE u == Synced(row, now)
  <2>1. Good(u) /\ IF row.tick = 0 THEN Opens(u, now, 1)
                   ELSE u.tick = row.tick /\ u.start = row.start /\ u.end = row.end
    BY <1>T, <1>4, SyncedGood, SyncedMoves
  <2> HIDE DEF u
  <2>2. Fits(u, rounds, Had, now)
    BY <1>T, <2>1, KeepsFits, FirstFits DEF RInv, TimersInv, TablesInv, Keeps
  <2>3. TimersInv'
    BY <1>H, <1>1, <1>4, <2>2 DEF RInv, TimersInv, u
  <2>4. AheadInv'
    BY <1>T, <1>1, <1>4, <2>1 DEF AheadInv, Opens, u
  <2>5. StageInv'
    BY <1>H, <1>1 DEF RInv, StageInv
  <2> QED BY <1>1, <2>3, <2>4, <2>5, TablesSame DEF RInv
<1> QED BY <1>2, <1>3, <1>4

\* The return of the boundary's tick (game_timer.py:126-139).
LEMMA BoundaryKeeps ==
  ASSUME ConsistentInv, RInv, Boundary
  PROVE  RInv'
<1>T. TypeOK /\ Rot \in Proc
  BY AtHand DEF ConsistentInv
<1>1. /\ UNCHANGED <<rounds, jobs, points, subs, pending, late, skipped, now, row, timer>> /\ stage' = "none"
      /\ pc[Rot] = "synced" /\ pc'[Rot] = "boundary" /\ BoundaryReady(timer[Rot], now)
  BY <1>T DEF Boundary, RotBoundary, tables, TypeOK
<1>H. Had' = Had
  BY <1>1, HadSame
<1>2. TimersInv' /\ AheadInv' /\ StageInv'
  BY <1>H, <1>1 DEF RInv, TimersInv, AheadInv, StageInv
<1> QED BY <1>1, <1>2, TablesSame DEF RInv

\* finish_boundary's reload: what it finds instead of the tick it has closed
\* is an earlier one, or none (game_timer.py:141-146).
LEMMA ReloadKeeps ==
  ASSUME ConsistentInv, RInv, Reload
  PROVE  RInv'
<1>T. /\ TypeOK /\ now \in Nat /\ row.tick \in Nat /\ timer[Rot].tick \in Nat /\ Rot \in Proc
      /\ (row.end # NoVal => row.start \in Nat)
      /\ (timer[Rot].end # NoVal => timer[Rot].start \in Nat)
  BY AtHand DEF ConsistentInv
<1>1. /\ UNCHANGED <<rounds, jobs, points, subs, pending, late, skipped, stage, now, row>> /\ stage = "done"
      /\ pc[Rot] = "boundary" /\ pc'[Rot] = "finishing" /\ timer'[Rot] \in {row, timer[Rot]}
  BY <1>T DEF Reload, RotReload, tables, TypeOK, Seen
<1>H. Had' = Had
  BY <1>1, HadSame
<1>2. Closed(timer[Rot].tick, rounds, Had, now) /\ timer[Rot].tick >= 1
  BY <1>1 DEF RInv, StageInv, BoundaryReady
<1>3. row.tick <= timer[Rot].tick
  BY <1>T, <1>1, <1>2 DEF RInv, AheadInv
<1>4. Closed(timer'[Rot].tick, rounds, Had, now)
  BY <1>T, <1>1, <1>2, <1>3, EarlierClosed DEF RInv, TablesInv
<1>5. TimersInv'
  BY <1>H, <1>1 DEF RInv, TimersInv
<1>6. AheadInv'
  BY <1>T, <1>1, <1>3 DEF RInv, AheadInv
<1>7. StageInv'
  BY <1>H, <1>1, <1>4 DEF StageInv
<1> QED BY <1>1, <1>5, <1>6, <1>7, TablesSame DEF RInv

\* The end of an iteration, with or without a commit (rotator.py:567-607).
LEMMA EndKeeps ==
  ASSUME ConsistentInv, RInv, End(Rot), UNCHANGED <<rounds, jobs, points, subs, pending, late, skipped, now>>,
         stage' = "none", Fits(row', rounds, Had, now)
  PROVE  RInv'
<1>T. TypeOK /\ Rot \in Proc
  BY AtHand DEF ConsistentInv
<1>1. pc'[Rot] = "idle" /\ timer'[Rot] = FirstRow
  BY <1>T DEF End, TypeOK
<1>2. FirstRow.end = NoVal
  BY DEF FirstRow
<1>3. TimersInv'
  BY <1>1, FirstRowFits, HadSame DEF TimersInv
<1>4. AheadInv' /\ StageInv'
  BY <1>1, <1>2 DEF AheadInv, StageInv
<1> QED BY <1>3, <1>4, TablesSame DEF RInv

\* Without a boundary (rotator.py:567-599).
LEMMA CommitKeeps ==
  ASSUME ConsistentInv, RInv, Commit
  PROVE  RInv'
<1>1. row' \in {row, timer[Rot]} /\ End(Rot) /\ stage' = "none"
      /\ UNCHANGED <<rounds, jobs, points, subs, pending, late, skipped, now>>
  BY DEF Commit, RotCommit, Seen, tables
<1>2. Fits(row', rounds, Had, now)
  BY <1>1 DEF RInv, TimersInv
<1> QED BY <1>1, <1>2, EndKeeps

\* After an exception (rotator.py:600-605).
LEMMA CrashKeeps ==
  ASSUME ConsistentInv, RInv, Crash
  PROVE  RInv'
<1>1. row' = row /\ End(Rot) /\ stage' = "none" /\ UNCHANGED <<rounds, jobs, points, subs, pending, late, skipped, now>>
  BY DEF Crash, RotCrash, tables
<1>2. Fits(row', rounds, Had, now)
  BY <1>1 DEF RInv, TimersInv
<1> QED BY <1>1, <1>2, EndKeeps

\* finish_boundary opens a tick only behind one that is closed
\* (game_timer.py:141-163).
LEMMA FinishKeeps ==
  ASSUME ConsistentInv, RInv, Finish
  PROVE  RInv'
<1> DEFINE t == timer[Rot]
           u == Finished(t, now)
<1>T. now \in Nat /\ Good(t) /\ t.tick \in Nat
  BY AtHand
<1>1. /\ row' = u /\ u.tick <= MaxTick /\ pc[Rot] = "finishing" /\ End(Rot) /\ stage' = "none"
      /\ UNCHANGED <<rounds, jobs, points, subs, pending, late, skipped, now>>
  BY DEF Finish, RotFinish, tables
<1>2. Closed(t.tick, rounds, Had, now) /\ Fits(t, rounds, Had, now) /\ RoundsOK(rounds, now)
  BY <1>1 DEF RInv, StageInv, TimersInv, TablesInv
<1>3. Good(u) /\ (Keeps(t, u) \/ Opens(u, now, t.tick + 1))
  BY <1>T, FinishedGood, FinishedMoves
<1> HIDE DEF t, u
<1>4. CASE Keeps(t, u)
  <2>1. Fits(u, rounds, Had, now)
    BY <1>T, <1>2, <1>3, <1>4, KeepsFits
  <2> QED BY <1>1, <2>1, EndKeeps
<1>5. CASE Opens(u, now, t.tick + 1)
  <2>1. t.tick + 1 <= MaxTick
    BY <1>1, <1>5 DEF Opens
  <2>2. Fits(u, rounds, Had, now)
    BY <1>T, <1>2, <1>5, <2>1, NextFits
  <2> QED BY <1>1, <2>2, EndKeeps
<1> QED BY <1>3, <1>4, <1>5

\* Together, one step per action of RNext: as long as no update of the row has
\* been lost.
LEMMA RInvNext == ConsistentInv /\ (lost \/ RInv) /\ [RNext]_allVars => (lost \/ RInv)'
<1> SUFFICES ASSUME ConsistentInv, lost \/ RInv, [RNext]_allVars, ~lost' PROVE RInv'
  OBVIOUS
<1>L. RInv
  BY DEF RNext, RotatorStep, RunScore, RunJobs, BeginSubmit, Accept, Refuse, Request, Load, Sync, Boundary,
     Reload, Commit, Finish, Crash, allVars
<1>1. CASE RunScore
  BY <1>1, <1>L, RunScoreKeeps
<1>2. CASE RunJobs
  BY <1>2, <1>L, RunJobsKeeps
<1>3. CASE BeginSubmit \/ \E s \in pending : Accept(s) \/ Refuse(s)
  BY <1>3, <1>L, AcceptKeeps, PendingKeeps
<1>4. CASE Elapse /\ UNCHANGED <<tables, stage, lost>>
  BY <1>4, <1>L, ElapseKeeps
<1>5. ASSUME NEW a \in Api, Request(a) PROVE RInv'
  BY <1>5, <1>L, RequestKeeps
<1>6. CASE Load
  BY <1>6, <1>L, LoadKeeps
<1>7. CASE Sync
  BY <1>7, <1>L, SyncKeeps
<1>8. CASE Boundary
  BY <1>8, <1>L, BoundaryKeeps
<1>9. CASE Reload
  BY <1>9, <1>L, ReloadKeeps
<1>10. CASE Commit
  BY <1>10, <1>L, CommitKeeps
<1>11. CASE Finish
  BY <1>11, <1>L, FinishKeeps
<1>12. CASE Crash
  BY <1>12, <1>L, CrashKeeps
<1>13. CASE UNCHANGED allVars
  BY <1>13, <1>L, HadSame DEF allVars, vars, tables, RInv, TablesInv, TimersInv, AheadInv, StageInv
<1> QED
  BY <1>1, <1>2, <1>3, <1>4, <1>5, <1>6, <1>7, <1>8, <1>9, <1>10, <1>11, <1>12, <1>13
  DEF RNext, RotatorStep

\* The invariants of the timer hold here too, and RInv until an update is lost.
LEMMA RInvAlways == RSpec => [](ConsistentInv /\ (lost \/ RInv))
<1> DEFINE All == ConsistentInv /\ (lost \/ RInv)
<1>1. RInit => All
  BY ConsistentInvInit, RInvInit DEF RInit
<1>2. All /\ [RNext]_allVars => All'
  BY StepIsTimerStep, ConsistentInvNext, RInvNext
<1> QED
  BY <1>1, <1>2, PTL DEF RSpec

-----------------------------------------------------------------------------
(* Types and totals need no more than this of the row, lost updates or     *)
(* not: no object's tick is beyond the bound, and one of the rounds was    *)
(* counted last.                                                           *)

HasLast(rs) ==
  Rounds(rs) = {} \/ \E q \in Rounds(rs) : \A r \in Rounds(rs) : rs[r].tick <= rs[q].tick

TypesInv ==
  /\ TablesOK /\ IsFiniteSet(subs) /\ HasLast(rounds)
  /\ row.tick <= MaxTick /\ \A p \in Proc : timer[p].tick <= MaxTick
  /\ stage = "scored" => timer[Rot].tick \in Rounds(rounds) /\ pc[Rot] \in {"synced", "boundary"}
  /\ pc[Rot] = "boundary" => BoundaryReady(timer[Rot], now)

\* The empty tables have the types.
LEMMA TypesInvInit == RInit => TypesInv
<1> SUFFICES ASSUME RInit PROVE TypesInv
  OBVIOUS
<1>1. Rounds(rounds) = {} /\ FirstRow.tick = 0
  BY DEF RInit, Rounds, FirstRow
<1>2. pc[Rot] = "idle" /\ \A p \in Proc : timer[p] = FirstRow
  BY DEF RInit, Init, Proc
<1>3. TablesOK /\ IsFiniteSet(subs)
  BY FS_EmptySet DEF RInit, TablesOK
<1> QED BY <1>1, <1>2, <1>3, TimeAssumption DEF RInit, Init, TypesInv, HasLast

\* The number given to a new round is behind all others (rotator.py:62-81).
LEMMA LastIsLast ==
  ASSUME rounds \in [Ticks -> Round \cup {NoVal}], HasLast(rounds)
  PROVE  LastRoundTick \in Nat /\ \A r \in Rounds(rounds) : rounds[r].tick <= LastRoundTick
<1> DEFINE ids == {0} \cup {rounds[r].tick : r \in Rounds(rounds)}
<1>1. \A r \in Rounds(rounds) : rounds[r].tick \in Nat \ {0}
  BY DEF Rounds, Round
<1>2. \E k \in ids : \A l \in ids : l <= k
  <2>1. CASE Rounds(rounds) = {}
    BY <2>1
  <2>2. CASE Rounds(rounds) # {}
    <3>1. PICK q \in Rounds(rounds) : \A r \in Rounds(rounds) : rounds[r].tick <= rounds[q].tick
      BY <2>2 DEF HasLast
    <3>2. rounds[q].tick \in ids /\ \A l \in ids : l <= rounds[q].tick
      BY <1>1, <3>1
    <3> QED BY <3>2
  <2> QED BY <2>1, <2>2
<1>3. LastRoundTick = CHOOSE k \in ids : \A l \in ids : l <= k
  BY DEF LastRoundTick
<1> HIDE DEF ids
<1>4. LastRoundTick \in ids /\ \A l \in ids : l <= LastRoundTick
  BY <1>2, <1>3
<1> QED BY <1>1, <1>4 DEF ids

\* The first transaction of a boundary run (rotator.py:62-81, 429-529).
LEMMA RunScoreTypes ==
  ASSUME ConsistentInv, TypesInv, RunScore
  PROVE  TypesInv'
<1> DEFINE t == timer[Rot]
           rs == EnsureRound(t.tick, t)
           new == [tick |-> LastRoundTick + 1, start |-> t.start, end |-> t.end]
<1>U. UNCHANGED <<row, lock, now, pc, timer, req, jobs, subs, pending, late, lost>> /\ rounds' = rs /\ stage' = "scored"
  BY DEF RunScore, vars
<1>1. pc[Rot] \in {"synced", "boundary"} /\ t.tick >= 1 /\ t.end # NoVal
  BY DEF RunScore, NeedsJobs, BoundaryReady, TypesInv
<1>2. /\ t.tick \in Ticks /\ t.start \in Nat /\ t.end \in Nat
      /\ rounds \in [Ticks -> Round \cup {NoVal}] /\ points \in [Ticks -> Nat \cup {NoVal}]
  BY <1>1, AtHand, TimeAssumption DEF TypesInv, TablesOK, Ticks
<1>3. LastRoundTick \in Nat /\ \A r \in Rounds(rounds) : rounds[r].tick <= LastRoundTick
  BY <1>2, LastIsLast DEF TypesInv
<1>4. new \in Round
  BY <1>2, <1>3 DEF Round
<1>5. \/ rs = rounds
      \/ rs = [rounds EXCEPT ![t.tick] = new]
  BY DEF EnsureRound
<1>R. t.tick \in Rounds(rs)
  BY <1>2, <1>4, RotatorAssumption DEF EnsureRound, Rounds
<1>6. rs \in [Ticks -> Round \cup {NoVal}]
  BY <1>2, <1>4, <1>5
<1>7. new.tick = LastRoundTick + 1
  OBVIOUS
<1> HIDE DEF new, t, rs
<1>8. HasLast(rs)
  <2>1. CASE rs = [rounds EXCEPT ![t.tick] = new]
    <3>1. rs[t.tick] = new /\ \A r \in Ticks \ {t.tick} : rs[r] = rounds[r]
      BY <1>2, <2>1
    <3>2. t.tick \in Rounds(rs)
      BY <1>2, <1>4, <3>1, RotatorAssumption DEF Rounds
    <3>3. \A r \in Rounds(rs) : r = t.tick \/ (r \in Rounds(rounds) /\ rs[r] = rounds[r])
      BY <3>1 DEF Rounds
    <3>4. \A r \in Rounds(rounds) : rounds[r].tick \in Nat
      BY <1>2 DEF Rounds, Round
    <3>5. \A r \in Rounds(rs) : rs[r].tick <= rs[t.tick].tick
      BY <1>3, <1>7, <3>1, <3>3, <3>4
    <3> QED BY <3>2, <3>5 DEF HasLast
  <2> QED BY <1>5, <2>1 DEF TypesInv
<1>9. points' \in [Ticks -> Nat \cup {NoVal}]
  <2> DEFINE j == rs[t.tick].tick - 1
             c == Cardinality(Window(rs, subs, j)) + Carried(j)
  <2>1. CASE j >= 1 /\ points' = Scored(rs, j)
    <3>1. points' = [points EXCEPT ![j] = c]
      BY <2>1 DEF Scored
    <3>2. Cardinality(Window(rs, subs, j)) \in Nat
      BY FS_Subset, FS_CardinalityType DEF Window, TypesInv
    <3>3. ASSUME j \in Ticks PROVE c \in Nat
      BY <1>2, <3>2, <3>3, CarriedType
    <3> HIDE DEF j, c
    <3> QED BY <1>2, <3>1, <3>3
  <2>2. CASE points' = points
    BY <1>2, <2>2
  <2>3. (j >= 1 /\ points' = Scored(rs, j)) \/ points' = points
    BY DEF RunScore, Due, rs, t, j
  <2> QED BY <2>1, <2>2, <2>3
<1>S. skipped' \subseteq Nat
  <2>1. rs[t.tick].tick - 1 \in Nat
    BY <1>6, <1>R DEF Rounds, Round
  <2>2. skipped' \subseteq skipped \cup {rs[t.tick].tick - 1}
    BY DEF RunScore, rs, t
  <2> QED BY <2>1, <2>2 DEF TypesInv, TablesOK
<1>10. TablesOK'
  BY <1>U, <1>6, <1>9, <1>S DEF TypesInv, TablesOK
<1> QED BY <1>U, <1>1, <1>R, <1>8, <1>10 DEF TypesInv, t

\* A tick that is opened is 1, or finish_boundary's (game_timer.py:111-163).
LEMMA TimersBounded ==
  ASSUME ConsistentInv, TypesInv, [RNext]_allVars
  PROVE  row'.tick <= MaxTick /\ \A p \in Proc : timer'[p].tick <= MaxTick
<1> USE DEF Proc
<1>T. /\ TypeOK /\ now \in Nat /\ Rot \in Proc /\ \A p \in Proc : Good(timer[p])
      /\ row.tick <= MaxTick /\ \A p \in Proc : timer[p].tick <= MaxTick
      /\ FirstRow.tick <= MaxTick /\ Seen(Rot).tick <= MaxTick
  BY AtHand, SeenGood, TimeAssumption DEF ConsistentInv, TypesInv, FirstRow, Seen
<1>1. ASSUME NEW a \in Api, Request(a)
      PROVE  row'.tick <= MaxTick /\ \A p \in Proc : timer'[p].tick <= MaxTick
  <2>1. \/ row' = row
        \/ row' = Result(req[a], timer[a], now)
    BY <1>1 DEF Request, ApiLoad, ApiUpdate, ApiRollback
  <2>2. Result(req[a], timer[a], now).tick <= MaxTick
    <3>1. req[a] \in [op : Ops, body : Body] /\ Good(timer[a]) /\ timer[a].tick <= MaxTick
      BY <1>T DEF TypeOK
    <3>2. \/ Keeps(timer[a], Result(req[a], timer[a], now))
          \/ Opens(Result(req[a], timer[a], now), now, 1)
      BY <1>T, <3>1, ResultMoves
    <3> QED BY <3>1, <3>2, RotatorAssumption, TimeAssumption DEF Keeps, Opens
  <2>3. \/ timer' = [timer EXCEPT ![a] = row]
        \/ timer' = [timer EXCEPT ![a] = FirstRow]
    BY <1>1 DEF Request, ApiLoad, ApiUpdate, ApiRollback, End
  <2>4. timer \in [Proc -> Timer]
    BY <1>T DEF TypeOK
  <2>5. \A p \in Proc : timer'[p] \in {timer[p], row, FirstRow}
    BY <2>3, <2>4
  <2> QED BY <1>T, <2>1, <2>2, <2>5
<1>2. ASSUME RotatorStep \/ Crash
      PROVE  row'.tick <= MaxTick /\ \A p \in Proc : timer'[p].tick <= MaxTick
  <2>1. \/ row' \in {row, Seen(Rot)}
        \/ row' = Finished(timer[Rot], now) /\ Finished(timer[Rot], now).tick <= MaxTick
    BY <1>2 DEF RotatorStep, Crash, Load, Sync, RunScore, RunJobs, Commit, Boundary, Reload, Finish,
         RotLoad, RotSync, RotCommit, RotBoundary, RotReload, RotFinish, RotCrash, vars
  <2>2. \/ timer' = timer
        \/ timer' = [timer EXCEPT ![Rot] = row]
        \/ timer' = [timer EXCEPT ![Rot] = FirstRow]
        \/ timer' = [timer EXCEPT ![Rot] = Seen(Rot)]
        \/ timer' = [timer EXCEPT ![Rot] = Synced(timer[Rot], now)]
    BY <1>2 DEF RotatorStep, Crash, Load, Sync, RunScore, RunJobs, Commit, Boundary, Reload, Finish,
         RotLoad, RotSync, RotCommit, RotBoundary, RotReload, RotFinish, RotCrash, vars, End
  <2>3. Synced(timer[Rot], now).tick <= MaxTick
    BY <1>T, SyncedMoves, RotatorAssumption DEF Opens
  <2>4. timer \in [Proc -> Timer]
    BY <1>T DEF TypeOK
  <2>5. \A p \in Proc : timer'[p] \in {timer[p], row, FirstRow, Seen(Rot), Synced(timer[Rot], now)}
    BY <2>2, <2>4
  <2> QED BY <1>T, <2>1, <2>3, <2>5
<1>3. CASE UNCHANGED <<row, timer>>
  BY <1>T, <1>3
<1> QED BY <1>1, <1>2, <1>3 DEF RNext, BeginSubmit, Accept, Refuse, Elapse, allVars, vars

\* The types are kept by every step.
LEMMA TypesInvNext == ConsistentInv /\ TypesInv /\ [RNext]_allVars => TypesInv'
<1> SUFFICES ASSUME ConsistentInv, TypesInv, [RNext]_allVars PROVE TypesInv'
  OBVIOUS
<1>T. TypeOK /\ now \in Nat /\ Rot \in Proc /\ Good(timer[Rot])
  BY AtHand DEF ConsistentInv
<1>B. row'.tick <= MaxTick /\ \A p \in Proc : timer'[p].tick <= MaxTick
  BY TimersBounded
<1>1. CASE RunScore
  BY <1>1, RunScoreTypes
<1>2. CASE RunJobs
  <2>1. /\ UNCHANGED <<row, lock, now, pc, timer, req, rounds, points, subs, pending, late, skipped, lost>>
        /\ jobs' = jobs \cup {rounds[timer[Rot].tick].tick} /\ timer[Rot].tick \in Rounds(rounds)
        /\ stage' \in {"ran", "done"}
    BY <1>2 DEF RunJobs, vars, TypesInv
  <2>2. rounds[timer[Rot].tick].tick \in Nat \ {0}
    BY <2>1 DEF TypesInv, TablesOK, Rounds, Round
  <2>3. TablesOK'
    BY <2>1, <2>2 DEF TypesInv, TablesOK
  <2> QED BY <2>1, <2>3 DEF TypesInv
<1>3. CASE BeginSubmit \/ \E s \in pending : Accept(s) \/ Refuse(s)
  <2>1. /\ UNCHANGED <<row, lock, now, pc, timer, req, rounds, jobs, points, stage, lost, skipped>>
        /\ \/ subs' = subs /\ late' = late
           \/ \E s \in pending : subs' = subs \cup {s} /\ late' \subseteq late \cup {s}
        /\ pending' \subseteq pending \cup {now}
    BY <1>3 DEF BeginSubmit, Accept, Refuse, vars
  <2>2. subs' \subseteq Nat /\ pending' \subseteq Nat /\ late' \subseteq subs'
    BY <1>T, <2>1 DEF TypesInv, TablesOK
  <2>F. IsFiniteSet(subs')
    BY <2>1, FS_AddElement DEF TypesInv
  <2>3. TablesOK'
    BY <2>1, <2>2 DEF TypesInv, TablesOK
  <2> QED BY <2>1, <2>F, <2>3 DEF TypesInv
<1>4. CASE Elapse /\ UNCHANGED <<tables, stage, lost>>
  <2>1. UNCHANGED <<row, lock, pc, timer, req, rounds, jobs, points, subs, pending, late, skipped, stage, lost>> /\ now' = now + 1
    BY <1>4 DEF Elapse, tables
  <2>2. TablesOK'
    BY <2>1 DEF TypesInv, TablesOK
  <2>3. BoundaryReady(timer[Rot], now) => BoundaryReady(timer[Rot], now + 1)
    BY <1>T DEF BoundaryReady, Good, Timer, OptNat
  <2> QED BY <2>1, <2>2, <2>3 DEF TypesInv
<1>5. CASE Load \/ Sync \/ Commit \/ Boundary \/ Reload \/ Finish \/ Crash
  <2>1. UNCHANGED <<rounds, jobs, points, subs, pending, late, skipped, now>> /\ lost' \in BOOLEAN
    BY <1>5 DEF Load, Sync, Commit, Boundary, Reload, Finish, Crash, RotLoad, RotSync, RotCommit,
         RotBoundary, RotReload, RotFinish, RotCrash, tables, TypesInv, TablesOK
  <2>2. stage' \in {"none", "ran", "done"}
    BY <1>5 DEF Load, Sync, Commit, Boundary, Reload, Finish, Crash, RotLoad, RotSync,
         tables, TypesInv, TablesOK
  <2>3. pc'[Rot] = "boundary" => BoundaryReady(timer'[Rot], now)
    BY <1>T, <1>5 DEF Load, Sync, Commit, Boundary, Reload, Finish, Crash, RotLoad, RotSync, RotCommit,
         RotBoundary, RotReload, RotFinish, RotCrash, End, TypeOK
  <2>4. TablesOK'
    BY <2>1, <2>2 DEF TypesInv, TablesOK
  <2> QED BY <1>B, <2>1, <2>2, <2>3, <2>4 DEF TypesInv
<1>6. ASSUME NEW a \in Api, Request(a)
      PROVE  TypesInv'
  <2>1. /\ UNCHANGED <<rounds, jobs, points, subs, pending, late, skipped, stage, now>> /\ lost' \in BOOLEAN
        /\ pc'[Rot] = pc[Rot] /\ timer'[Rot] = timer[Rot]
    BY <1>6, <1>T, ProcAssumption
    DEF Proc, Request, ApiLoad, ApiUpdate, ApiRollback, End, tables, TypeOK, TypesInv, TablesOK
  <2>2. TablesOK'
    BY <2>1 DEF TypesInv, TablesOK
  <2> QED BY <1>B, <2>1, <2>2 DEF TypesInv
<1>7. CASE UNCHANGED allVars
  BY <1>7 DEF allVars, vars, tables, TypesInv, TablesOK
<1> QED BY <1>1, <1>2, <1>3, <1>4, <1>5, <1>6, <1>7 DEF RNext, RotatorStep

\* The tables keep their types, however transactions overlap
\* (rotator.py:62-81, 429-529).
THEOREM TablesKeepTypes == RSpec => []TablesOK
<1>1. TypesInv => TablesOK
  BY DEF TypesInv
<1>2. RInit => ConsistentInv /\ TypesInv
  BY ConsistentInvInit, TypesInvInit DEF RInit
<1>3. ConsistentInv /\ TypesInv /\ [RNext]_allVars => (ConsistentInv /\ TypesInv)'
  BY StepIsTimerStep, ConsistentInvNext, TypesInvNext
<1> QED BY <1>1, <1>2, <1>3, PTL DEF RSpec

-----------------------------------------------------------------------------
(* Totals, whatever updates of the row are lost.                           *)

\* Rounds and submissions come, and none goes.
LEMMA RowsStay ==
  ASSUME TypesInv, [RNext]_allVars
  PROVE  /\ subs \subseteq subs'
         /\ Rounds(rounds) \subseteq Rounds(rounds')
         /\ \A q \in Rounds(rounds) : rounds'[q] = rounds[q]
<1>1. CASE RunScore
  <2> DEFINE r == timer[Rot].tick
             new == [tick |-> LastRoundTick + 1, start |-> timer[Rot].start, end |-> timer[Rot].end]
  <2>1. subs' = subs /\ rounds' = EnsureRound(r, timer[Rot])
    BY <1>1 DEF RunScore
  <2>2. rounds' = rounds \/ (rounds[r] = NoVal /\ rounds' = [rounds EXCEPT ![r] = new])
    BY <2>1 DEF EnsureRound
  <2> HIDE DEF r, new
  <2>3. rounds \in [Ticks -> Round \cup {NoVal}]
    BY DEF TypesInv, TablesOK
  <2>4. \A q \in Rounds(rounds) : rounds'[q] = rounds[q]
    BY <2>2, <2>3 DEF Rounds
  <2> QED BY <2>1, <2>4 DEF Rounds
<1>2. CASE rounds' = rounds /\ subs \subseteq subs'
  BY <1>2
<1> QED
  BY <1>1, <1>2 DEF RNext, RotatorStep, Load, Sync, RunJobs, Commit, Boundary, Reload, Finish, Crash,
     BeginSubmit, Accept, Refuse, Request, tables, allVars

\* So a window holds ever more.
LEMMA WindowsGrow ==
  ASSUME TypesInv, TypesInv', [RNext]_allVars, NEW k
  PROVE  /\ Cardinality(Window(rounds, subs, k)) \in Nat /\ Cardinality(Window(rounds', subs', k)) \in Nat
         /\ Cardinality(Window(rounds, subs, k)) <= Cardinality(Window(rounds', subs', k))
<1>1. IsFiniteSet(subs')
  BY DEF TypesInv
<1> QED BY <1>1, RowsStay, WindowGrows

\* A step leaves the totals alone or writes the one of a tick, from the rows as
\* they are then (rotator.py:429-459).
LEMMA PointsWritten ==
  ASSUME TypesInv, [RNext]_allVars, points' # points
  PROVE  \E j \in Ticks : /\ points'[j] = Cardinality(Window(rounds', subs', j)) + Carried(j)
                          /\ \A k \in Ticks \ {j} : points'[k] = points[k]
<1>1. RunScore
  BY DEF RNext, RotatorStep, Load, Sync, RunJobs, Commit, Boundary, Reload, Finish, Crash,
     BeginSubmit, Accept, Refuse, Request, tables, allVars
<1>2. PICK j : points' = Scored(rounds', j) /\ subs' = subs
  BY <1>1 DEF RunScore
<1> DEFINE c == Cardinality(Window(rounds', subs', j)) + Carried(j)
<1>3. points' = [points EXCEPT ![j] = c]
  BY <1>2 DEF Scored
<1> HIDE DEF c
<1>4. points \in [Ticks -> Nat \cup {NoVal}]
  BY DEF TypesInv, TablesOK
<1>5. j \in Ticks
  BY <1>3, <1>4
<1> QED BY <1>3, <1>4, <1>5 DEF c

\* A total is rewritten to no less, as its window has not shrunk and what is
\* carried over is the same.
GrowStep ==
  \A k \in Ticks : points[k] # NoVal => points'[k] # NoVal /\ points'[k] >= points[k]

LEMMA PointsGrow == TypesInv /\ TypesInv' /\ PointsEarned /\ [RNext]_allVars => GrowStep
<1> SUFFICES ASSUME TypesInv, TypesInv', PointsEarned, [RNext]_allVars, NEW k \in Ticks, points[k] # NoVal
             PROVE  points'[k] # NoVal /\ points'[k] >= points[k]
  BY DEF GrowStep
<1>1. points \in [Ticks -> Nat \cup {NoVal}] /\ points[k] \in Nat
  BY DEF TypesInv, TablesOK
<1>2. CASE points'[k] = points[k]
  BY <1>1, <1>2
<1>3. CASE points'[k] # points[k]
  <2>1. points'[k] = Cardinality(Window(rounds', subs', k)) + Carried(k)
    BY <1>3, PointsWritten
  <2>2. points[k] <= Cardinality(Window(rounds, subs, k)) + Carried(k)
    BY DEF PointsEarned
  <2>3. Carried(k) \in Nat
    BY <1>1, CarriedType
  <2> QED BY <1>1, <2>1, <2>2, <2>3, WindowsGrow, TimeAssumption
<1> QED BY <1>2, <1>3

\* And so what is carried over grows too, and with the window what a tick may
\* have.
LEMMA EarnedNext == TypesInv /\ TypesInv' /\ PointsEarned /\ [RNext]_allVars => PointsEarned'
<1> SUFFICES ASSUME TypesInv, TypesInv', PointsEarned, [RNext]_allVars, NEW k \in Ticks, points'[k] # NoVal
             PROVE  points'[k] <= Cardinality(Window(rounds', subs', k)) + Carried(k)'
  BY DEF PointsEarned
<1>1. /\ points \in [Ticks -> Nat \cup {NoVal}]
      /\ points' \in [Ticks -> Nat \cup {NoVal}]
  BY DEF TypesInv, TablesOK
<1>2. Carried(k) \in Nat /\ Carried(k)' \in Nat /\ Carried(k) <= Carried(k)'
  <2>1. k > 1 => k - 1 \in Ticks
    BY TimeAssumption DEF Ticks
  <2> QED BY <1>1, <2>1, PointsGrow DEF GrowStep, Carried
<1>3. /\ Cardinality(Window(rounds, subs, k)) \in Nat /\ Cardinality(Window(rounds', subs', k)) \in Nat
      /\ Cardinality(Window(rounds, subs, k)) <= Cardinality(Window(rounds', subs', k))
  BY WindowsGrow
<1>4. CASE points'[k] = points[k]
  BY <1>1, <1>2, <1>3, <1>4 DEF PointsEarned
<1>5. CASE points'[k] # points[k]
  <2>1. points'[k] = Cardinality(Window(rounds', subs', k)) + Carried(k)
    BY <1>5, PointsWritten
  <2> QED BY <1>2, <1>3, <2>1
<1> QED BY <1>4, <1>5

\* Both in every behaviour.
LEMMA EarnedAlways == RSpec => []PointsEarned /\ [][GrowStep]_allVars
<1> DEFINE All == ConsistentInv /\ TypesInv /\ PointsEarned
<1>1. RInit => All
  BY ConsistentInvInit, TypesInvInit DEF RInit, PointsEarned
<1>2. All /\ [RNext]_allVars => All' /\ GrowStep
  BY StepIsTimerStep, ConsistentInvNext, TypesInvNext, EarnedNext, PointsGrow
<1> QED BY <1>1, <1>2, PTL DEF RSpec

\* No total holds a submission that is in no window up to its tick, or one
\* twice, whatever updates of the row are lost and however often a tick is scored
\* (rotator.py:429-459, scoring.py:203-215).
THEOREM TotalsAreEarned == RSpec => []PointsEarned
  BY EarnedAlways, PTL

\* No total that is written is ever taken back or lowered, whatever updates of
\* the row are lost (rotator.py:429-459, README.md:69).
THEOREM TotalsOnlyGrow == RSpec => TotalsGrow
  BY EarnedAlways, PTL DEF TotalsGrow, GrowStep

-----------------------------------------------------------------------------
(* What follows from RInv.                                                 *)

\* The windows of the ticks up to k are the windows of these ticks' rows.
LEMMA UpToIsUnion ==
  ASSUME NEW n \in Nat, RoundsOK(rounds, n), NEW k \in Nat, NEW S
  PROVE  UpToTick(S, k) = Cardinality(UpTo(S, rounds, k))
<1>1. \A l \in 1..k : Window(rounds, S, l) =
        {s \in S : l \in Rounds(rounds) /\ rounds[l].start <= s /\ s < rounds[l].end}
  BY RoundTypes DEF Window
<1>2. UNION {Window(rounds, S, l) : l \in 1..k} = UpTo(S, rounds, k)
  BY <1>1 DEF UpTo
<1> QED BY <1>2 DEF UpToTick

\* The round of a tick has its number for its id, however often boundary runs
\* fail and are made again, until an update of the row is lost
\* (rotator.py:62-81, 567-599).
THEOREM RoundsAreTicks == RSpec => []RoundIdIsTick
<1>1. lost \/ RInv => RoundIdIsTick
  BY DEF RInv, TablesInv, RoundsOK, RoundIdIsTick
<1> QED BY <1>1, RInvAlways, PTL

\* Until then every tick but the last two has been scored or skipped, for nothing
\* opens a tick whose boundary run before has not ended (rotator.py:500-529).
THEOREM NoTickIsPassedOver == RSpec => []PassedIsScored
<1>1. lost \/ RInv => PassedIsScored
  BY DEF RInv, TablesInv, HadOK, Had, PassedIsScored
<1> QED BY <1>1, RInvAlways, PTL

\* Nor is a submission in two windows until then (rotator.py:233-250).
THEOREM WindowsStayDisjoint == RSpec => []WindowsDisjoint
<1>1. ConsistentInv /\ (lost \/ RInv) => WindowsDisjoint
  <2> SUFFICES ASSUME ConsistentInv, RInv, NEW r \in Rounds(rounds), NEW q \in Rounds(rounds), r < q
               PROVE  rounds[r].end <= rounds[q].start
    BY DEF WindowsDisjoint
  <2>1. RoundsOK(rounds, now) /\ r \in 1..q - 1
    BY AtHand, RoundTypes DEF RInv, TablesInv
  <2> QED BY <2>1 DEF RoundsOK
<1> QED BY <1>1, RInvAlways, PTL

\* Until then, and until a tick is skipped, every total counts each submission of
\* its windows once, whatever was scored again, and misses late ones only
\* (rotator.py:429-459, scoring.py:203-215).
THEOREM PointsStayExact == RSpec => []PointsExact
<1>1. ConsistentInv /\ (lost \/ RInv) => PointsExact
  <2> SUFFICES ASSUME ConsistentInv, RInv, skipped = {}, NEW k \in Ticks, points[k] # NoVal
               PROVE  UpToTick(subs \ late, k) <= points[k] /\ points[k] <= UpToTick(subs, k)
    BY DEF PointsExact
  <2>1. k \in Nat /\ now \in Nat /\ RoundsOK(rounds, now) /\ PointsOK(points, rounds, subs, late)
    BY AtHand DEF RInv, TablesInv, Ticks
  <2> QED BY <2>1, UpToIsUnion DEF PointsOK
<1> QED BY <1>1, RInvAlways, PTL

\* What is shown is the total of the last tick that is scored.
LEMMA ShownIsLast ==
  ASSUME NEW ps \in [Ticks -> Nat \cup {NoVal}],
         NEW m \in 0..MaxTick, {k \in Ticks : ps[k] # NoVal} = 1..m
  PROVE  Shown(ps) \in Nat /\ Shown(ps) = IF m = 0 THEN 0 ELSE ps[m]
<1> DEFINE ticks == {k \in Ticks : ps[k] # NoVal}
<1>1. m \in Nat
  BY TimeAssumption
<1>2. Shown(ps) = IF ticks = {} THEN 0 ELSE ps[CHOOSE k \in ticks : \A l \in ticks : l <= k]
  BY DEF Shown
<1>3. CASE m = 0
  BY <1>1, <1>2, <1>3
<1>4. CASE m # 0
  <2>1. ticks = 1..m /\ m \in ticks /\ \A l \in ticks : l <= m
    BY <1>1, <1>4
  <2>2. \A k \in ticks : (\A l \in ticks : l <= k) => k = m
    BY <1>1, <2>1
  <2>3. ps[m] \in Nat
    BY <1>1, <2>1
  <2> HIDE DEF ticks
  <2>4. (CHOOSE k \in ticks : \A l \in ticks : l <= k) = m
    BY <2>1, <2>2
  <2> QED BY <1>2, <1>4, <2>1, <2>3, <2>4
<1> QED BY <1>3, <1>4

\* What is shown grows with the totals, and when the next tick is scored, which
\* holds the one before.
DecayStep == lost' \/ skipped' # {} \/ Shown(points') >= Shown(points)

LEMMA ShownGrows ==
  ASSUME TypesInv, TypesInv', RInv, GrowStep, [RNext]_allVars, lost' \/ RInv'
  PROVE  DecayStep
<1> SUFFICES ASSUME RInv', skipped' = {} PROVE Shown(points') >= Shown(points)
  BY DEF DecayStep
<1>0. skipped = {}
  BY DEF RNext, RotatorStep, RunScore, RunJobs, BeginSubmit, Accept, Refuse, Request, Load, Sync, Boundary,
     Reload, Commit, Finish, Crash, allVars, tables
<1>1. /\ points \in [Ticks -> Nat \cup {NoVal}]
      /\ points' \in [Ticks -> Nat \cup {NoVal}]
  BY DEF TypesInv, TablesOK
<1>2. PICK m \in 0..MaxTick : {k \in Ticks : points[k] # NoVal} = 1..m
  BY <1>0 DEF RInv, TablesInv, PointsOK
<1>3. PICK l \in 0..MaxTick : {k \in Ticks : points'[k] # NoVal} = 1..l
  BY DEF RInv, TablesInv, PointsOK
<1>4. m \in Nat /\ l \in Nat
  BY TimeAssumption
<1>5. /\ Shown(points) \in Nat /\ Shown(points) = IF m = 0 THEN 0 ELSE points[m]
      /\ Shown(points') \in Nat /\ Shown(points') = IF l = 0 THEN 0 ELSE points'[l]
  BY <1>1, <1>2, <1>3, ShownIsLast
<1>6. CASE m = 0
  BY <1>5, <1>6
<1>7. CASE m # 0 /\ l = m
  <2>1. m \in Ticks /\ points[m] # NoVal
    BY <1>2, <1>4, <1>7
  <2> QED BY <1>5, <1>7, <2>1 DEF GrowStep
<1>8. CASE m # 0 /\ l # m
  <2>1. m \in Ticks /\ points[m] # NoVal /\ points'[m] # NoVal
    BY <1>2, <1>4, <1>8 DEF GrowStep
  <2>2. l > m
    BY <1>3, <1>4, <1>8, <2>1
  <2>3. l \in Ticks /\ points'[l] # NoVal /\ points[l] = NoVal
    BY <1>2, <1>3, <1>4, <2>2
  <2>4. PICK j \in Ticks : /\ points'[j] = Cardinality(Window(rounds', subs', j)) + Carried(j)
                           /\ \A k \in Ticks \ {j} : points'[k] = points[k]
    BY <2>3, PointsWritten
  <2>5. j = l
    BY <2>3, <2>4
  <2>6. l = m + 1
    <3> SUFFICES ASSUME l # m + 1 PROVE FALSE
      OBVIOUS
    <3>1. l - 1 \in Ticks /\ l - 1 # j /\ points'[l - 1] # NoVal
      BY <1>3, <1>4, <1>8, <2>2, <2>5, TimeAssumption DEF Ticks
    <3>2. l - 1 \in 1..m
      BY <1>2, <2>4, <3>1
    <3> QED BY <1>4, <2>2, <3>2
  <2>7. Carried(l) = points[m] /\ points[m] \in Nat
    BY <1>1, <1>4, <1>8, <2>1, <2>6 DEF Carried
  <2> QED BY <1>5, <1>8, <2>2, <2>4, <2>5, <2>7, WindowsGrow
<1> QED BY <1>6, <1>7, <1>8

\* Until an update of the row is lost or a tick is skipped, no total that is shown
\* ever falls (wiki_api.py:121).
THEOREM TotalsNeverDecay == RSpec => NeverDecays
<1> DEFINE All == ConsistentInv /\ TypesInv /\ PointsEarned /\ (lost \/ RInv)
<1>1. RInit => All
  BY ConsistentInvInit, TypesInvInit, RInvInit DEF RInit, PointsEarned
<1>2. All /\ [RNext]_allVars => All'
  BY StepIsTimerStep, ConsistentInvNext, TypesInvNext, EarnedNext, RInvNext
<1>3. [RNext]_allVars /\ lost => lost'
  BY DEF RNext, RotatorStep, RunScore, RunJobs, BeginSubmit, Accept, Refuse, Request, Load, Sync, Boundary,
     Reload, Commit, Finish, Crash, allVars
<1>4. All /\ All' /\ [RNext]_allVars => DecayStep
  BY <1>3, PointsGrow, ShownGrows DEF DecayStep
<1> QED BY <1>1, <1>2, <1>4, PTL DEF RSpec, NeverDecays, DecayStep

=============================================================================

----------------------------- MODULE GameTimer -----------------------------
(***************************************************************************)
(* The single game_state row, the GameTimer object that every handler      *)
(* loads from it, and the transactions that read and rewrite it            *)
(* (platform/control/app/game_timer.py, game_api.py, rotator.py).          *)
(*                                                                         *)
(* A transaction runs under READ COMMITTED.  It INSERTs ON CONFLICT DO     *)
(* NOTHING (ensure_row), which waits for a transaction that has already    *)
(* updated the row, SELECTs the committed row into a GameTimer, computes,  *)
(* and writes EVERY column back: between the SELECT and the UPDATE nothing *)
(* stops another transaction from committing.  A request handler is two    *)
(* steps (load, then update and commit); the rotator keeps the row locked  *)
(* from its sync to its commit, across the whole boundary work.            *)
(***************************************************************************)
EXTENDS Naturals

CONSTANTS
  Api,            \* concurrently running request handlers
  Rot,            \* the rotator process
  Rotation,       \* ROTATION_SECONDS
  AutoStart,      \* GAME_AUTO_START
  Schedules,      \* bodies of POST /game/schedule: [startAt, stopAfter, freeze]
  NoVal,          \* SQL NULL / Python None
  MaxTime,        \* bound on the clock
  MaxTick         \* bound on the tick counter

Proc == Api \cup {Rot}
OptNat == Nat \cup {NoVal}
CTFState == {"STOPPED", "SUSPENDED", "RUNNING"}
Ops == {"start", "pause", "stop", "schedule", "status"}

Timer == [state : CTFState, desired : CTFState, tick : Nat,
          start : OptNat, end : OptNat,
          startAt : OptNat, stopAfter : OptNat, freeze : OptNat]
ScheduleBody == [startAt : OptNat, stopAfter : OptNat, freeze : OptNat]
NoSchedule == [startAt |-> NoVal, stopAfter |-> NoVal, freeze |-> NoVal]

ASSUME ProcAssumption == Rot \notin Api /\ NoVal \notin Proc
ASSUME TimeAssumption == /\ Rotation \in Nat \ {0}
                         /\ MaxTime \in Nat
                         /\ MaxTick \in Nat
                         /\ NoVal \notin Nat
ASSUME ConfigAssumption == /\ AutoStart \in BOOLEAN
                           /\ Schedules \subseteq ScheduleBody

VARIABLES
  row,      \* the committed game_state row
  lock,     \* the process whose open transaction has updated the row, or NoVal
  now,      \* int(time.time())
  pc,       \* where each process is in its transaction
  timer,    \* the GameTimer object of each process; FirstRow when it has none
  req       \* what each handler was asked: [op, body]

vars == <<row, lock, now, pc, timer, req>>

-----------------------------------------------------------------------------
(* The methods of GameTimer, as functions of the object and the clock.     *)

\* The first insert of ensure_row.
FirstRow ==
  LET desired == IF AutoStart THEN "RUNNING" ELSE "STOPPED"
  IN [state |-> desired, desired |-> desired, tick |-> 0,
      start |-> NoVal, end |-> NoVal,
      startAt |-> NoVal, stopAfter |-> NoVal, freeze |-> NoVal]

OpenTick(t, n, k) ==
  [t EXCEPT !.tick = k, !.start = n, !.end = n + Rotation, !.state = "RUNNING"]

\* Mutant: a game that runs again starts again at tick 1.
SyncedAfresh(t, n) == IF t.state # "RUNNING" \/ t.tick < 1 THEN OpenTick(t, n, 1) ELSE t

\* Mutant: the current state is tested instead of the desired one.
ShouldRunByState(t, n) == t.state = "RUNNING" /\ (t.startAt # NoVal => n >= t.startAt)

\* The two early returns of sync_scheduled_start; without them it persists.
ShouldRun(t, n) ==
  /\ t.desired = "RUNNING"
  /\ t.startAt # NoVal => n >= t.startAt

Synced(t, n) ==
  IF t.tick < 1 THEN OpenTick(t, n, 1) ELSE [t EXCEPT !.state = "RUNNING"]

\* A paused or stopped tick has no times, and so never becomes ready.
BoundaryReady(t, n) ==
  /\ t.state = "RUNNING"
  /\ t.tick >= 1
  /\ t.start # NoVal
  /\ t.end # NoVal
  /\ n >= t.end

\* Mutant: the last tick is compared with > instead of >=.
FinishedOneLate(t, n) ==
  IF t.stopAfter # NoVal /\ t.tick > t.stopAfter
  THEN [t EXCEPT !.state = "STOPPED", !.desired = "STOPPED", !.start = NoVal, !.end = NoVal]
  ELSE OpenTick(t, n, t.tick + 1)

\* Mutant: only a stop ends the game at a boundary.
FinishedIgnoresPause(t, n) ==
  IF t.desired = "STOPPED"
  THEN [t EXCEPT !.state = "STOPPED", !.tick = 0, !.start = NoVal, !.end = NoVal]
  ELSE OpenTick(t, n, t.tick + 1)

Finished(t, n) ==
  IF t.desired # "RUNNING"
  THEN [t EXCEPT !.state = t.desired,
                 !.tick = IF t.desired = "STOPPED" THEN 0 ELSE @,
                 !.start = NoVal, !.end = NoVal]
  ELSE IF t.stopAfter # NoVal /\ t.tick >= t.stopAfter
  THEN [t EXCEPT !.state = "STOPPED", !.desired = "STOPPED",
                 !.start = NoVal, !.end = NoVal]
  ELSE OpenTick(t, n, t.tick + 1)

\* Mutant: a stopped game has no tick at all.
DesiredUnsetsTick(t, d) ==
  [t EXCEPT !.desired = d, !.state = d, !.start = NoVal, !.end = NoVal,
            !.tick = IF d = "STOPPED" THEN NoVal ELSE @]

\* Mutant: a stop leaves the times of the tick in place.
DesiredKeepsTimes(t, d) ==
  [t EXCEPT !.desired = d, !.state = IF d = "STOPPED" THEN d ELSE @,
            !.tick = IF d = "STOPPED" THEN 0 ELSE @]

Desired(t, d) ==
  CASE d = "STOPPED" ->
         [t EXCEPT !.desired = d, !.state = d, !.tick = 0, !.start = NoVal, !.end = NoVal]
    [] d = "SUSPENDED" ->
         [t EXCEPT !.desired = d, !.state = IF @ = "RUNNING" THEN @ ELSE d]
    [] OTHER ->
         [t EXCEPT !.desired = d,
                   !.state = IF @ = "STOPPED" /\ t.tick < 1 THEN d ELSE @]

\* Mutant: the body is assigned as it is, NULLs included.
ScheduledAssignsAll(t, b) ==
  [t EXCEPT !.startAt = b.startAt, !.stopAfter = b.stopAfter, !.freeze = b.freeze]

\* schedule() only assigns what the body sets: a value can never be cleared.
Scheduled(t, b) ==
  [t EXCEPT !.startAt   = IF b.startAt   = NoVal THEN @ ELSE b.startAt,
            !.stopAfter = IF b.stopAfter = NoVal THEN @ ELSE b.stopAfter,
            !.freeze    = IF b.freeze    = NoVal THEN @ ELSE b.freeze]

\* What the handler of an operation leaves in the row; start also syncs.
Result(r, t, n) ==
  CASE r.op = "start"    -> LET d == Desired(t, "RUNNING")
                            IN IF ShouldRun(d, n) THEN Synced(d, n) ELSE d
    [] r.op = "pause"    -> Desired(t, "SUSPENDED")
    [] r.op = "stop"     -> Desired(t, "STOPPED")
    [] r.op = "schedule" -> Scheduled(t, r.body)
    [] OTHER             -> Synced(t, n)

\* A status request (GET game, current_round, next_round) that does not have
\* to run the game updates nothing.
Updates(r, t, n) == r.op = "status" => ShouldRun(t, n)

-----------------------------------------------------------------------------

\* Between the SELECT of the row and the UPDATE computed from it.
InWindow(p) == pc[p] \in {"loaded", "finishing"}

\* The INSERT of ensure_row waits for a transaction that has updated the row,
\* and for nothing else: the SELECT behind it takes no lock.
MayLoad(p) == lock \in {NoVal, p}

\* A SELECT sees the transaction's own update, else the committed row.  The
\* rotator's object is what it last wrote for as long as it holds the row.
Seen(p) == IF lock = p THEN timer[p] ELSE row

\* The transaction of p is over, and with it the object it worked on.
End(p) ==
  /\ pc' = [pc EXCEPT ![p] = "idle"]
  /\ timer' = [timer EXCEPT ![p] = FirstRow]
  /\ lock' = IF lock = p THEN NoVal ELSE lock

NoRequest == [op |-> "status", body |-> NoSchedule]

Init ==
  /\ row = FirstRow
  /\ lock = NoVal
  /\ now = 0
  /\ pc = [p \in Proc |-> "idle"]
  /\ timer = [p \in Proc |-> FirstRow]
  /\ req = [a \in Api |-> NoRequest]

ApiLoad(a, op, body) ==
  /\ pc[a] = "idle"
  /\ MayLoad(a)
  /\ body # NoSchedule => op = "schedule"
  /\ timer' = [timer EXCEPT ![a] = row]
  /\ req' = [req EXCEPT ![a] = [op |-> op, body |-> body]]
  /\ pc' = [pc EXCEPT ![a] = "loaded"]
  /\ UNCHANGED <<row, lock, now>>

ApiUpdate(a) ==
  /\ pc[a] = "loaded"
  /\ IF Updates(req[a], timer[a], now)
     THEN /\ lock = NoVal
          /\ row' = Result(req[a], timer[a], now)
     ELSE UNCHANGED row
  /\ End(a)
  /\ req' = [req EXCEPT ![a] = NoRequest]
  /\ UNCHANGED now

\* The handler fails, or its cursor was opened with commit=False.
ApiRollback(a) ==
  /\ pc[a] = "loaded"
  /\ End(a)
  /\ req' = [req EXCEPT ![a] = NoRequest]
  /\ UNCHANGED <<row, now>>

RotLoad ==
  /\ pc[Rot] = "idle"
  /\ MayLoad(Rot)
  /\ timer' = [timer EXCEPT ![Rot] = row]
  /\ pc' = [pc EXCEPT ![Rot] = "loaded"]
  /\ UNCHANGED <<row, lock, now, req>>

\* sync_scheduled_start and the plain load() behind it.
RotSync ==
  /\ pc[Rot] = "loaded"
  /\ IF ShouldRun(timer[Rot], now)
     THEN /\ lock = NoVal
          /\ lock' = Rot
          /\ timer' = [timer EXCEPT ![Rot] = Synced(@, now)]
     ELSE /\ timer' = [timer EXCEPT ![Rot] = row]
          /\ UNCHANGED lock
  /\ pc' = [pc EXCEPT ![Rot] = "synced"]
  /\ UNCHANGED <<row, now, req>>

\* The iteration ends without a boundary: the cursor commits what it wrote.
RotCommit ==
  /\ pc[Rot] = "synced"
  /\ ~BoundaryReady(timer[Rot], now)
  /\ row' = Seen(Rot)
  /\ End(Rot)
  /\ UNCHANGED <<now, req>>

\* boundary_ready returned a tick: _run_tick_boundary works on it.
RotBoundary ==
  /\ pc[Rot] = "synced"
  /\ BoundaryReady(timer[Rot], now)
  /\ pc' = [pc EXCEPT ![Rot] = "boundary"]
  /\ UNCHANGED <<row, lock, now, timer, req>>

\* Mutant: finish_boundary works on the object the iteration began with.
RotReloadSkipped ==
  /\ pc[Rot] = "boundary"
  /\ pc' = [pc EXCEPT ![Rot] = "finishing"]
  /\ UNCHANGED <<row, lock, now, timer, req>>

\* finish_boundary starts by reloading the row.
RotReload ==
  /\ pc[Rot] = "boundary"
  /\ MayLoad(Rot)
  /\ timer' = [timer EXCEPT ![Rot] = Seen(Rot)]
  /\ pc' = [pc EXCEPT ![Rot] = "finishing"]
  /\ UNCHANGED <<row, lock, now, req>>

\* finish_boundary persists and the loop's transaction commits.
RotFinish ==
  /\ pc[Rot] = "finishing"
  /\ lock \in {NoVal, Rot}
  /\ Finished(timer[Rot], now).tick <= MaxTick
  /\ row' = Finished(timer[Rot], now)
  /\ End(Rot)
  /\ UNCHANGED <<now, req>>

\* An exception in the loop body, or the death of the process.
RotCrash ==
  /\ pc[Rot] # "idle"
  /\ End(Rot)
  /\ UNCHANGED <<row, now, req>>

Elapse ==
  /\ now < MaxTime
  /\ now' = now + 1
  /\ UNCHANGED <<row, lock, pc, timer, req>>

RotStep == RotLoad \/ RotSync \/ RotCommit \/ RotBoundary \/ RotReload \/ RotFinish

ApiStep(a) ==
  \/ \E op \in Ops, body \in Schedules \cup {NoSchedule} : ApiLoad(a, op, body)
  \/ ApiUpdate(a)
  \/ ApiRollback(a)

Next ==
  \/ \E a \in Api : ApiStep(a)
  \/ RotStep
  \/ RotCrash
  \/ Elapse

Spec == Init /\ [][Next]_vars

-----------------------------------------------------------------------------
(* The processes that do not stop: the rotator's loop, and the clock.  A   *)
(* crash may hit any iteration but not every one for ever, so each step    *)
(* is strongly fair.  Nothing is assumed of the request handlers.          *)

FairSpec ==
  /\ Spec
  /\ WF_vars(Elapse)
  /\ WF_vars(RotLoad)
  /\ SF_vars(RotSync)
  /\ SF_vars(RotCommit)
  /\ SF_vars(RotBoundary)
  /\ SF_vars(RotReload)
  /\ SF_vars(RotFinish)

-----------------------------------------------------------------------------

Body == Schedules \cup {NoSchedule}

TypeOK ==
  /\ row \in Timer
  /\ lock \in {NoVal, Rot}
  /\ now \in Nat
  /\ pc \in [Proc -> {"idle", "loaded", "synced", "boundary", "finishing"}]
  /\ \A a \in Api : pc[a] \in {"idle", "loaded"}
  /\ timer \in [Proc -> Timer]
  /\ req \in [Api -> [op : Ops, body : Body]]

(* A tick that is open has both its times, is one rotation long, is        *)
(* numbered from 1 and belongs to a running game; a game asked to stop has *)
(* stopped.  Full-row writes keep this even when they overwrite each       *)
(* other (game_timer.py:69-94, 111-190).                                   *)
Consistent(t) ==
  /\ t.start = NoVal <=> t.end = NoVal
  /\ t.end # NoVal => /\ t.end = t.start + Rotation
                      /\ t.tick >= 1
                      /\ t.state = "RUNNING"
  /\ t.desired = "STOPPED" => t.state = "STOPPED"

RowConsistent == Consistent(row)

\* Handler a commits its update in this step.
Commits(a) == pc[a] = "loaded" /\ pc'[a] = "idle"

(* Handlers overlap without a lock, and an UPDATE computed from a row that  *)
(* another transaction has replaced since takes back what that one did.    *)
(* What can be relied on all the same is what every open transaction has   *)
(* seen: a set S of rows is settled when the committed row and each object *)
(* that may still be written back are in it.                               *)
InFlight(p) == InWindow(p) \/ lock = p

Settled(S) == row \in S /\ \A p \in Proc : InFlight(p) => timer[p] \in S

(* A stop that every open transaction has seen is final until a start or a *)
(* pause request commits: no boundary, status poll or schedule revives the *)
(* game, whatever they overlap (game_timer.py:141-180, game_api.py:23-33). *)
Stopped == {t \in Timer : t.desired = "STOPPED"}

StopSettles ==
  [][Settled(Stopped) =>
       Settled(Stopped)' \/ \E a \in Api : Commits(a) /\ req[a].op \in {"start", "pause"}]_vars

(* A schedule setting that every open transaction has seen survives all of *)
(* them; only a schedule request that sets the same field changes it, one  *)
(* that sets another does not (game_timer.py:192-207).                     *)
With(f, v) == {t \in Timer : t[f] = v}

ScheduleSettles ==
  [][\A f \in {"startAt", "stopAfter", "freeze"} : \A v \in {row[f]} \ {NoVal} :
       Settled(With(f, v)) =>
         \/ Settled(With(f, v))'
         \/ \E a \in Api : Commits(a) /\ req[a].op = "schedule" /\ req[a].body[f] # NoVal]_vars

(* Once the last tick the organisers asked for has reached every open      *)
(* transaction, no tick behind it is opened until a request moves the last *)
(* tick (game_timer.py:155-161).                                           *)
LastTickIs(k) == {t \in Timer : t.stopAfter = k /\ t.tick <= k}

LastTickSettles ==
  [][\A k \in {row.stopAfter} \ {NoVal, 0} :
       Settled(LastTickIs(k)) =>
         \/ Settled(LastTickIs(k))'
         \/ \E a \in Api : Commits(a) /\ req[a].op = "schedule" /\ req[a].body.stopAfter # NoVal]_vars

(* A tick that every open transaction has seen is not opened again, by a   *)
(* resumed game, a poll or a request, and is left only by a stop, for tick *)
(* 0, or by the rotator's own boundary, for the next one                   *)
(* (game_timer.py:111-124, 141-180).                                       *)
From(k) == {t \in Timer : t.tick >= k}
To(k) == {t \in Timer : t.tick <= k}

TickSettles ==
  [][\A k \in {row.tick} \ {0} :
       /\ Settled(From(k)) => Settled(From(k))' \/ (row'.tick = 0 /\ row'.desired = "STOPPED")
       /\ Settled(To(k)) => Settled(To(k))' \/ (pc[Rot] = "finishing" /\ row'.tick = k + 1)]_vars

(* The published tick counts 1, 2, 3, ... (README.md:72) and otherwise     *)
(* only falls to 0 when a stop is committed (game_timer.py:141-180).  An   *)
(* iteration that outlasts the tick it opened commits ticks 1 and 2 at     *)
(* once.                                                                   *)
TickSequential ==
  [][row'.tick # row.tick =>
       \/ row'.tick = row.tick + 1
       \/ row.tick = 0 /\ row'.tick = 2
       \/ row'.tick = 0 /\ row'.state = "STOPPED"]_vars

(* A tick lasts ROTATION_SECONDS: its successor opens only once its end    *)
(* has passed (docs/schema.md:40, game_timer.py:126-171).                  *)
TickLastsRotation ==
  [][row.tick >= 1 /\ row'.tick = row.tick + 1 =>
       row.end # NoVal /\ now >= row.end]_vars

(* A requested pause takes effect at the end of the tick in flight         *)
(* (game_timer.py:183, 147-153).                                           *)
PauseTakesEffect ==
  (row.desired = "SUSPENDED" /\ row.end # NoVal /\ row.end <= MaxTime)
    ~> (row.state = "SUSPENDED" \/ row.desired # "SUSPENDED")

(* A game asked to run opens tick 1 when its start time has come           *)
(* (game_timer.py:111-124).                                                *)
ScheduledStartHappens ==
  (row.desired = "RUNNING" /\ row.tick = 0 /\ (row.startAt # NoVal => row.startAt <= MaxTime))
    ~> (row.tick >= 1 \/ row.desired # "RUNNING")

(* A pause is temporary: a game asked to run again gets an open tick       *)
(* (docs/event-day-runbook.md:95,101).                                     *)
ResumeTicks ==
  (row.desired = "RUNNING" /\ row.startAt = NoVal)
    ~> (row.end # NoVal \/ row.desired # "RUNNING" \/ row.startAt # NoVal)

=============================================================================

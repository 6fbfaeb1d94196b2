---------------------------- MODULE CheckerJobs ----------------------------
(***************************************************************************)
(* The checker jobs of one tick (platform/control/app/checker_jobs.py,     *)
(* worker.py, the scheduling and scoring half of rotator.py).              *)
(*                                                                         *)
(* The rotator inserts one job per enabled team-service, enqueues it on    *)
(* the Celery queue "checkers" and, when the next tick opens, times out    *)
(* what is unfinished and scores what service_health says.  Workers take   *)
(* messages (acks_late: a message may be handed out again), run the        *)
(* checks, and record the outcome.  Each step below is one transaction, or *)
(* the stretch of Python between two of them; the tables are shared.       *)
(*                                                                         *)
(* checker_attempts, checker_step_logs and the heartbeats are audit rows   *)
(* that no code path reads back: they are left out.                        *)
(***************************************************************************)
EXTENDS Naturals

CONSTANTS
  Jobs,          \* the enabled (team, service) pairs of the tick
  Workers,       \* Celery worker processes
  MaxAttempts,   \* CHECKER_MAX_ATTEMPTS
  Outcomes,      \* statuses run_checks_for can return here
  MaxMsgs,       \* bound on the copies of a job's message in the queue
  None           \* SQL NULL: no job row, no health row, nothing in hand

Terminal == {"SUCCESS", "RECOVERING", "MUMBLE", "OFFLINE", "TIMEOUT", "CRASHED"}
Active == {"QUEUED", "RUNNING", "RETRYING"}

ASSUME JobsAssumption == None \notin Jobs \cup Terminal \cup Active
ASSUME BoundsAssumption == /\ MaxAttempts \in Nat \ {0}
                           /\ MaxMsgs \in Nat
                           /\ Outcomes \subseteq Terminal

VARIABLES
  status,    \* checker_jobs.status; None before the row exists
  attempts,  \* checker_jobs.attempts
  taskKnown, \* checker_jobs.celery_task_id IS NOT NULL
  health,    \* service_health.status of the tick
  msgs,      \* messages of the job in the broker
  worker,    \* per worker: [pc, job, no, retry, result]
  rot,       \* the rotator: [pc, todo, cur, overdue, timed, read, closing, closed, passes]
  expired,   \* deadline_at <= NOW(), the same for all jobs of a tick
  scored     \* the health the tick was last scored with; None before

jobVars == <<status, attempts, taskKnown>>
vars == <<jobVars, health, msgs, worker, rot, expired, scored>>

IdleWorker == [pc |-> "idle", job |-> None, no |-> 0, retry |-> FALSE, result |-> None]
\* closing: the scheduling pass under way began behind the deadline; closed:
\* such a pass is through, the boundary is committed and the next tick open.
\* passes: completed boundary runs of the next tick, of which there are two, one
\* when it opens and one when it ends.  timed: the jobs whose two rows the open
\* transaction of such a run has updated and so holds locked; read: the health
\* it scores with.
IdleRot == [pc |-> "idle", todo |-> {}, cur |-> None, overdue |-> {}, timed |-> {},
            read |-> [j \in Jobs |-> None],
            closing |-> FALSE, closed |-> FALSE, passes |-> 0]

Init ==
  /\ status = [j \in Jobs |-> None]
  /\ attempts = [j \in Jobs |-> 0]
  /\ taskKnown = [j \in Jobs |-> FALSE]
  /\ health = [j \in Jobs |-> None]
  /\ msgs = [j \in Jobs |-> 0]
  /\ worker = [w \in Workers |-> IdleWorker]
  /\ rot = IdleRot
  /\ expired = FALSE
  /\ scored = [j \in Jobs |-> None]

\* _materialize_job_status: the health row and, whatever it says, the job row.
Materialize(S, s) ==
  /\ health' = [j \in Jobs |-> IF j \in S THEN s ELSE health[j]]
  /\ status' = [j \in Jobs |-> IF j \in S THEN s ELSE status[j]]

\* Publishing one more message; the bound stands in for the broker's memory.
Publish(j) ==
  /\ msgs[j] < MaxMsgs
  /\ msgs' = [msgs EXCEPT ![j] = @ + 1]

-----------------------------------------------------------------------------
(* The rotator.                                                            *)

Scheduled == \E j \in Jobs : status[j] # None

\* The main loop schedules a tick without jobs, and schedules it again at the
\* boundary that ends it; a boundary that fails is run again.
MustSchedule == ~Scheduled \/ (expired /\ ~rot.closed)

\* The upsert transaction of schedule_checker_jobs: new jobs are QUEUED,
\* terminal ones untouched, and those without a task id are to be enqueued.
ScheduleInsert ==
  /\ rot.pc = "idle"
  /\ MustSchedule
  /\ status' = [j \in Jobs |-> IF status[j] = None THEN "QUEUED" ELSE status[j]]
  /\ rot' = [rot EXCEPT !.pc = "enqueue",
                        !.todo = {j \in Jobs : status'[j] \notin Terminal /\ ~taskKnown[j]},
                        !.closing = expired]
  /\ UNCHANGED <<attempts, taskKnown, health, msgs, worker, expired, scored>>

ScheduleEnqueue(j) ==
  /\ rot.pc = "enqueue"
  /\ j \in rot.todo
  /\ Publish(j)
  /\ rot' = [rot EXCEPT !.pc = "mark", !.todo = @ \ {j}, !.cur = j]
  /\ UNCHANGED <<jobVars, health, worker, expired, scored>>

\* apply_async raised, before the broker took the message or after: the job is
\* CRASHED, whatever became of it meanwhile.
ScheduleEnqueueFails(j) ==
  /\ \/ rot.pc = "enqueue" /\ j \in rot.todo
     \/ rot.pc = "mark" /\ j = rot.cur
  /\ Materialize({j}, "CRASHED")
  /\ rot' = [rot EXCEPT !.pc = "enqueue", !.todo = @ \ {j}, !.cur = None]
  /\ UNCHANGED <<attempts, taskKnown, msgs, worker, expired, scored>>

ScheduleMark ==
  /\ rot.pc = "mark"
  /\ taskKnown' = [taskKnown EXCEPT ![rot.cur] = @ \/ status[rot.cur] \in {"QUEUED", "RETRYING"}]
  /\ rot' = [rot EXCEPT !.pc = "enqueue", !.cur = None]
  /\ UNCHANGED <<status, attempts, health, msgs, worker, expired, scored>>

ScheduleDone ==
  /\ rot.pc = "enqueue"
  /\ rot.todo = {}
  /\ rot' = [IdleRot EXCEPT !.closed = rot.closing]
  /\ UNCHANGED <<jobVars, health, msgs, worker, expired, scored>>

\* Mutant: a job some worker runs is left to that worker.
FinalizeSelectSparesRunning ==
  /\ rot.pc = "idle"
  /\ rot.closed
  /\ rot.passes < 2
  /\ rot' = [rot EXCEPT !.pc = "finalize", !.overdue = {j \in Jobs : status[j] \in {"QUEUED", "RETRYING"}}]
  /\ UNCHANGED <<jobVars, health, msgs, worker, expired, scored>>

\* At a boundary of the next tick, finalize_overdue_checker_jobs reads the
\* overdue rows without locking them.
FinalizeSelect ==
  /\ rot.pc = "idle"
  /\ rot.closed
  /\ rot.passes < 2
  /\ rot' = [rot EXCEPT !.pc = "finalize", !.overdue = {j \in Jobs : status[j] \in Active}]
  /\ UNCHANGED <<jobVars, health, msgs, worker, expired, scored>>

\* It times them out row by row; an update waits for a row that is locked, sees
\* what was committed meanwhile and overwrites it.
TimeOut(j) ==
  /\ rot.pc = "finalize"
  /\ j \in rot.overdue
  /\ rot' = [rot EXCEPT !.overdue = @ \ {j}, !.timed = @ \cup {j}]
  /\ UNCHANGED <<jobVars, health, msgs, worker, expired, scored>>

\* What the open transaction sees: its own updates, else what is committed.
Own(f) == [j \in Jobs |-> IF j \in rot.timed THEN "TIMEOUT" ELSE f[j]]

\* checker_tick_ready.
TickReady(st) == \A j \in Jobs : st[j] \notin Active

\* With no active job the tick is scored, else scoring is deferred.
CountActive ==
  /\ rot.pc = "finalize"
  /\ rot.overdue = {}
  /\ rot' = [rot EXCEPT !.pc = IF TickReady(Own(status)) THEN "score" ELSE "deferred"]
  /\ UNCHANGED <<jobVars, health, msgs, worker, expired, scored>>

\* _score_tick reads service_health.
ScoreRead ==
  /\ rot.pc = "score"
  /\ rot' = [rot EXCEPT !.pc = "scored", !.read = Own(health)]
  /\ UNCHANGED <<jobVars, health, msgs, worker, expired, scored>>

\* The transaction commits.  What follows it in the boundary run may still
\* fail, and then the run is repeated.
FinalizeCommit ==
  /\ rot.pc \in {"scored", "deferred"}
  /\ Materialize(rot.timed, "TIMEOUT")
  /\ scored' = IF rot.pc = "scored" THEN rot.read ELSE scored
  /\ \E n \in {rot.passes, rot.passes + 1} :
       rot' = [IdleRot EXCEPT !.closed = TRUE, !.passes = n]
  /\ UNCHANGED <<attempts, taskKnown, msgs, worker, expired>>

\* An exception or the death of the rotator: an open transaction is rolled back,
\* also the one PostgreSQL aborts because it and a worker's wait for each other.
RotCrash ==
  /\ rot.pc # "idle"
  /\ rot' = [IdleRot EXCEPT !.closed = rot.closed, !.passes = rot.passes]
  /\ UNCHANGED <<jobVars, health, msgs, worker, expired, scored>>

-----------------------------------------------------------------------------
(* A worker.  Its writes to a row the rotator holds locked wait for the    *)
(* end of the rotator's transaction.                                       *)

Locked(j) == j \in rot.timed

\* Mutant: a RUNNING job is started again.
StartTwice(w, j) ==
  /\ worker[w].pc = "idle"
  /\ ~Locked(j)
  /\ msgs[j] > 0
  /\ status[j] \in Active
  /\ ~expired
  /\ msgs' = [msgs EXCEPT ![j] = @ - 1]
  /\ status' = [status EXCEPT ![j] = "RUNNING"]
  /\ attempts' = [attempts EXCEPT ![j] = @ + 1]
  /\ worker' = [worker EXCEPT ![w] =
                  [IdleWorker EXCEPT !.pc = "checking", !.job = j, !.no = attempts'[j]]]
  /\ UNCHANGED <<taskKnown, health, rot, expired, scored>>

\* Mutant: the deadline is not looked at.
StartLate(w, j) ==
  /\ worker[w].pc = "idle"
  /\ ~Locked(j)
  /\ msgs[j] > 0
  /\ status[j] \in {"QUEUED", "RETRYING"}
  /\ msgs' = [msgs EXCEPT ![j] = @ - 1]
  /\ status' = [status EXCEPT ![j] = "RUNNING"]
  /\ attempts' = [attempts EXCEPT ![j] = @ + 1]
  /\ taskKnown' = [taskKnown EXCEPT ![j] = TRUE]
  /\ worker' = [worker EXCEPT ![w] =
                  [IdleWorker EXCEPT !.pc = "checking", !.job = j, !.no = attempts'[j]]]
  /\ UNCHANGED <<health, rot, expired, scored>>

\* _start_attempt, on a message for j.
Start(w, j) ==
  /\ worker[w].pc = "idle"
  /\ ~Locked(j)
  /\ msgs[j] > 0
  /\ msgs' = [msgs EXCEPT ![j] = @ - 1]
  /\ \/ /\ status[j] \in Terminal \cup {"RUNNING"}            \* SKIPPED
        /\ UNCHANGED <<jobVars, health, worker>>
     \/ /\ status[j] \in {"QUEUED", "RETRYING"}
        /\ expired
        /\ Materialize({j}, "TIMEOUT")
        /\ UNCHANGED <<attempts, taskKnown, worker>>
     \/ /\ status[j] \in {"QUEUED", "RETRYING"}
        /\ ~expired
        /\ status' = [status EXCEPT ![j] = "RUNNING"]
        /\ attempts' = [attempts EXCEPT ![j] = @ + 1]
        /\ taskKnown' = [taskKnown EXCEPT ![j] = TRUE]
        /\ worker' = [worker EXCEPT ![w] =
                        [IdleWorker EXCEPT !.pc = "checking", !.job = j, !.no = attempts'[j]]]
        /\ UNCHANGED health
  /\ UNCHANGED <<rot, expired, scored>>

\* run_checks_for returned and its transaction committed the health row.
ChecksCommit(w, s) ==
  /\ worker[w].pc = "checking"
  /\ ~Locked(worker[w].job)
  /\ health' = [health EXCEPT ![worker[w].job] = s]
  /\ worker' = [worker EXCEPT ![w].pc = "checked", ![w].result = s]
  /\ UNCHANGED <<jobVars, msgs, rot, expired, scored>>

FinishSuccess(w) ==
  /\ worker[w].pc = "checked"
  /\ ~Locked(worker[w].job)
  /\ status' = [status EXCEPT ![worker[w].job] = worker[w].result]
  /\ worker' = [worker EXCEPT ![w] = IdleWorker]
  /\ UNCHANGED <<attempts, taskKnown, health, msgs, rot, expired, scored>>

\* Mutant: one attempt too many.
ChecksRaiseOneMore(w) ==
  /\ worker[w].pc = "checking"
  /\ worker' = [worker EXCEPT ![w].pc = "raised",
                              ![w].retry = worker[w].no <= MaxAttempts /\ ~expired]
  /\ UNCHANGED <<jobVars, health, msgs, rot, expired, scored>>

\* run_checks_for raised (its transaction rolled back); should_retry_exception
\* is evaluated before the transaction that acts on it.
ChecksRaise(w) ==
  /\ worker[w].pc = "checking"
  /\ worker' = [worker EXCEPT ![w].pc = "raised",
                              ![w].retry = worker[w].no < MaxAttempts /\ ~expired]
  /\ UNCHANGED <<jobVars, health, msgs, rot, expired, scored>>

FinishException(w) ==
  LET j == worker[w].job IN
  /\ worker[w].pc = "raised"
  /\ ~Locked(j)
  /\ IF worker[w].retry
     THEN /\ status' = [status EXCEPT ![j] = "RETRYING"]
          /\ taskKnown' = [taskKnown EXCEPT ![j] = FALSE]
          /\ worker' = [worker EXCEPT ![w].pc = "delay"]
          /\ UNCHANGED health
     ELSE /\ Materialize({j}, "CRASHED")
          /\ worker' = [worker EXCEPT ![w] = IdleWorker]
          /\ UNCHANGED taskKnown
  /\ UNCHANGED <<attempts, msgs, rot, expired, scored>>

\* After CHECKER_RETRY_DELAY_SECONDS.
RetryEnqueue(w) ==
  /\ worker[w].pc = "delay"
  /\ Publish(worker[w].job)
  /\ worker' = [worker EXCEPT ![w].pc = "mark"]
  /\ UNCHANGED <<jobVars, health, rot, expired, scored>>

\* The enqueueing or the update behind it raised.
RetryEnqueueFails(w) ==
  /\ worker[w].pc \in {"delay", "mark"}
  /\ ~Locked(worker[w].job)
  /\ Materialize({worker[w].job}, "CRASHED")
  /\ worker' = [worker EXCEPT ![w] = IdleWorker]
  /\ UNCHANGED <<attempts, taskKnown, msgs, rot, expired, scored>>

RetryMark(w) ==
  /\ worker[w].pc = "mark"
  /\ ~Locked(worker[w].job)
  /\ taskKnown' = [taskKnown EXCEPT ![worker[w].job] = TRUE]
  /\ worker' = [worker EXCEPT ![w] = IdleWorker]
  /\ UNCHANGED <<status, attempts, health, msgs, rot, expired, scored>>

\* The worker process dies, or the hard time limit kills it.
WorkerCrash(w) ==
  /\ worker[w].pc # "idle"
  /\ worker' = [worker EXCEPT ![w] = IdleWorker]
  /\ UNCHANGED <<jobVars, health, msgs, rot, expired, scored>>

-----------------------------------------------------------------------------
(* The broker and the clock.                                               *)

\* acks_late: the message a worker holds, or held when it died, is handed out
\* again.
Redeliver(j) ==
  /\ attempts[j] > 0
  /\ Publish(j)
  /\ UNCHANGED <<jobVars, health, worker, rot, expired, scored>>

Lose(j) ==
  /\ msgs[j] > 0
  /\ msgs' = [msgs EXCEPT ![j] = @ - 1]
  /\ UNCHANGED <<jobVars, health, worker, rot, expired, scored>>

Expire ==
  /\ ~expired
  /\ expired' = TRUE
  /\ UNCHANGED <<jobVars, health, msgs, worker, rot, scored>>

-----------------------------------------------------------------------------

ScheduleStep ==
  \/ ScheduleInsert \/ ScheduleMark \/ ScheduleDone
  \/ \E j \in Jobs : ScheduleEnqueue(j) \/ ScheduleEnqueueFails(j)

WorkerStep(w) ==
  \/ \E j \in Jobs : Start(w, j)
  \/ \E s \in Outcomes : ChecksCommit(w, s)
  \/ FinishSuccess(w) \/ ChecksRaise(w) \/ FinishException(w)
  \/ RetryEnqueue(w) \/ RetryEnqueueFails(w) \/ RetryMark(w)

Next ==
  \/ ScheduleStep
  \/ FinalizeSelect \/ CountActive \/ ScoreRead \/ FinalizeCommit \/ RotCrash
  \/ \E j \in Jobs : TimeOut(j)
  \/ \E w \in Workers : WorkerStep(w) \/ WorkerCrash(w)
  \/ \E j \in Jobs : Redeliver(j) \/ Lose(j)
  \/ Expire

Spec == Init /\ [][Next]_vars

\* The clock moves, and the rotator's loop comes round: a crash may hit any
\* iteration, not every one.  Nothing is assumed of workers or broker.
FairSpec ==
  /\ Spec
  /\ WF_vars(Expire)
  /\ SF_vars(ScheduleInsert)
  /\ SF_vars(\E j \in Jobs : ScheduleEnqueue(j) \/ ScheduleEnqueueFails(j))
  /\ SF_vars(ScheduleMark)
  /\ SF_vars(ScheduleDone)
  /\ SF_vars(FinalizeSelect)
  /\ SF_vars(\E j \in Jobs : TimeOut(j))
  /\ SF_vars(CountActive)
  /\ SF_vars(ScoreRead)
  /\ SF_vars(FinalizeCommit)

-----------------------------------------------------------------------------

Status == Active \cup Terminal \cup {None}

TypeOK ==
  /\ status \in [Jobs -> Status]
  /\ attempts \in [Jobs -> Nat]
  /\ taskKnown \in [Jobs -> BOOLEAN]
  /\ health \in [Jobs -> Terminal \cup {None}]
  /\ msgs \in [Jobs -> Nat]
  /\ worker \in [Workers ->
       [pc : {"idle", "checking", "checked", "raised", "delay", "mark"},
        job : Jobs \cup {None}, no : Nat, retry : BOOLEAN, result : Terminal \cup {None}]]
  /\ rot \in [pc : {"idle", "enqueue", "mark", "finalize", "score", "scored", "deferred"},
              todo : SUBSET Jobs, cur : Jobs \cup {None},
              overdue : SUBSET Jobs, timed : SUBSET Jobs,
              read : [Jobs -> Terminal \cup {None}],
              closing : BOOLEAN, closed : BOOLEAN, passes : 0..2]
  /\ expired \in BOOLEAN
  /\ scored \in [Jobs -> Terminal \cup {None}]

\* A worker between _start_attempt and the end of that attempt.
Attempting(w) == worker[w].pc \in {"checking", "checked", "raised"}

(* Two workers never run the checks of the same team-service at once,      *)
(* duplicated and redelivered messages notwithstanding                     *)
(* (checker_jobs.py:193): the flags they would put and get are the same.   *)
OneRunner ==
  \A v, w \in Workers :
    v # w /\ Attempting(v) /\ Attempting(w) => worker[v].job # worker[w].job

(* A service is attempted at most CHECKER_MAX_ATTEMPTS times               *)
(* (checker_jobs.py:64, 204): _start_attempt itself does not check it.     *)
AttemptsBounded == \A j \in Jobs : attempts[j] <= MaxAttempts

(* When the score of a tick is committed, every job it covers has a        *)
(* status the score counted, and none is still to run or running, though   *)
(* workers write job and health rows between the rotator's SELECT, its     *)
(* updates, the COUNT, the reading of the health and the commit            *)
(* (rotator.py:500-530, checker_jobs.py:401-442).                          *)
ScoredWhenDone ==
  [][scored' # scored =>
       \A j \in Jobs : scored'[j] # None /\ status'[j] \notin {"QUEUED", "RUNNING"}]_vars

\* A worker decided on a retry before the deadline and has yet to act on it.
StaleRetry == \E w \in Workers : worker[w].pc = "raised" /\ worker[w].retry

(* A tick that has ended is scored by a boundary run of its successor that *)
(* is still to come, whatever workers, messages and crashes do; only a     *)
(* retry decided before the deadline can reactivate a job between the      *)
(* SELECT and the COUNT (rotator.py:500-529).                              *)
TickScored ==
  (rot.pc = "idle" /\ rot.closed /\ rot.passes < 2 /\ ~StaleRetry)
    ~> \A j \in Jobs : scored[j] # None

(* The two boundary runs of the successor have scored the tick             *)
(* (rotator.py:500-529).                                                   *)
ScoredByTwoRuns == rot.passes = 2 => \A j \in Jobs : scored[j] # None

(* The terminal status of a job is the row the workers materialized into   *)
(* service_health (rotator.py:532-533): scoring reads the one, the         *)
(* operators the other.                                                    *)
HealthMatchesJob ==
  \A j \in Jobs :
    (status[j] \in Terminal /\ \A w \in Workers : worker[w].job # j) => health[j] = status[j]

(* Scheduling is idempotent: an existing job keeps its terminal result     *)
(* (checker_jobs.py:96-99).                                                *)
ScheduleKeepsTerminal ==
  [][ScheduleStep => \A j \in Jobs : status[j] \in Terminal => status'[j] = status[j]]_vars

=============================================================================

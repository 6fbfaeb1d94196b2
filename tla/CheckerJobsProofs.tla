------------------------- MODULE CheckerJobsProofs -------------------------
(***************************************************************************)
(* Proofs about CheckerJobs: one runner a job, the bound on attempts, and  *)
(* that a tick is scored with a status for every job, none of them still   *)
(* to run, whatever messages and processes are lost or doubled and         *)
(* wherever a worker's transaction falls into the rotator's.               *)
(***************************************************************************)
EXTENDS CheckerJobs, TLAPS

\* Why attempts neither overlap nor exceed: whoever attempts a job knows its
\* last number and has taken it out of the states _start_attempt accepts, and
\* it goes back there only by the retry of that same attempt, below the bound.
AttemptInv ==
  /\ \A j \in Jobs :
       /\ attempts[j] <= MaxAttempts
       /\ status[j] \in {None, "QUEUED"} => attempts[j] = 0
       /\ status[j] = "RETRYING" => attempts[j] < MaxAttempts
  /\ \A w \in Workers :
       /\ worker[w].pc # "idle" => worker[w].job \in Jobs
       /\ Attempting(w) =>
            /\ status[worker[w].job] \in Terminal \cup {"RUNNING"}
            /\ worker[w].no = attempts[worker[w].job]
       /\ worker[w].pc = "checked" => worker[w].result \in Terminal
       /\ worker[w].pc = "raised" /\ worker[w].retry => worker[w].no < MaxAttempts
  /\ OneRunner

\* The pcs of the open transaction that finalizes and scores.
Finalizing == rot.pc \in {"finalize", "score", "scored", "deferred"}

\* The steps of a boundary run.
BoundaryStep ==
  \/ FinalizeSelect \/ CountActive \/ ScoreRead \/ FinalizeCommit \/ RotCrash
  \/ \E j \in Jobs : TimeOut(j)

\* Why the next boundary finds every job: it runs behind a scheduling pass.
RotInv ==
  /\ rot.pc # "idle" \/ rot.closed => \A j \in Jobs : status[j] # None
  /\ rot.pc = "mark" => rot.cur \in Jobs
  /\ Finalizing => rot.passes < 2 /\ rot.closed
  /\ rot.closing \/ rot.closed => expired

\* Why a worker cannot spoil a score between the COUNT and the commit: a status
\* once written into service_health is only replaced, and behind the deadline a
\* job the COUNT did not count is not started again.
ScoreInv ==
  /\ \A j \in Jobs : status[j] \in Terminal => health[j] # None
  /\ \A w \in Workers : worker[w].pc = "checked" => health[worker[w].job] # None
  /\ rot.pc \in {"score", "scored"} =>
       \A j \in Jobs : j \in rot.timed \/ status[j] \notin {"QUEUED", "RUNNING"}
  /\ rot.pc = "score" => \A j \in Jobs : j \in rot.timed \/ health[j] # None
  /\ rot.pc = "scored" => \A j \in Jobs : rot.read[j] # None

IInv == TypeOK /\ AttemptInv /\ RotInv /\ ScoreInv

-----------------------------------------------------------------------------
(* The types.                                                              *)

\* Before the first pass nothing is scheduled (rotator.py, main loop).
LEMMA InitIInv == Init => IInv
<1> SUFFICES ASSUME Init PROVE IInv
  OBVIOUS
<1> USE JobsAssumption, BoundsAssumption DEF Init, IdleWorker, IdleRot
<1>1. TypeOK
  <2>1. rot \in [pc : {"idle", "enqueue", "mark", "finalize", "score", "scored", "deferred"},
                todo : SUBSET Jobs, cur : Jobs \cup {None},
                overdue : SUBSET Jobs, timed : SUBSET Jobs,
                read : [Jobs -> Terminal \cup {None}],
                closing : BOOLEAN, closed : BOOLEAN, passes : 0..2]
    OBVIOUS
  <2> QED BY <2>1 DEF TypeOK, Status
<1>2. AttemptInv
  BY DEF AttemptInv, OneRunner, Attempting
<1>3. RotInv
  BY DEF RotInv, Finalizing
<1>4. ScoreInv
  BY DEF ScoreInv
<1> QED BY <1>1, <1>2, <1>3, <1>4 DEF IInv

\* The steps of the rotator keep the types (checker_jobs.py:78-135, 401-442).
LEMMA RotTypes ==
  ASSUME IInv, ScheduleStep \/ BoundaryStep
  PROVE  TypeOK'
<1> USE DEF IInv, TypeOK, Status, jobVars
<1>1. CASE ScheduleInsert
  BY <1>1 DEF ScheduleInsert, Active
<1>2. ASSUME NEW j \in Jobs, ScheduleEnqueue(j) PROVE TypeOK'
  <2>1. msgs' \in [Jobs -> Nat]
    BY <1>2 DEF ScheduleEnqueue, Publish
  <2>2. rot' \in [pc : {"mark"}, todo : SUBSET Jobs, cur : Jobs,
                 overdue : SUBSET Jobs, timed : SUBSET Jobs,
                 read : [Jobs -> Terminal \cup {None}],
                 closing : BOOLEAN, closed : BOOLEAN, passes : 0..2]
    BY <1>2 DEF ScheduleEnqueue
  <2> QED BY <1>2, <2>1, <2>2 DEF ScheduleEnqueue
<1>3. ASSUME NEW j \in Jobs, ScheduleEnqueueFails(j) PROVE TypeOK'
  BY <1>3 DEF ScheduleEnqueueFails, Materialize, Terminal
<1>4. CASE ScheduleMark
  BY <1>4 DEF ScheduleMark
<1>5. CASE ScheduleDone
  <2>1. rot' \in [pc : {"idle"}, todo : SUBSET Jobs, cur : {None},
                 overdue : SUBSET Jobs, timed : SUBSET Jobs,
                 read : [Jobs -> Terminal \cup {None}],
                 closing : BOOLEAN, closed : BOOLEAN, passes : {0}]
    BY <1>5 DEF ScheduleDone, IdleRot
  <2> QED BY <1>5, <2>1 DEF ScheduleDone
<1>6. CASE FinalizeSelect
  BY <1>6 DEF FinalizeSelect
<1>7. CASE FinalizeCommit
  <2>1. rot' \in [pc : {"idle"}, todo : SUBSET Jobs, cur : {None},
                 overdue : SUBSET Jobs, timed : SUBSET Jobs,
                 read : [Jobs -> Terminal \cup {None}],
                 closing : BOOLEAN, closed : BOOLEAN, passes : 0..2]
    <3>1. PICK n \in {rot.passes, rot.passes + 1} :
            rot' = [IdleRot EXCEPT !.closed = TRUE, !.passes = n]
      BY <1>7 DEF FinalizeCommit
    <3>2. n \in 0..2
      BY <1>7, <3>1 DEF FinalizeCommit, RotInv, Finalizing
    <3> QED BY <3>1, <3>2 DEF IdleRot
  <2>2. scored' \in [Jobs -> Terminal \cup {None}]
    BY <1>7 DEF FinalizeCommit
  <2> QED BY <1>7, <2>1, <2>2 DEF FinalizeCommit, Materialize, Terminal
<1>8. CASE RotCrash
  BY <1>8 DEF RotCrash, IdleRot
<1>9. ASSUME NEW j \in Jobs, TimeOut(j) PROVE TypeOK'
  BY <1>9 DEF TimeOut
<1>10. CASE CountActive
  BY <1>10 DEF CountActive
<1>11. CASE ScoreRead
  <2>1. Own(health) \in [Jobs -> Terminal \cup {None}]
    BY DEF Own, Terminal
  <2>2. rot' = [rot EXCEPT !.pc = "scored", !.read = Own(health)]
    BY <1>11 DEF ScoreRead
  <2> HIDE DEF Own
  <2> QED BY <1>11, <2>1, <2>2 DEF ScoreRead
<1> QED
  BY <1>1, <1>2, <1>3, <1>4, <1>5, <1>6, <1>7, <1>8, <1>9, <1>10, <1>11
  DEF ScheduleStep, BoundaryStep

\* So do those of a worker, of the broker and the clock
\* (worker.py:60-217, checker_jobs.py:175-398).
LEMMA WorkerTypes ==
  ASSUME IInv, NEW w \in Workers, WorkerStep(w) \/ WorkerCrash(w)
  PROVE  TypeOK'
<1> USE DEF IInv, TypeOK, Status, jobVars, IdleWorker
<1> DEFINE Rec == [pc : {"idle", "checking", "checked", "raised", "delay", "mark"},
                   job : Jobs \cup {None}, no : Nat, retry : BOOLEAN,
                   result : Terminal \cup {None}]
<1>0. /\ worker \in [Workers -> Rec] /\ worker[w] \in Rec
      /\ \A r \in Rec : [worker EXCEPT ![w] = r] \in [Workers -> Rec]
  OBVIOUS
<1>1. ASSUME NEW j \in Jobs, Start(w, j) PROVE TypeOK'
  <2>1. CASE UNCHANGED <<jobVars, health, worker>>
    BY <1>1, <2>1 DEF Start
  <2>2. CASE Materialize({j}, "TIMEOUT") /\ UNCHANGED <<attempts, taskKnown, worker>>
    BY <1>1, <2>2 DEF Start, Materialize, Terminal
  <2>3. CASE /\ status' = [status EXCEPT ![j] = "RUNNING"]
             /\ attempts' = [attempts EXCEPT ![j] = @ + 1]
             /\ taskKnown' = [taskKnown EXCEPT ![j] = TRUE]
             /\ worker' = [worker EXCEPT ![w] =
                    [IdleWorker EXCEPT !.pc = "checking", !.job = j, !.no = attempts'[j]]]
             /\ UNCHANGED health
    <3>1. attempts' \in [Jobs -> Nat] /\ attempts'[j] \in Nat
      BY <2>3
    <3>2. [IdleWorker EXCEPT !.pc = "checking", !.job = j, !.no = attempts'[j]] \in Rec
      BY <3>1
    <3>3. worker' \in [Workers -> Rec]
      BY <1>0, <2>3, <3>2
    <3> HIDE DEF IdleWorker
    <3> QED BY <1>1, <2>3, <3>1, <3>3 DEF Start, Active
  <2> QED BY <1>1, <2>1, <2>2, <2>3 DEF Start
<1>2. ASSUME NEW s \in Outcomes, ChecksCommit(w, s) PROVE TypeOK'
  <2>1. s \in Terminal /\ worker[w].job \in Jobs
    BY <1>2, BoundsAssumption DEF ChecksCommit, AttemptInv
  <2>2. [worker[w] EXCEPT !.pc = "checked", !.result = s] \in Rec
    BY <1>0, <2>1
  <2>3. worker' = [worker EXCEPT ![w] = [worker[w] EXCEPT !.pc = "checked", !.result = s]]
    BY <1>0, <1>2 DEF ChecksCommit
  <2>4. worker' \in [Workers -> Rec]
    BY <1>0, <2>2, <2>3
  <2> QED BY <1>2, <2>1, <2>4 DEF ChecksCommit
<1>3. CASE FinishSuccess(w)
  BY <1>3 DEF FinishSuccess, AttemptInv
<1>4. CASE ChecksRaise(w)
  <2> DEFINE again == worker[w].no < MaxAttempts /\ ~expired
  <2>1. [worker[w] EXCEPT !.pc = "raised", !.retry = again] \in Rec
    BY <1>0
  <2>2. worker' = [worker EXCEPT ![w] = [worker[w] EXCEPT !.pc = "raised", !.retry = again]]
    BY <1>0, <1>4 DEF ChecksRaise
  <2>3. worker' \in [Workers -> Rec]
    BY <1>0, <2>1, <2>2
  <2> QED BY <1>4, <2>3 DEF ChecksRaise
<1>5. CASE FinishException(w)
  <2>1. CASE worker[w].retry
    <3>1. worker' = [worker EXCEPT ![w] = [worker[w] EXCEPT !.pc = "delay"]]
      BY <1>0, <1>5, <2>1 DEF FinishException
    <3>2. worker' \in [Workers -> Rec]
      BY <1>0, <3>1
    <3>3. status' \in [Jobs -> Status] /\ taskKnown' \in [Jobs -> BOOLEAN]
      <4>1. /\ status' = [status EXCEPT ![worker[w].job] = "RETRYING"]
            /\ taskKnown' = [taskKnown EXCEPT ![worker[w].job] = FALSE]
        BY <1>5, <2>1 DEF FinishException
      <4> QED BY <4>1 DEF Active
    <3> QED BY <1>5, <2>1, <3>2, <3>3 DEF FinishException
  <2>2. CASE ~worker[w].retry
    <3>0. IdleWorker \in Rec
      OBVIOUS
    <3>1. worker' \in [Workers -> Rec]
      <4>1. worker' = [worker EXCEPT ![w] = IdleWorker]
        BY <1>5, <2>2 DEF FinishException
      <4> HIDE DEF Rec
      <4> QED BY <1>0, <3>0, <4>1
    <3> QED BY <1>5, <2>2, <3>1 DEF FinishException, Materialize, Terminal
  <2> QED BY <2>1, <2>2
<1>6. CASE RetryEnqueue(w)
  BY <1>6 DEF RetryEnqueue, Publish, AttemptInv
<1>7. CASE RetryEnqueueFails(w)
  BY <1>7 DEF RetryEnqueueFails, Materialize, Terminal, AttemptInv
<1>8. CASE RetryMark(w)
  BY <1>8 DEF RetryMark, AttemptInv
<1>9. CASE WorkerCrash(w)
  BY <1>9 DEF WorkerCrash
<1> QED
  BY <1>1, <1>2, <1>3, <1>4, <1>5, <1>6, <1>7, <1>8, <1>9 DEF WorkerStep

-----------------------------------------------------------------------------
(* What a step may do to attempts, jobs and workers.                       *)

\* The rotator never makes a job startable again: a job it has once inserted is
\* terminal after its steps or as it was (checker_jobs.py:78-135, 401-442).
LEMMA RotKeepsAttempts ==
  ASSUME IInv, ScheduleStep \/ BoundaryStep
  PROVE  AttemptInv'
<1> USE DEF IInv, TypeOK, jobVars
<1>1. /\ attempts' = attempts /\ worker' = worker
      /\ \A j \in Jobs :
           \/ status'[j] = status[j]
           \/ status[j] = None /\ status'[j] = "QUEUED"
           \/ status'[j] \in {"CRASHED", "TIMEOUT"}
  <2>1. CASE ScheduleInsert
    BY <2>1 DEF ScheduleInsert
  <2>2. CASE \E j \in Jobs : ScheduleEnqueueFails(j)
    BY <2>2 DEF ScheduleEnqueueFails, Materialize
  <2>3. CASE FinalizeCommit
    BY <2>3 DEF FinalizeCommit, Materialize
  <2>4. CASE UNCHANGED <<status, attempts, worker>>
    BY <2>4
  <2> QED
    BY <2>1, <2>2, <2>3, <2>4
    DEF ScheduleStep, BoundaryStep, ScheduleEnqueue, ScheduleMark, ScheduleDone,
        FinalizeSelect, TimeOut, CountActive, ScoreRead, RotCrash
<1>2. /\ "CRASHED" \in Terminal /\ "TIMEOUT" \in Terminal /\ None \notin Terminal
      /\ None # "RUNNING" /\ None \notin {"CRASHED", "TIMEOUT"}
  BY JobsAssumption DEF Terminal, Active
<1> QED BY <1>1, <1>2 DEF AttemptInv, OneRunner, Attempting

\* What _start_attempt leaves: another number, and a job out of the states it
\* accepts (checker_jobs.py:175-236).
LEMMA StartKeepsAttempts ==
  ASSUME IInv, NEW w \in Workers, NEW j \in Jobs, Start(w, j)
  PROVE  AttemptInv'
<1> USE DEF IInv, TypeOK, jobVars
<1>1. CASE status[j] \in Terminal \cup {"RUNNING"} /\ UNCHANGED <<jobVars, health, worker>>
  BY <1>1 DEF AttemptInv, OneRunner, Attempting
<1>2. CASE /\ status[j] \in {"QUEUED", "RETRYING"} /\ Materialize({j}, "TIMEOUT")
           /\ UNCHANGED <<attempts, taskKnown, worker>>
  <2>1. "TIMEOUT" \in Terminal /\ None # "TIMEOUT"
    BY JobsAssumption DEF Terminal
  <2>2. \A k \in Jobs : status'[k] = IF k = j THEN "TIMEOUT" ELSE status[k]
    BY <1>2 DEF Materialize
  <2> QED BY <1>2, <2>1, <2>2 DEF AttemptInv, OneRunner, Attempting
<1>3. CASE /\ status[j] \in {"QUEUED", "RETRYING"}
           /\ status' = [status EXCEPT ![j] = "RUNNING"]
           /\ attempts' = [attempts EXCEPT ![j] = @ + 1]
           /\ worker' = [worker EXCEPT ![w] =
                  [IdleWorker EXCEPT !.pc = "checking", !.job = j, !.no = attempts'[j]]]
  <2>1. /\ attempts'[j] = attempts[j] + 1 /\ attempts[j] < MaxAttempts
        /\ \A k \in Jobs \ {j} : attempts'[k] = attempts[k] /\ status'[k] = status[k]
        /\ status'[j] = "RUNNING"
    <3>1. attempts[j] < MaxAttempts
      BY <1>3, BoundsAssumption DEF AttemptInv
    <3> QED BY <1>3, <3>1
  <2>2. /\ worker'[w].pc = "checking" /\ worker'[w].job = j /\ worker'[w].no = attempts'[j]
        /\ \A v \in Workers \ {w} : worker'[v] = worker[v]
    BY <1>3 DEF IdleWorker
  <2>3. \A v \in Workers : Attempting(v) => worker[v].job # j
    <3>1. status[j] \notin Terminal \cup {"RUNNING"}
      BY <1>3 DEF Terminal
    <3> QED BY <3>1 DEF AttemptInv
  <2>4. None # "RUNNING"
    BY JobsAssumption DEF Active
  <2>5. \A k \in Jobs :
          /\ attempts'[k] <= MaxAttempts
          /\ status'[k] \in {None, "QUEUED"} => attempts'[k] = 0
          /\ status'[k] = "RETRYING" => attempts'[k] < MaxAttempts
    BY <2>1, <2>4, BoundsAssumption DEF AttemptInv
  <2>6. OneRunner'
    BY <2>2, <2>3 DEF AttemptInv, OneRunner, Attempting
  <2>7. ASSUME NEW v \in Workers
        PROVE  /\ worker'[v].pc # "idle" => worker'[v].job \in Jobs
               /\ Attempting(v)' =>
                    /\ status'[worker'[v].job] \in Terminal \cup {"RUNNING"}
                    /\ worker'[v].no = attempts'[worker'[v].job]
               /\ worker'[v].pc = "checked" => worker'[v].result \in Terminal
               /\ worker'[v].pc = "raised" /\ worker'[v].retry => worker'[v].no < MaxAttempts
    <3>1. CASE v = w
      BY <2>1, <2>2, <3>1 DEF Attempting
    <3>2. CASE v # w
      <4>1. worker'[v] = worker[v]
        BY <2>2, <3>2
      <4>2. Attempting(v) => worker[v].job \in Jobs \ {j}
        BY <2>3 DEF AttemptInv, Attempting
      <4> QED BY <2>1, <4>1, <4>2 DEF AttemptInv, Attempting
    <3> QED BY <3>1, <3>2
  <2> QED BY <2>5, <2>6, <2>7 DEF AttemptInv
<1> QED
  BY <1>1, <1>2, <1>3 DEF Start

\* What an attempt does besides beginning: it ends, and only a retry below the
\* bound makes its job startable (checker_jobs.py:239-398).
LEMMA WorkerKeepsAttempts ==
  ASSUME IInv, NEW w \in Workers,
         (WorkerStep(w) /\ ~\E j \in Jobs : Start(w, j)) \/ WorkerCrash(w)
  PROVE  AttemptInv'
<1> USE DEF IInv, TypeOK, jobVars
<1> DEFINE Mine == worker[w].job
<1>0. /\ "CRASHED" \in Terminal /\ "TIMEOUT" \in Terminal /\ None \notin Terminal
      /\ "QUEUED" \notin Terminal /\ "RETRYING" \notin Terminal
      /\ None \notin {"RUNNING", "CRASHED", "RETRYING"}
  BY JobsAssumption DEF Terminal, Active
<1>1. ASSUME NEW s \in Outcomes, ChecksCommit(w, s) PROVE AttemptInv'
  BY <1>1, BoundsAssumption DEF ChecksCommit, AttemptInv, OneRunner, Attempting
<1>2. CASE FinishSuccess(w)
  BY <1>0, <1>2 DEF FinishSuccess, AttemptInv, OneRunner, Attempting, IdleWorker
<1>3. CASE ChecksRaise(w)
  BY <1>3, BoundsAssumption DEF ChecksRaise, AttemptInv, OneRunner, Attempting
<1>4. CASE FinishException(w) /\ worker[w].retry
  <2>1. Mine \in Jobs /\ attempts[Mine] < MaxAttempts
    BY <1>4 DEF FinishException, AttemptInv, Attempting
  <2>2. /\ attempts' = attempts /\ status'[Mine] = "RETRYING"
        /\ \A k \in Jobs \ {Mine} : status'[k] = status[k]
    BY <1>4, <2>1 DEF FinishException
  <2>3. /\ worker'[w].pc = "delay" /\ worker'[w].job = Mine
        /\ \A v \in Workers \ {w} : worker'[v] = worker[v]
    BY <1>4 DEF FinishException
  <2>4. \A v \in Workers \ {w} : Attempting(v) => worker[v].job \in Jobs \ {Mine}
    BY <1>4 DEF FinishException, AttemptInv, OneRunner, Attempting
  <2> QED BY <1>0, <2>1, <2>2, <2>3, <2>4 DEF AttemptInv, OneRunner, Attempting
<1>5. CASE FinishException(w) /\ ~worker[w].retry
  <2>1. /\ attempts' = attempts
        /\ \A k \in Jobs : status'[k] = IF k = Mine THEN "CRASHED" ELSE status[k]
    BY <1>5 DEF FinishException, Materialize
  <2>2. /\ worker'[w].pc = "idle"
        /\ \A v \in Workers \ {w} : worker'[v] = worker[v]
    BY <1>5 DEF FinishException, IdleWorker
  <2> QED BY <1>0, <2>1, <2>2 DEF AttemptInv, OneRunner, Attempting
<1>6. CASE RetryEnqueue(w)
  BY <1>6 DEF RetryEnqueue, AttemptInv, OneRunner, Attempting
<1>7. CASE RetryEnqueueFails(w)
  BY <1>0, <1>7
  DEF RetryEnqueueFails, Materialize, AttemptInv, OneRunner, Attempting, IdleWorker
<1>8. CASE RetryMark(w) \/ WorkerCrash(w)
  <2>1. CASE RetryMark(w)
    BY <2>1 DEF RetryMark, AttemptInv, OneRunner, Attempting, IdleWorker
  <2>2. CASE WorkerCrash(w)
    BY <2>2 DEF WorkerCrash, AttemptInv, OneRunner, Attempting, IdleWorker
  <2> QED BY <1>8, <2>1, <2>2
<1> QED
  BY <1>1, <1>2, <1>3, <1>4, <1>5, <1>6, <1>7, <1>8 DEF WorkerStep

\* A row once inserted stays, and what the rotator does between boundaries begins
\* with inserting them all (checker_jobs.py:78-107).
LEMMA RotInvNext == IInv /\ [Next]_vars => RotInv'
<1> SUFFICES ASSUME IInv, [Next]_vars PROVE RotInv'
  OBVIOUS
<1> USE DEF IInv, TypeOK, jobVars, RotInv, Finalizing
<1>0. None \notin Terminal \cup Active
  BY JobsAssumption
<1>1. CASE ScheduleInsert
  BY <1>0, <1>1 DEF ScheduleInsert, Active
<1>2. CASE ScheduleStep /\ ~ScheduleInsert
  <2>1. ASSUME NEW j \in Jobs, ScheduleEnqueue(j) PROVE RotInv'
    BY <1>0, <2>1 DEF ScheduleEnqueue
  <2>2. ASSUME NEW j \in Jobs, ScheduleEnqueueFails(j) PROVE RotInv'
    BY <1>0, <2>2 DEF ScheduleEnqueueFails, Materialize, Terminal
  <2>3. CASE ScheduleMark
    BY <1>0, <2>3 DEF ScheduleMark
  <2>4. CASE ScheduleDone
    BY <1>0, <2>4 DEF ScheduleDone, IdleRot
  <2> QED BY <1>2, <2>1, <2>2, <2>3, <2>4 DEF ScheduleStep
<1>3. CASE FinalizeSelect
  BY <1>3 DEF FinalizeSelect
<1>4. CASE FinalizeCommit
  BY <1>0, <1>4 DEF FinalizeCommit, Materialize, Terminal, IdleRot
<1>5. CASE RotCrash
  BY <1>5 DEF RotCrash, IdleRot
<1>6. ASSUME NEW w \in Workers, WorkerStep(w) \/ WorkerCrash(w) PROVE RotInv'
  <2>1. rot' = rot /\ expired' = expired
    BY <1>6
    DEF WorkerStep, WorkerCrash, Start, ChecksCommit, FinishSuccess, ChecksRaise,
        FinishException, RetryEnqueue, RetryEnqueueFails, RetryMark
  <2>2. \A j \in Jobs : status[j] # None => status'[j] # None
    <3>1. ASSUME NEW j \in Jobs, Start(w, j) PROVE \A i \in Jobs : status[i] # None => status'[i] # None
      BY <1>0, <3>1 DEF Start, Materialize, Terminal, Active
    <3>2. CASE FinishSuccess(w)
      BY <1>0, <3>2 DEF FinishSuccess, AttemptInv
    <3>3. CASE FinishException(w) \/ RetryEnqueueFails(w)
      BY <1>0, <3>3 DEF FinishException, RetryEnqueueFails, Materialize, Terminal, Active
    <3>4. CASE status' = status
      BY <3>4
    <3> QED
      BY <1>6, <3>1, <3>2, <3>3, <3>4
      DEF WorkerStep, WorkerCrash, ChecksCommit, ChecksRaise, RetryEnqueue, RetryMark
  <2> QED BY <2>1, <2>2
<1>7. CASE UNCHANGED <<status, rot>> /\ (expired => expired')
  BY <1>7
<1>8. ASSUME NEW j \in Jobs, TimeOut(j) PROVE RotInv'
  BY <1>8 DEF TimeOut
<1>9. CASE CountActive
  BY <1>9 DEF CountActive
<1>10. CASE ScoreRead
  BY <1>10 DEF ScoreRead
<1> QED
  BY <1>1, <1>2, <1>3, <1>4, <1>5, <1>6, <1>7, <1>8, <1>9, <1>10
  DEF Next, Redeliver, Lose, Expire, vars

-----------------------------------------------------------------------------
(* What a step may do to the score under way.                              *)

\* Outside the open transaction the last three conjuncts say nothing; what is
\* materialized has both rows (checker_jobs.py:291-340).
LEMMA ScheduleKeepsScore == ASSUME IInv, ScheduleStep PROVE ScoreInv'
<1> USE DEF IInv, TypeOK, jobVars, ScoreInv, RotInv
<1>0. None \notin Terminal \cup Active /\ "CRASHED" \in Terminal /\ "QUEUED" \notin Terminal
  BY JobsAssumption DEF Terminal
<1>1. worker' = worker /\ rot'.pc \in {"idle", "enqueue", "mark"}
  BY DEF ScheduleStep, ScheduleInsert, ScheduleEnqueue, ScheduleEnqueueFails,
         ScheduleMark, ScheduleDone, IdleRot
<1>2. \A j \in Jobs :
        /\ status'[j] \in Terminal => health'[j] # None
        /\ health[j] # None => health'[j] # None
  <2>1. CASE ScheduleInsert
    BY <1>0, <2>1 DEF ScheduleInsert
  <2>2. ASSUME NEW j \in Jobs, ScheduleEnqueueFails(j)
        PROVE  \A i \in Jobs : /\ status'[i] \in Terminal => health'[i] # None
                               /\ health[i] # None => health'[i] # None
    BY <1>0, <2>2 DEF ScheduleEnqueueFails, Materialize
  <2>3. CASE status' = status /\ health' = health
    BY <2>3
  <2>4. ASSUME NEW j \in Jobs, ScheduleEnqueue(j) PROVE status' = status /\ health' = health
    BY <2>4 DEF ScheduleEnqueue
  <2>5. ScheduleMark \/ ScheduleDone => status' = status /\ health' = health
    BY DEF ScheduleMark, ScheduleDone
  <2>6. \/ ScheduleInsert
        \/ status' = status /\ health' = health
        \/ \E j \in Jobs : ScheduleEnqueueFails(j)
    BY <2>4, <2>5 DEF ScheduleStep
  <2> HIDE DEF IInv, TypeOK, ScoreInv, RotInv
  <2> QED BY <2>1, <2>2, <2>3, <2>6
<1>3. \A w \in Workers : worker[w].pc = "checked" => worker[w].job \in Jobs
  BY DEF AttemptInv
<1> QED BY <1>1, <1>2, <1>3

\* The COUNT lets a score begin when every job has an outcome; the read finds it
\* (rotator.py:513-514, checker_jobs.py:433-442).
LEMMA BoundaryKeepsScore == ASSUME IInv, BoundaryStep PROVE ScoreInv'
<1> USE DEF IInv, TypeOK, jobVars, ScoreInv
<1>0. None \notin Terminal \cup Active /\ "TIMEOUT" \in Terminal
  BY JobsAssumption DEF Terminal
<1>1. \A w \in Workers : worker[w].pc = "checked" => worker[w].job \in Jobs
  BY DEF AttemptInv
<1>2. CASE FinalizeSelect
  BY <1>2 DEF FinalizeSelect
<1>3. ASSUME NEW j \in Jobs, TimeOut(j) PROVE ScoreInv'
  BY <1>3 DEF TimeOut
<1>4. CASE CountActive
  <2>1. CASE TickReady(Own(status))
    <3>1. \A j \in Jobs \ rot.timed : status[j] \notin Active
      BY <2>1 DEF TickReady, Own
    <3>2. \A j \in Jobs \ rot.timed : status[j] \in Terminal
      BY <1>4, <3>1 DEF CountActive, RotInv, Status
    <3>3. rot'.pc = "score" /\ rot'.timed = rot.timed
      BY <1>4, <2>1 DEF CountActive
    <3> QED BY <1>4, <3>1, <3>2, <3>3 DEF CountActive, Active
  <2>2. CASE ~TickReady(Own(status))
    BY <1>4, <2>2 DEF CountActive
  <2> QED BY <2>1, <2>2
<1>5. CASE ScoreRead
  <2>1. \A j \in Jobs : Own(health)[j] # None
    BY <1>0, <1>5 DEF ScoreRead, Own
  <2>2. rot'.pc = "scored" /\ rot'.read = Own(health) /\ rot'.timed = rot.timed
    BY <1>5 DEF ScoreRead
  <2> QED BY <1>5, <2>1, <2>2 DEF ScoreRead
<1>6. CASE FinalizeCommit
  <2>1. rot'.pc = "idle" /\ worker' = worker
    BY <1>6 DEF FinalizeCommit, IdleRot
  <2>2. \A j \in Jobs : /\ status'[j] \in Terminal => health'[j] # None
                        /\ health[j] # None => health'[j] # None
    BY <1>0, <1>6 DEF FinalizeCommit, Materialize
  <2> QED BY <1>1, <2>1, <2>2
<1>7. CASE RotCrash
  BY <1>7 DEF RotCrash, IdleRot
<1> QED BY <1>2, <1>3, <1>4, <1>5, <1>6, <1>7 DEF BoundaryStep

\* A worker replaces a status by another; it puts a job back only as RETRYING,
\* and behind the deadline such a job is timed out, not run
\* (checker_jobs.py:175-398).
LEMMA WorkerKeepsScore ==
  ASSUME IInv, NEW w \in Workers, WorkerStep(w) \/ WorkerCrash(w)
  PROVE  ScoreInv'
<1> USE DEF IInv, TypeOK, jobVars
<1> DEFINE Rec == worker'[w]
           Only == \A v \in Workers \ {w} : worker'[v] = worker[v]
           Keeps == \A i \in Jobs :
                      /\ health[i] # None => health'[i] # None
                      /\ status'[i] \in Terminal => health'[i] # None
                      /\ \/ status'[i] = status[i]
                         \/ status'[i] \in Terminal \cup {"RETRYING"}
                         \/ ~expired
           Checked == Rec.pc = "checked" => Rec.job \in Jobs /\ health'[Rec.job] # None
<1>0. /\ None \notin Terminal \cup Active /\ "CRASHED" \in Terminal /\ "TIMEOUT" \in Terminal
      /\ {"QUEUED", "RUNNING", "RETRYING"} \cap Terminal = {}
  BY JobsAssumption DEF Terminal
<1>1. \A v \in Workers : worker[v].pc # "idle" => worker[v].job \in Jobs
  BY DEF AttemptInv
<1>2. ASSUME NEW j \in Jobs, Start(w, j) PROVE Only /\ Keeps /\ Checked
  <2>1. CASE UNCHANGED <<jobVars, health, worker>>
    BY <1>1, <2>1 DEF ScoreInv
  <2>2. CASE Materialize({j}, "TIMEOUT") /\ UNCHANGED worker
    BY <1>0, <1>1, <2>2 DEF ScoreInv, Materialize
  <2>3. CASE /\ ~expired /\ status' = [status EXCEPT ![j] = "RUNNING"] /\ UNCHANGED health
             /\ worker' = [worker EXCEPT ![w] =
                    [IdleWorker EXCEPT !.pc = "checking", !.job = j, !.no = attempts'[j]]]
    <3>1. Rec.pc = "checking" /\ Only
      BY <2>3 DEF IdleWorker
    <3>2. Keeps
      BY <1>0, <2>3 DEF ScoreInv
    <3> QED BY <3>1, <3>2
  <2> QED BY <1>2, <2>1, <2>2, <2>3 DEF Start
<1>3. ASSUME NEW s \in Outcomes, ChecksCommit(w, s) PROVE Only /\ Keeps /\ Checked
  <2>1. s # None /\ worker[w].job \in Jobs
    BY <1>0, <1>1, <1>3, BoundsAssumption DEF ChecksCommit
  <2>2. Rec.job = worker[w].job /\ Only
    BY <1>3 DEF ChecksCommit
  <2> QED BY <1>3, <2>1, <2>2 DEF ChecksCommit, ScoreInv
<1>4. ASSUME FinishSuccess(w) PROVE Only /\ Keeps /\ Checked
  <2>1. worker[w].job \in Jobs /\ worker[w].result \in Terminal
    BY <1>1, <1>4 DEF FinishSuccess, AttemptInv
  <2>2. Rec.pc = "idle" /\ Only
    BY <1>4 DEF FinishSuccess, IdleWorker
  <2>3. Keeps
    BY <1>4, <2>1 DEF FinishSuccess, ScoreInv
  <2>4. Checked
    BY <2>2
  <2> QED BY <2>2, <2>3, <2>4
<1>5. ASSUME FinishException(w) PROVE Only /\ Keeps /\ Checked
  <2>1. Rec.pc \in {"delay", "idle"} /\ Only
    BY <1>5 DEF FinishException, IdleWorker
  <2>2. Keeps
    <3>1. CASE worker[w].retry
      BY <1>0, <1>5, <3>1 DEF FinishException, ScoreInv
    <3>2. CASE ~worker[w].retry
      BY <1>0, <1>5, <3>2 DEF FinishException, ScoreInv, Materialize
    <3> QED BY <3>1, <3>2
  <2>3. Checked
    BY <2>1
  <2> QED BY <2>1, <2>2, <2>3
<1>6. ASSUME RetryEnqueueFails(w) PROVE Only /\ Keeps /\ Checked
  <2>1. Rec.pc = "idle" /\ Only
    BY <1>6 DEF RetryEnqueueFails, IdleWorker
  <2>2. Keeps
    BY <1>0, <1>6 DEF RetryEnqueueFails, ScoreInv, Materialize
  <2>3. Checked
    BY <2>1
  <2> QED BY <2>1, <2>2, <2>3
<1>7. ASSUME ChecksRaise(w) \/ RetryEnqueue(w) \/ RetryMark(w) \/ WorkerCrash(w)
      PROVE  Only /\ Keeps /\ Checked
  <2>1. UNCHANGED <<status, health>>
    BY <1>7 DEF ChecksRaise, RetryEnqueue, RetryMark, WorkerCrash
  <2>2. Rec.pc # "checked" /\ Only
    BY <1>7 DEF ChecksRaise, RetryEnqueue, RetryMark, WorkerCrash, IdleWorker
  <2> QED BY <2>1, <2>2 DEF ScoreInv
<1>8. Only /\ Keeps /\ Checked
  BY <1>2, <1>3, <1>4, <1>5, <1>6, <1>7 DEF WorkerStep
<1>9. rot' = rot
  BY DEF WorkerStep, WorkerCrash, Start, ChecksCommit, FinishSuccess, ChecksRaise,
         FinishException, RetryEnqueue, RetryEnqueueFails, RetryMark
<1>10. rot.pc \in {"score", "scored"} => expired
  BY DEF RotInv, Finalizing
<1> HIDE DEF IInv
<1>11. ScoreInv
  BY DEF IInv
<1>12. \A v \in Workers : worker'[v].pc = "checked" => health'[worker'[v].job] # None
  <2> SUFFICES ASSUME NEW v \in Workers, worker'[v].pc = "checked"
               PROVE  health'[worker'[v].job] # None
    OBVIOUS
  <2>1. CASE v = w
    BY <1>8, <2>1
  <2>2. CASE v # w
    <3>1. worker'[v] = worker[v]
      BY <1>8, <2>2
    <3> QED BY <1>1, <1>8, <1>11, <3>1 DEF ScoreInv
  <2> QED BY <2>1, <2>2
<1>13. rot.pc \in {"score", "scored"} =>
         \A j \in Jobs : j \in rot.timed \/ status'[j] \notin {"QUEUED", "RUNNING"}
  BY <1>0, <1>8, <1>10, <1>11 DEF ScoreInv
<1> QED BY <1>8, <1>9, <1>11, <1>12, <1>13 DEF ScoreInv

\* Together: every step of the rotator, the workers and the broker keeps the invariant.
LEMMA IInvNext == IInv /\ [Next]_vars => IInv'
<1> SUFFICES ASSUME IInv, [Next]_vars PROVE TypeOK' /\ AttemptInv' /\ ScoreInv'
  BY RotInvNext DEF IInv
<1>1. CASE ScheduleStep
  BY <1>1, RotTypes, RotKeepsAttempts, ScheduleKeepsScore
<1>2. CASE BoundaryStep
  BY <1>2, RotTypes, RotKeepsAttempts, BoundaryKeepsScore
<1>3. ASSUME NEW w \in Workers, WorkerStep(w) \/ WorkerCrash(w)
      PROVE  TypeOK' /\ AttemptInv' /\ ScoreInv'
  BY <1>3, WorkerTypes, StartKeepsAttempts, WorkerKeepsAttempts, WorkerKeepsScore
<1>4. CASE (\E j \in Jobs : Redeliver(j) \/ Lose(j)) \/ Expire \/ UNCHANGED vars
  <2>1. /\ UNCHANGED <<jobVars, health, worker, rot, scored>>
        /\ msgs' \in [Jobs -> Nat] /\ expired' \in BOOLEAN
    <3>1. ASSUME NEW j \in Jobs, Redeliver(j) \/ Lose(j)
          PROVE  /\ UNCHANGED <<jobVars, health, worker, rot, scored, expired>>
                 /\ msgs' \in [Jobs -> Nat]
      BY <3>1 DEF Redeliver, Lose, Publish, IInv, TypeOK
    <3>2. CASE Expire \/ UNCHANGED vars
      BY <3>2 DEF Expire, vars, IInv, TypeOK
    <3> QED BY <1>4, <3>1, <3>2 DEF IInv, TypeOK
  <2>2. TypeOK'
    BY <2>1 DEF jobVars, IInv, TypeOK
  <2>3. AttemptInv'
    BY <2>1 DEF jobVars, IInv, AttemptInv, OneRunner, Attempting
  <2>4. ScoreInv'
    BY <2>1 DEF jobVars, IInv, ScoreInv
  <2> QED BY <2>2, <2>3, <2>4
<1> QED
  BY <1>1, <1>2, <1>3, <1>4 DEF Next, BoundaryStep

-----------------------------------------------------------------------------
(* The theorems.                                                           *)

\* The inductive invariant holds.
LEMMA InductiveInvariant == Spec => []IInv
  BY InitIInv, IInvNext, PTL DEF Spec

\* Rows, messages and workers keep their types (checker_jobs.py, rotator.py).
THEOREM TypesKept == Spec => []TypeOK
  BY InductiveInvariant, PTL DEF IInv

\* The status check under the row lock in _start_attempt is enough: however
\* often a message is delivered again, two workers never attempt one job
\* (checker_jobs.py:175-236).
THEOREM RunnersAlone == Spec => []OneRunner
<1>1. IInv => OneRunner
  BY DEF IInv, AttemptInv
<1> QED BY InductiveInvariant, <1>1, PTL

\* should_retry_exception bounds the attempts, though _start_attempt never
\* compares the number (checker_jobs.py:64, 204).
THEOREM AttemptsKeptBounded == Spec => []AttemptsBounded
<1>1. IInv => AttemptsBounded
  BY DEF IInv, AttemptInv, AttemptsBounded
<1> QED BY InductiveInvariant, <1>1, PTL

\* Between the SELECT of the overdue jobs and the commit of the score workers
\* write rows the rotator has not locked.  The score still has a status for
\* every job and none is left to run: what the COUNT did not count has its
\* health row, and behind the deadline nothing starts (rotator.py:500-530,
\* checker_jobs.py:175-236, 401-442).
THEOREM ScoresAreFinal == Spec => ScoredWhenDone
<1> DEFINE Good == \A j \in Jobs :
                     scored'[j] # None /\ status'[j] \notin {"QUEUED", "RUNNING"}
           A == scored' # scored => Good
<1>1. IInv /\ [Next]_vars => A
  <2> SUFFICES ASSUME IInv, [Next]_vars, scored' # scored PROVE Good
    OBVIOUS
  <2>1. FinalizeCommit
    BY DEF Next, ScheduleStep, ScheduleInsert, ScheduleEnqueue, ScheduleEnqueueFails,
           ScheduleMark, ScheduleDone, FinalizeSelect, TimeOut, CountActive, ScoreRead,
           RotCrash, WorkerStep, WorkerCrash,
           Start, ChecksCommit, FinishSuccess, ChecksRaise, FinishException, RetryEnqueue,
           RetryEnqueueFails, RetryMark, Redeliver, Lose, Expire, vars
  <2>2. rot.pc = "scored" /\ scored' = rot.read
    BY <2>1 DEF FinalizeCommit
  <2>3. \A j \in Jobs : status'[j] = IF j \in rot.timed THEN "TIMEOUT" ELSE status[j]
    BY <2>1 DEF FinalizeCommit, Materialize
  <2> QED BY <2>2, <2>3 DEF IInv, ScoreInv
<1>2. Spec => [][A]_vars
  BY <1>1, InductiveInvariant, PTL DEF Spec
<1> QED BY <1>2 DEF ScoredWhenDone
=============================================================================

# KosSim: a specification

TLA+ models, TLC instances and TLAPS proofs for three programs of this
repository:

- the attack/defense control plane, `src/platform/control/app` (Python);
- the storage daemon of the challenge VaultGrid,
  `src/platform/challenges/svc2-vaultgrid/service/src` (C++), which the control
  plane checks every tick;
- the flag submission server of the ECSC 2025 gameserver,
  `src/ecsc/ecsc2025-gameserver/flag-submission-server/src` (C++).

Source references below are relative to the directory of the program they are about.

## 1. The system

### The control plane

Three kinds of processes share one PostgreSQL database and one Celery broker:

- the **API** (FastAPI, one thread per request): game control, flag submission,
  admin, team and scoreboard pages;
- the **rotator** (one process, a loop of `sleep(0.5)`): opens and closes ticks,
  scores them, queues the checker jobs;
- the **workers** (Celery): run the checks of one team's service, and
  start/stop actions on the teams' machines.

They never call each other. They meet in tables, under READ COMMITTED, with
transactions opened by `db.get_cursor`, which commits at the end and rolls back
on an exception. Almost every hazard of this code is the gap between a SELECT
and the UPDATE computed from it, or between two commits that belong together.

#### Components

| component | state | operations | module |
|---|---|---|---|
| game timer: `game_timer.py`, `game_api.py` | the `game_state` row; a `GameTimer` object per request | start, pause, stop, schedule, status; sync, boundary, finish | `GameTimer` |
| rotator: `rotator.py` | `flag_rounds`, `team_tick_points`, `scores` | main loop, `_run_tick_boundary`, `_ensure_flag_round`, `_score_tick` | `Rotator` |
| checker jobs: `checker_jobs.py`, `worker.py` | `checker_jobs`, `service_health`, the queue | schedule, start, finish, retry, finalize, ready | `CheckerJobs` |
| flag submission: `flag_submit.py`, `tcp_flag_server.py` | `submissions`, advisory locks | `submit_flags`, `_resolve_firstblood` | `FlagSubmit`, `FlagLedger` |
| scoring: `scoring.py` | none; points go from tick to tick through the table | `calculate_scoring_for_tick` | `Scoring` |
| checker executor: `checker_executor.py`, `eno_checker.py` | `flags`, `service_health`, the locals of a run | `run_checks_for`, its calls, time budget, status ladder | `CheckRun`; one step of `CheckerJobs` |
| flag format: `flag_crypto.py` | none | `make_flag`, `decode_flag` | planned |
| vulnbox actions: `vulnboxes.py` | `vulnboxes` | queued actions | not modelled, see section 6 |
| freeze: `access.py`, `scoreboard_api.py` | none | `effective_freeze_tick` | planned |
| networking: `networking.py` | `team_networks` | address plan, router files | planned |
| simulator: `src/kos_sim` | assets, two scores | rounds of moves | planned |

How they interact: the rotator calls the timer's methods inside its own
transaction; the boundary run that this transaction contains writes rounds,
points and jobs in transactions of its own, on other connections; submissions
read the tick from `game_state` and are found again by the rotator through
`submitted_at` and the window of a `flag_rounds` row; jobs reach scoring only
through `service_health`.

What would make each correct, in short (section 3 says where the code falls
short): the timer's tick counts up and orders are
not lost; each tick's jobs end, by one runner at a time, before the tick is
scored, and the scored values stay; a flag is accepted once per team, within
the cap, and one team draws first blood; every accepted submission is in the
points of exactly one tick; stored points are what happened, up to rounding.

### VaultGrid's storage daemon

A thread per request, all handlers behind one mutex (`db.mu`); objects in memory
and in SQLite, an index of flags in SQLite, and two sidecars (crypt, feed) asked
over HTTP while the mutex is held. The platform talks to it with `POST /`:
PUTFLAG, GETFLAG, PUTNOISE, GETNOISE, HAVOC, each with a client timeout, after
which the daemon goes on with the request by itself. Nothing is stored in one
transaction: an object's row, the index's row and the sidecar's record are three
commits. It is correct when what its index names exists, after a crash too, when
it always gets rid of its mutex, and when the platform's status of it is earned.

### The ECSC flag submission server

A main thread (libev loop: accept, signals, Redis, a timer that looks for new
teams) and worker threads (a libev loop each). A connection is given to a worker
through a queue and an async event. A worker reads lines, checks each flag
against what Redis has told of the game, asks the resubmission cache (an array
of atomics), inserts the flag by a connection of its own with asynchronous
commit, and queues the answer. An uncaught exception ends the process, and the
container's restart policy starts it again. The control server's timer publishes
state and round in Redis and has ticks scored that are over. It is correct when
OK is told once and for a row, when only flags that were there are called
old, when it believes nothing of the game that was not true once, when it comes
back after faults, and when every connection is served and closed.

| part | state | operations | module |
|---|---|---|---|
| `redis.cpp`, `controlserver/timer.py` | Redis keys, commands and messages on the way, what the server believes | set and publish; GET, SUBSCRIBE, reconnect | `GameFeed`, `GameView` |
| `flagchecker.cpp`, `flagcache.cpp` | the cache's array, team count | `progress_flag`, `checkFlag`, `resize` | `FlagServer`, `FlagCache` |
| `database.cpp`, `periodic.cpp` | `submitted_flags`, a connection per thread | `insertFlag`, `checkDatabase` | `FlagServer` |
| `main.cpp`, `workerpool.cpp` | connections, queues, watchers | accept, read, write, check, shutdown | `Connection` |

The hazards of all three are listed at their lines in `PROJECT.json`.

## 2. Modules

### GameTimer

`row` is the committed `game_state` row, `timer[p]` the object process `p`
loaded, `lock` the process whose open transaction has updated the row. The
methods of the class are operators on an object and the clock (`Synced`,
`Finished`, `Desired`, `Scheduled`, `BoundaryReady`); the actions put them into
transactions.

- A request is `ApiLoad` (ensure_row, SELECT) and `ApiUpdate` (every column
  written, commit). `ensure_row`'s `INSERT ... ON CONFLICT DO NOTHING` waits for
  an open transaction that has updated the row, hence the guard `MayLoad`; it
  does not stop two transactions from loading the same committed row, hence the
  lost updates. `ApiRollback` is a failing handler, and the admin API's
  `_timer_snapshot`, whose cursor has `commit=False` although it may write.
- The rotator's iteration is `RotLoad`, `RotSync`, then `RotCommit`, or
  `RotBoundary`, `RotReload`, `RotFinish`. When the game is to run, the sync
  has updated the row, so the row stays locked until the iteration commits. A
  paused or stopped game in flight is not synced, and the boundary work then
  runs with the row unlocked: requests come in between. `RotCrash` at any point.
- Nothing orders two transactions that have both loaded the row, so an order can be
  lost, and a tick too (`TickSequential` is refuted: a finding). What the code does give is
  stated for what every open transaction has *seen*: a set of rows is `Settled` when
  the committed row and each object that may still be written back are in it. A settled
  stop, schedule, last tick or tick is taken back by nobody (`StopSettles`, `ScheduleSettles`,
  `LastTickSettles`, `TickSettles`), whatever overlaps.
- `SCOREBOARD_FREEZE_TICK` is unset (NULL).

### Rotator

EXTENDS GameTimer, and composes its rotator steps with the tables the boundary
run writes: `rounds` (`flag_rounds` by round id), `jobs` (ticks that have checker
jobs), `points` (by tick), `subs` (times of accepted submissions). `RunScore` is
the run's first transaction, `RunJobs` the second, and only `Commit` or `Finish`
commits the game row around them. `NeedsJobs` is the first run of a tick, the
boundary the second; both ensure the round and try to score the tick before.

Points count submissions, which is what window and carry-over errors disturb;
the formula is Scoring's. `checker_tick_ready` is a free choice of `RunScore`: either run of a
tick may find its jobs unfinished, for `CheckerJobs` shows that even the second may
(`ScoredByTwoRuns`). A submission is two steps: `BeginSubmit` takes the time, as
`submitted_at` is that of the transaction's start; `Accept` or `Refuse` ends it, perhaps when its
window has been scored.

Three variables remember what happened, because the code's own overlaps make some
properties false: `lost` (an UPDATE has taken back a commit its process had not seen),
`late` (submissions that committed behind the score of their tick) and `skipped` (ticks
that both runs left without points). `TotalsGrow` needs none of them.

### CheckerJobs

The jobs of one tick. `ScheduleInsert`, `ScheduleEnqueue`, `ScheduleMark` and their failures are
`schedule_checker_jobs`, cut at its commits. The boundary run of the next tick is
`FinalizeSelect` (the unlocked SELECT of overdue jobs), `TimeOut` for each of them,
`CountActive`, `ScoreRead` (the health rows `_score_tick` reads) and `FinalizeCommit`; workers
commit between any two of these, except to the rows the open transaction has updated
(`Locked`), and the transaction sees its own updates (`Own`). `Start`,
`ChecksCommit`, `FinishSuccess`, `ChecksRaise`, `FinishException`, `RetryEnqueue`,
`RetryMark` are a worker's transactions, with the Python between them. The broker loses
(`Lose`) and repeats (`Redeliver`) messages; workers die (`WorkerCrash`); the rotator fails
between commits (`RotCrash`). `expired` is the deadline, which all jobs of a
tick share. The next tick has two boundary runs (`passes`). A job row and its health row are
locked together, as `_materialize_job_status` updates both. `_finish_success` and `FinishException` lock
the attempt's row first and the job's second, finalization the other way round, so PostgreSQL
may have to abort one of them: that is a `WorkerCrash` or `RotCrash` here.

Attempts, step logs and heartbeats are written and never read: left out.

### FlagSubmit

`submit_flags` as one transaction of several steps: `Begin` (the game runs, the
submitter is a team), `Enter` (the team's advisory lock is got; tick and count
are read), one step per flag by its `Verdict`, `Commit` or `Abort`. A flag that
passes all checks tries the lock of its target and service: `LoseBlood`, or
`TryBlood` and `CheckBlood`. `Visible` is READ COMMITTED: committed rows and the
transaction's own. The game underneath moves: `NextTick`, `OpenRound`,
`StopGame`, `StartGame`.

A flag is its decoded record; `Garbage` does not decode, and one of a team or service
that is not there is invalid. A flag can be submitted once its
tick has had a round, for only then do checkers store it. `at` is the tick a row
was judged by. Points per flag and source addresses are left out.

`FlagLedger` is the abstract specification: the table of submissions alone, as the rotator and
the scoreboard see it. It has one action, `Post`: a batch of one team appears, all of it or
nothing; its rows are judged by one tick and say what the rules say of their flags
(`Ruling`), a refusal at the cap only if the cap is used up (`Spent`); no
flag twice for a team, no pair marked twice, no more captures of a tick's flags than the
cap. No transaction, lock, clock or game is left in it. `LedgerKept` is the refinement, `subs` mapped
to itself. That a flag is new and a mark the first is said of *committed* rows there; in the
code a batch decides it before its commit, from what it can see.

### Scoring

`ScoreTick` scores one tick for all pairs from the rows of the tick before, the
checks of the tick and the submissions in its window. Points are integers in
units of `1/Scale`, `Scale` being 10^4 in the schema's `NUMERIC(14, 4)`; what is
stored is rounded, and the next tick starts from it. Between two roundings the
code's floats are taken as exact. `log`, `up` (the healths) and `total` (their sum) remember what
happened, for the properties. `Submittable` includes flags accepted under the tick before, by a
transaction that read it before the tick moved.

### CheckRun and VaultGrid

`VaultGrid` is the daemon. `thread` has a slot per request in progress (`Slots`
bounds them); a handler's steps are cut at its commits and at the exchange with a
sidecar: `PutVault` (maps in memory, object row), `IndexVault` (index row, answer);
`AskSidecar`, `SidecarStores`, then `SidecarConfirms`, `SidecarShows` or
`SidecarFails`. Of the sidecars (`feed/main.go`, `crypt/src/main.rs`) one handler each matters, and all
that is modelled of it is that it stores a record: a sidecar may answer, store and not answer, not
answer. One thing is assumed of it: the daemon's 5 seconds are those of one `recv`
(`proxy.cpp:27-36`, `94-95`), so a sidecar that sends a byte now and then could hold the mutex
without end, and that the exchange ends is an assumption about it. `SqlFails` is a statement that throws, answered with 500; `Crash` keeps
the tables; `Restart` loads the objects again. An object's id is a hash of its
tick and flag, so a repeated PUTFLAG replaces it; a sidecar's record has a random id,
told apart by a number. Flags and noise have `NumPayloads` variants, havoc its own `NumHavocs`
(3, 3 and 9 in the daemon). The methods of variant 1 and 2 differ in the
sidecar they ask, and in nothing else here.

`CheckRun` EXTENDS it by `run_checks_for`. `Plan` is the list of calls the code's
loops make; `run` holds the locals. A call is `Send`, then `Receive`,
`ClientTimeout` or `Disconnected`; the three account for its result in the same
way (`Account`). A thread whose client has given up keeps running in `VaultGrid`.
`BudgetExceeded` may happen before any call and must after
`BudgetTimeouts` timeouts. `Record` commits, `Raise` rolls back, and a run may be
repeated (`MaxRuns`), as `CheckerJobs` repeats it. Wording, attack info and step
logs are left out.

### GameView and GameFeed

`GameView` is an abstract specification: the master timer, and a process that may
learn any state the game can have been in and any round that has begun and is not older than the
one it knows; a new process knows nothing. `GameFeed` shows where this comes from:
`SetKey` and `Publish` are the SET and PUBLISH of the two keys, one after the other; `RunCommand` is
Redis running GET, GET, SUBSCRIBE, SUBSCRIBE, with other clients' commands in between; `Hear`
handles replies and messages in order; `Drop` breaks the connection, which ends
the process if a GET has no reply yet (`onGetKey` throws) and reconnects if not.
`FeedIsView` is the refinement, `game`, `view` and `alive` mapped to themselves.
The other six keys the timer publishes are not subscribed to.

### FlagServer and FlagCache

`FlagServer` EXTENDS `GameView` (so what Redis can do to it is what `GameFeed`
implements) and `FlagCache`, the index arithmetic of `flagcache.cpp`. A worker is
at `pc`: `Check` (all refusals up to the MAC, index computed), `AskCache`
(exchange on the array of that moment), `Prepare` (connect or reset; the round is
read), `Insert`, `Result`. The gap between the index and the exchange, and the one between the
round and the INSERT, are where teams are added, ticks end, databases crash. `CheckDatabase`,
`NewArray`, `ClearArray` are the main thread. An INSERT fails with its connection or, on a
healthy one, by an SQL error; a query of the main thread on a broken connection is an uncaught exception, `Die`. `Crash` loses any number of
the commits since the last recovery (`synchronous_commit OFF`). An index beyond
the array reads memory nothing is known of: both answers are possible. Lines
that are refused or empty leave nothing behind and have no step.

### Connection

Lines and answers are counted: `unread`, `got`, `put`. `Callback` is one call of
`callback` with any set of the events its watcher waits for: read, write,
then `Finished` or `WaitFor`. `Accept` queues a connection and sends an async event,
which libev drops if the watcher has not started, and merges if one is
pending (`woken` is a flag). A worker's two watchers start one after the other (`BreakStarted`,
`InvokeStarted`). `Signal`, `Resend`, `Break`, `Join` are the destructors
of `SubmissionServer`, `WorkerPool` and `Worker`. `active`, `cut` and `missed` are
history. What an answer says is FlagServer's.

### The proofs

`RotatorProofs` (with GameTimer's), `CheckerJobsProofs`, `FlagSubmitProofs`,
`ScoringProofs`, `CheckRunProofs` (with VaultGrid's), `GameFeedProofs`, `FlagServerProofs` (with
FlagCache's) and `ConnectionProofs`: see section 5.

## 3. Runs

| run | instance | shows |
|---|---|---|
| `GameTimer_live` | 1 handler, Rotation 1, time 3, a start time and a last tick, fair loop | types, `RowConsistent`, `PauseTakesEffect`, `ScheduledStartHappens`, `StopSettles`, `ScheduleSettles`, `LastTickSettles`, `TickSettles` |
| `CheckerJobs_job` | 1 job, 2 workers, 3 attempts, 1 message | `OneRunner`, `AttemptsBounded`, `TickScored`, `ScoredWhenDone` |
| `FlagSubmit_batches` | 2 batches of 2 teams, 2 services in both orders, junk, cap 2, 2 ticks | `NoUniqueClash`, `CapOnCurrentFlags`, `SomeoneGoesOn`, `LedgerKept` |
| `Rotator_overlap` | 1 handler, Rotation 1, time 3, 3 ticks, start/stop, 2 submissions | `RoundIdIsTick`, `WindowsDisjoint`, `PointsExact`, `PassedIsScored`, `TotalsGrow` |
| `Scoring_points` | 3 teams and the NOP team, 1 service, 4 ticks, Scale 10 | `SlaNearAverage`, `OffNearCaptures`, `DefenseOfUnhackedTicks`, `StolenCountsFlags` |
| `GameFeed_view` | 3 rounds, 2 drops or exits | `FeedIsView`, `ChangeArrives` |
| `FlagServer_faults` | 2 workers, 2 flags, 2 lines, teams 4 to 6, 1 crash, 1 exit | `AcknowledgedOnce`, `SlotInArray`, `ServerRecovers` |
| `Connection_serve` | 2 connections of 1 worker, 3 lines, queue limit 1 | `NeverDeaf`, `QueueBounded`, `AnsweredBeforeEnd`, `SocketsClosed`, `SignalEnds` |
| `CheckRun_vault` | 2 ticks, 2 variants, 3 of havoc, 2 runs, 2 threads, 1 fault | `IndexedIsKept`, `StoredFlagIsServed`, `StatusIsEarned`, `RunEnds`, `MutexIsFreed` |
| `Rotator_last_tick`, `GameTimer_lost_tick`, `FlagServer_cached` | as above | one violation each |

Further configurations, which TLC passes, take these properties to other
instances, or add one that the table has no room for; run them with `tlc -config <name>.cfg <MC module>` (`CheckerJobs`, `CheckRun`, `Connection` and
`GameFeed` need no MC module and are run themselves):
`FlagSubmit_verdicts` (every kind of flag, cap 1), `FlagSubmit_race` (every batch ends,
under fairness), `GameTimer_settled` (the `...Settles` properties with two handlers that overlap),
`CheckerJobs_score` (`ScoredWhenDone` with two jobs), `Rotator_live` (`ClosedTickScored`: with a fair loop,
overlapping starts and crashes a closed tick is scored once the next is open), `Connection_workers` (two workers),
`CheckRun_late` (two timeouts in a run). They also check the type
invariants of these modules. The others, and `NeverDecays` and `PointsEarned` of Rotator and `OldWasTried` of
FlagServer, hold in the instances of the table; add them to the configuration to see it.

### Findings

Three lines of the repository that the code does not keep (quoted in
`PROJECT.json`, `findings`), with TLC's shortest run:

- **last tick** (`LastTickScored`): a tick is scored by its successor's boundary run; the
  tick at which `stop_after_tick` stops the game has none.
- **lost tick** (`TickSequential`): a pause loads tick 0; the rotator opens and commits tick 1; the
  pause writes tick 0 back, and the number shown goes 1, 0, 1.
- **cached flag** (`OldIsStored`): the cache is marked before the INSERT. The
  database goes down, the client is told of an internal error, submits the flag again,
  and is told it was already submitted; the flag is stored nowhere, until the
  slot is used by another.

### Other departures

Configurations kept beside the runs reproduce more behaviours in which the code
does not do what one of its documents or comments says or suggests. TLC refutes
the properties named (where a configuration has several it stops at the first; take that one out
to see the next):

| configuration | property | what happens |
|---|---|---|
| `GameTimer_claims` | `ResumeTicks` | a pause takes effect at the end of a tick and clears its times; start sets the state, but no code gives a tick >= 1 its times again (`docs/event-day-runbook.md:101`: "Use pause when rotation and checking should stop temporarily") |
| | `TickLastsRotation` | the boundary work runs with the row unlocked when the game was not to be synced; a request moves the row, and `finish_boundary` closes what it finds |
| `CheckerJobs_claims` | `HealthMatchesJob` | finalization falls between a worker's two commits |
| | `ScheduleKeepsTerminal` | an enqueue error overwrites the status of a job that an earlier or repeated message has let finish |
| | `ScoredByTwoRuns` | a retry decided before the deadline reactivates a job between the SELECT of overdue jobs and the COUNT, in each of the two runs |
| `FlagSubmit_no_blood` | `BloodIsDrawn` | the loser of the first-blood lock commits its accepted row unmarked before the winner looks for earlier rows: nobody is first |
| `FlagSubmit_cap_bypass` | `CapHolds` | the cap counts rows by round of issue, so flags of an older tick do not use it up |
| `Rotator_claims` | `AcceptedScores` | ticks open when the loop comes round, not when their predecessor ended; flags accepted between the two are in no window |
| | `RoundIsOpenTick` | the inner commits of a boundary run survive the rollback of the tick they belong to |
| `CheckRun_claims` | `SuccessIsComplete` | a flag that was never stored is MISSING in `flag_avail`, yet not asked for, and the status stays SUCCESS (the wiki's `scoring.md:22`: "all flags could be successfully deployed and retrieved") |
| | `StoredFlagIsIndexed` | a PUTFLAG whose sidecar failed is answered OK with an error as its attack info; the platform stores the flag (the challenge's own `checker.py:105` takes it for a failure) |
| | `HavocFailIsHavoc` | the time budget ends a run before HAVOC, and the scoreboard shows HAVOC as failed (`eno_checker.py:267`: "the failure must be HAVOC") |
| `GameFeed_lost_publish` | `ListenerKnows` | what is published between GET and SUBSCRIBE is never heard |
| `FlagServer_resize` | `FreshIsNotOld` | a resize moves the slots under a worker that has computed its index; a flag submitted once is called old |
| `FlagServer_unscored` | `StoredIsScored` | the round is read before the INSERT; the row commits after its tick has been scored (`README.md:91` of the server: "valid flag submissions always add positive points") |
| `Rotator_decay` | `ShownNeverDecays` | totals are carried over from exactly the tick before; a tick whose two boundary runs both find unfinished jobs has no points, and the next one starts from zero (`wiki_api.py:121`: "Attack and defense totals never decay.") |
| `Rotator_two_requests` | `RoundIdIsAlwaysTick` | two requests and the rotator at once: a pause writes tick 1 back over tick 2 while a start still holds tick 2; the rotator runs the boundary of tick 1 again, the start commits tick 2 before `finish_boundary` reloads, so tick 3 opens with no round 2 made since, and the next row of `flag_rounds` takes another tick's number (27 states; no document claims otherwise) |
| `Connection_active` | `ActiveIsKept` | nothing sets `hasSeenActivity` again, so the second check ends a busy connection (`main.cpp:99`: "set to true for activity") |
| `Connection_early` | `AcceptedIsServed` | a connection accepted before its worker's watcher has started waits for the next one |

`StoredWhileValid` of FlagServer is refuted by the same gap as `StoredIsScored`.

Differences between a document and the code that need no run to see:
`docs/schema.md:39` speaks of flags of the current tick only, while
`flag_submit.py` accepts the retention window; `docs/schema.md:28` adds an
uptime term, `rotator.py:341` does not; `docs/schema.md:68` lists a verdict
`stale_round` that the code never returns; a client timeout is stored as CRASHED
(`eno_checker.py:96`, `:225`), while the status ladder knows TIMEOUT; VaultGrid's
`http.cpp:123` sends no other headers than its own, so a session cookie set by
a handler never reaches the client.

### Bounds

`MaxTime` and `MaxTick` bound the clock and the ticks: three ticks are enough
for a tick with a predecessor and a successor, and for a stopped game to come back to
tick 1. Where `MaxTick` is 9, `MaxTime` is what binds. One handler shows the
races between a request and the rotator; two, in the further configuration `GameTimer_settled`, those between requests
(time 1 is enough there for a boundary in a tick that has ended); the theorems hold for any set of handlers.
`MaxSubs` 2 is a submission in each of two windows, or two in one. `MaxMsgs`
is 1: a redelivery while a worker holds the job is then still possible, for the
message of a started job has left the queue. `MaxAttempts` 3 lets a job be
retried twice, and a mark failure hit a job another worker runs. Liveness of
`CheckerJobs` takes one job: jobs meet only in `TickReady`, which counts them, and in the score, for
which the further configuration `CheckerJobs_score` has two.
Two services and two teams give the smallest lock cycle. In Scoring a unit is a tenth instead
of a ten-thousandth, so that thirds and averages round visibly; a service of one
payload has three flags a tick.

`GameFeed`: `MaxDrops` 2, so that a second break or exit meets the recovery from
the first; `MaxRound` 3. `FlagServer`: `MaxLines` 2 and `MaxCrashes`, `MaxExits` 1; two
flags that differ in one field collide if any index can, and more teams appear
once. One worker thread more would add only further racers for the same INSERT. `UIntRange` is the width
of the cache's size, cut to what TLC can count, and never reached by a real number of teams.
`Connection`: a `QueueLimit` of 1 or 0 stands for the 32 of the code and a read
brings one line, so that the limit is met and passed; three lines are one more than the queue
and the answer being written. `CheckRun`: two ticks make one window with an older tick
in it; `Slots` 2 are one request in hand and one that its client gave up; `MaxFaults` 1;
two runs are an attempt and its repetition or successor; `NumHavocs` 3 exceeds `NumPayloads` as the daemon's 9 exceed its 3. Retention 2 is the
smallest with GETFLAG calls.

Symmetry is used over the requests of `FlagSubmit` and, in the further configuration `GameTimer_settled`, the handlers, and in safety runs only.

Deadlock checking is off where the modelled world may end: the one tick of
`CheckerJobs`, the last tick of `Scoring`; the last round of `GameFeed` and `FlagServer`,
once their lines and faults are used up; the end of the process in `Connection`;
the last run of `CheckRun`.

## 4. Fairness

- Clock: weakly fair.
- Rotator: its loop catches every exception and comes round. Loading is weakly
  fair in `GameTimer`, where a request holds the row for one
  step only; all later steps are strongly fair, because a crash may end any
  iteration, yet not every one. This is what "the rotator keeps running" means
  in Docker with a restart policy. No fairness for crashes, requests or
  submissions: in `GameTimer_live` and `Rotator_live` a request may be in flight for ever.
- `CheckerJobs_job`: the same for the rotator; nothing is assumed of workers or
  the broker, they may do nothing at all or fail for ever.
- `FlagSubmit_race`: a transaction that can go on does, and one that waits for a
  lock which is free again and again gets it. No client need submit.
- `GameFeed`: Redis, the event loop and the restart policy go on, and so does a timer
  that has begun to publish; the game need not go on, and connections may break
  as often as the bound allows.
- `FlagServer`: workers that have a line, the main thread's timer, the restart
  policy, and whoever brings the database back. Nobody need submit; a database
  that stays down for ever is excluded, for without it the server is down by design.
- `Connection`: the worker threads and their timers; not the sockets, not the
  clients, not a signal. `SocketsClosed` therefore rests on `check` alone.
- `CheckRun`: threads, client timeouts and the worker that runs the checks. The sidecars
  need never answer, but an exchange with one ends (see VaultGrid); the daemon need not be
  started again.

## 5. Proofs

Each theorem holds for every value of the constants, from the `ASSUME`s of its
module and nothing else: any number of handlers, workers, jobs, flags, connections, ticks,
any bound. In each module an inductive invariant carries the safety theorems; the
properties themselves are checked by TLC on the instances of section 3 as well. The theorems:

| module | theorems |
|---|---|
| `RotatorProofs`, of GameTimer | `TypeCorrect`, `RowStaysConsistent`, `StopsSettle`, `SchedulesSettle`, `LastTicksSettle`, `TicksSettle` |
| `RotatorProofs`, of Rotator | `ImplementsGameTimer`, `TablesKeepTypes`, `TotalsAreEarned`, `TotalsOnlyGrow`, `RoundsAreTicks`, `WindowsStayDisjoint`, `PointsStayExact`, `NoTickIsPassedOver`, `TotalsNeverDecay` |
| `CheckerJobsProofs` | `TypesKept`, `RunnersAlone`, `AttemptsKeptBounded`, `ScoresAreFinal` |
| `FlagSubmitProofs` | `TypesKept`, `NoClash`, `FirstBloodOnce`, `CapKept`, `ImplementsLedger` (the refinement), `NoWaitingInARow`, `LocksAreReleased` |
| `ScoringProofs` | `TypesKept`, `SlaStaysNear`, `OffStaysNear`, `DefenseIsEarned`, `StolenCountedOnce` |
| `CheckRunProofs` | `TypesKept`, `NamedIsKept`, `StoredIsServed`, `StatusesAreEarned` |
| `GameFeedProofs` | `TypesKept`, `FeedImplementsView` (the refinement) |
| `FlagServerProofs` | `TypesKept`, `RowsAcknowledgedOnce`, `AssumesOnlyView`, `RowsAreOfBegunTicks`; with `NoOverflow`: `IndexInArray`, `OldFlagsWereTried` |
| `ConnectionProofs` | `TypesKept`, `LiveIsNeverDeaf`, `QueueStaysBounded`, `EndsAnswered` |

### Game timer

`RowConsistent` speaks of the row only and is not inductive: what will be written
comes from objects loaded long before. `ConsistentInv` therefore says that every
loaded object is consistent, and each method of the class preserves that
(`OpenTickGood`, `SyncedGood`, `FinishedGood`, `DesiredGood`, `ScheduledGood`).
Nothing in it depends on the order of transactions, which is why it survives
lost updates.

The `...Settles` theorems are about one step from any state of `ConsistentInv`. `SettledStays`
is their core: a set of rows stays settled if no method leads out of it, because a load copies
what is settled and whatever is written back was computed from such a copy. It makes no
assumption on the order of transactions. What remains for each theorem is that
`Result`, `Synced` and `Finished` lead out of the set in no way but the one it names
(`StopStepped`, `ScheduleStepped`, `LastTickStepped`, `TickStepped`, with `ResultKeeps`,
`FinishedKeeps`, `SyncedKeeps`).

### Rotator

`ImplementsGameTimer` maps every step to a step of GameTimer or a stutter, so the
timer's theorems hold of the composition. The types (`TablesKeepTypes`), `TotalsAreEarned` and
`TotalsOnlyGrow` hold whatever is lost: a row of `flag_rounds` is never changed (`RowsStay`), so a
tick's window only gets more submissions (`WindowsGrow`), and a total written again is
that of a window no smaller plus a total carried over that is no smaller.

For the rest the invariant is `RInv`: rounds are
made one after another, each in a window of its own that has begun (`RoundsOK`);
each round's predecessors but the last have had their chance to be scored (`HadOK`, from which `PassedIsScored` follows), and while no
tick is skipped the scored ticks are the first ones, and a total is the content of the windows up
to it but for what was late (`PointsOK`); the tables are ready for the tick of the row and of the
rotator's object, or have it already (`Fits`); what the rotator works on is not behind the row,
except that tick 1 may be opened again after a stop (`AheadInv`); and how far a boundary
run has come, with the tick it leaves closed (`StageInv`). A repeated scoring then can
add what was late, and nothing else.

`RInv` holds until an UPDATE takes back a commit it has not seen: what is proved is
`lost \/ RInv`. Requests may overlap with each other and with the rotator all the same, with any
number of handlers; only those that actually undo each other are excluded. That this is needed
`Rotator_two_requests` shows for `RoundIdIsTick`, as soon as two requests undo the rotator's work.

### Checker jobs

`AttemptInv`: whoever attempts a job knows its last number and has taken it out of
the states `_start_attempt` accepts; it goes back there only by the retry of
that same attempt, below the bound. A second message therefore finds nothing to
start, and a late decision to retry finds another number. `RotInv`: the next boundary
runs behind a scheduling pass, so it sees a row of every job. `ScoreInv`: from the COUNT to the commit a
job the transaction has not timed out itself is neither queued nor running, though its worker may
write, for behind the deadline no job is started; and a health row, once there, is only replaced. `ScoresAreFinal`
follows at the commit. A job may be RETRYING then (a retry decided before the deadline), but
it has the status of an earlier result.

### Submission

`RequestInv`: a transaction that has read anything holds its team's lock, and the
locks of the pairs it has marked. `SeenInv` is the part a test cannot reach: what a
transaction *sees* has no flag twice, fits the count it read, and keeps the cap, although
what it sees grows while it runs. Commits of other teams leave its team's rows alone,
and its own team's cannot commit without the lock. `StoredInv` follows at each commit; `BloodInv`
is about committed and uncommitted rows alike, because the look-up that decides sees only
the committed ones and the lock covers the others.

`ImplementsLedger` maps every step but `Commit` to a stutter, and `Commit` to `Post`. What the batch
decided row by row must therefore still be true of the table when it commits, and that is what
`LedgerInv` adds: all rows of an open batch are new and judged by the tick it read; what each says
is its `Ruling`, or it is a refusal of a good flag for which the cap is used up by now; and the
count the batch goes by is the captures it found under that round plus its *own*, whatever their
round. The last is an equation, not a bound: it needs that nobody else adds captures of the
team while the batch is open, so it rests on the lock like the rest, and it is why the
abstract specification's cap counts found and own captures by different rounds (`Spent`; the
configuration `FlagSubmit_cap_bypass` shows what follows). `CommitPosts` puts the parts together.

`NoWaitingInARow` is `SomeoneGoesOn` with the guards of the actions written out
(`CanGoOn`) in place of ENABLED: a batch that cannot go on waits for one of its own team, and that one
can. `LockInv` says a lock is held by an open batch, of its team, and that an open batch always has a step: of each
verdict some action says what to do. That there is no circle of waits follows, and that a pair's lock,
which is tried and not waited for, can be part of none. TLC confirms on the
instance of `FlagSubmit_batches` that `CanGoOn(r)` is `ENABLED RequestStep(r)`.

### Scoring

Each property is inductive together with the others and with `LogInv` (finitely many submissions, none later
than the tick). `RoundDivNear` bounds a rounding by half a unit. For the running average
that is not the bound of the result: the error of one tick is carried into the next with the
weight of the ticks behind it. `SlaStep` shows that weighted errors add up to at most `tick (tick + 1) / 4`
units over `tick` ticks, so the average is off by `(tick + 1) / 4` at most: it does grow with the length of the
game. `OffStep` adds half a unit a tick. For the counts, `WorthyStep` splits what is worth something
after a tick into what was before and the tick's valid events; `StolenStep` needs that a flag
known from an earlier tick was worth something then if it is now, which is where an expired
flag submitted again could have been lost from the count.

### Checks and VaultGrid

`VaultInv`: a thread between two commits has left behind what its next one refers to
(`ThreadInv`), and a tick's records are numbered without a gap, so a new one is new
(`Numbered`). From this `IndexedIsKept` is inductive over crashes and restarts.
`StoredIsServed` needs more than the daemon: `WaitOK` (what the client waits for is a thread with
its request, and the thread's answer is what the daemon has done), `RowsOK` (a row of `flags`,
committed or in the run's transaction, of the vault's own variant is in the index)
and `RunOK` (the locals of a run follow its plan). `Progress` states for every step of the
daemon what it may do to a thread and the index; the run's cases use only that.

### Game feed

`StreamInv`: the rounds on the way are in order, none below the one the server knows, none above
the one Redis has. This is what makes a reply that overtakes nothing, and
a message published before the reply was sent, harmless. Every step then maps to a
step of `GameView` or a stutter; `Drop` with a GET unanswered is the abstract process's end.

### Flag server

The index is a mixed-radix number: `DigitBounds` and `DigitUnique` give that a covered submission's
index is below `Volume`, and that different submissions differ in slot or key
(`SlotAndKeyUnique`). `AckInv`: a row has at most one worker that will be told of it, and
the number of OKs told is at most one more than the times the row was lost; `MarksInv`: until a resize, what
the array holds is the key of a submission that was tried; `SizeInv`: the array fits
the team count, except in the middle of a replacement.

`AssumesOnlyView` closes a gap between two modules: FlagServer's steps of the game and
its feed are steps of `GameView` or stutters, also where a worker's exception ends the
process, and `FeedImplementsView` proves that of Redis and the control server's timer. What is
proved of the server therefore rests on nothing the feed does not give. `RowsAreOfBegunTicks` uses it:
rounds only rise (`RoundRises`), and a worker's round and a row's are taken from the view
or from a worker (`TicksAfter`).

`NoOverflow` says that for the team counts the database can have, the product of
dimensions is below the range of `unsigned int`, in which `cache_size` is computed. Without it
the array is too small for its indices. The configured buckets and team counts are far below.

### Connection

`ConnInv`: while a connection lives there is something left to do for it, and the events of its
watcher are those `callback` computes from its state, even though clients
write, close and reset in between. `QueueInv`: what is queued for a worker has
not run and is queued once.

### What is assumed

The `ASSUME`s, which TLC evaluates in every run, say that NULL and the process names are not data
(`ProcAssumption`, `JobsAssumption`, `RotatorAssumption`, `VaultAssumption`), that bounds are numbers and
configured quantities positive, and: ticks start at 1 without gaps (`CheckAssumption`),
flags name a service, offers are made by teams (`FlagsAssumption`), a submission is a record whose
round is at least 1, as the decoder sees to, and the test round is a 16-bit number (`ServerAssumption`).
Only Scoring assumes that teams and services are finitely many (`FiniteAssumption`), for it counts
submissions; no set of workers, jobs, requests, flags or connections is assumed finite.

### What the proofs found

- `Verdict` of FlagSubmit was a CASE with overlapping guards, of which TLA+ does not
  say the first is taken; it is now the chain of IFs the code has.
- `RoundIdIsTick` was believed to survive lost updates. The proof did
  not go through, and `Rotator_two_requests` is why; `lost` is what the proof needs.
- That a total shown is never lowered needs no condition on overlaps (`TotalsOnlyGrow`), while
  that it is exact does.
- The cache's two properties need `NoOverflow`; `AttemptsBounded` needs no bound on messages.
- `SomeoneGoesOn` used to say only that some batch can go on, which a proof by its own invariant
  shows to be less than the code gives; it now says who is waited for, and that this one goes on.
- That the cap's count is exact, found plus own, came out of the refinement; before it was only
  known to be no less than the captures of the tick's flags.

### Only model-checked

- Liveness (all `~>` and `<>` properties) and `ENABLED` (in `SomeoneGoesOn`): outside the
  prover's reach. For the latter, `NoWaitingInARow` proves the same of the guards.
- The properties of the configurations under Departures, which are false.

## 6. Not modelled

The `not_modelled` components of `PROJECT.json` give their reasons. In the modelled
ones: logging, history snapshots and audit rows that nothing reads; JSON, base64,
HMAC and wording; authentication; what the services' own checkers do.

- **Vulnbox actions**: a worker runs a script for minutes and then writes desired
  and observed status. Any two queued actions, an acknowledged message whose update fails,
  and a soft time limit shorter than the action's own leave the two apart, and the code
  has no place that compares them or says what they should be: there
  is nothing to hold it to.
- **VaultGrid** beyond `POST /`: accounts, sessions, leases, pages, audit log and its
  trimming. No check and no flag depends on them.
- **Flag submission server**: statistics; a number of services that grows while it
  runs (teams do); a database that comes up with fewer teams; several submission
  servers at once.
- **ECSC services** (AngelScript compiler and VM, Tracy, gitter, Jitterish, firewall):
  vendored libraries and targets of the game, which no part of the platform runs.
  They are most of the C and C++ in the repository, and their sequential parsing and
  compiling is not what a model checker is for.

## 7. Plan

Done, the most important behaviour first: timer, jobs, submission, rotator,
scoring; then the checks with VaultGrid, the game feed with its abstract view,
the flag server with its cache, its connections.

Every invariant and action property that a run checks is proved, `SomeoneGoesOn` in terms of guards. If
the development is carried on:

1. `FlagSubmit` and `Rotator` composed: a flag's judged tick against the window of its
   `submitted_at`. `FlagLedger` is the form in which submissions enter that module.
2. `CheckerJobs` and `CheckRun` composed: the step `ChecksCommit` as what a run of the checks
   writes, and `HealthMatchesJob` with the repair it needs.
3. `Freeze` (`effective_freeze_tick` over GameTimer's row), `FlagCrypto`, `Networking`, `Simulator`.

None of the modules declares a RECURSIVE operator.

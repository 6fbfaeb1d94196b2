------------------------------ MODULE Rotator ------------------------------
(***************************************************************************)
(* The rotator over the GameTimer: what a boundary run writes besides the  *)
(* game row (platform/control/app/rotator.py).  A run for tick T makes the *)
(* flag_rounds row of T, scores T-1 from the submissions whose time lies   *)
(* in the window of its row, and commits; then it inserts the checker jobs *)
(* of T and commits; only then the transaction around it, which holds the  *)
(* game row, commits.  A run is made when T has no jobs yet and again when *)
(* T ends.  An exception may come between any two of the commits.          *)
(*                                                                         *)
(* Points are the number of submissions counted: the formula is Scoring's. *)
(* Whether the jobs of a tick are through is CheckerJobs' question, and    *)
(* ScoredByTwoRuns there: here either run may find them unfinished.        *)
(*                                                                         *)
(* Three variables are no state of the code, but remember what happened:   *)
(* lost, whether an UPDATE has taken back a commit it had not seen, which  *)
(* the unlocked read of the game row allows; late, the submissions that    *)
(* committed when their tick had been scored; and skipped, the ticks whose *)
(* second run left them without points.                                    *)
(***************************************************************************)
EXTENDS GameTimer, FiniteSets

CONSTANTS
  Orders,   \* the requests that are made, of Ops
  MaxSubs   \* bound on the submissions

Round == [tick : Nat \ {0}, start : Nat, end : Nat]

ASSUME RotatorAssumption ==
  Orders \subseteq Ops /\ MaxSubs \in Nat /\ MaxTick >= 1 /\ NoVal \notin Round

VARIABLES
  rounds,   \* flag_rounds by round_id: [tick, start, end], or NoVal
  jobs,     \* ticks with rows in checker_jobs
  points,   \* team_tick_points by tick: submissions counted so far, or NoVal
  subs,     \* submitted_at of the accepted submissions
  pending,  \* submitted_at of the open transactions that submit
  stage,    \* how far the iteration's boundary run is: what it has committed
  lost,     \* history: some update was lost
  late,     \* history: submissions committed after their tick was scored
  skipped   \* history: ticks without points when their second run was over

tables == <<rounds, jobs, points, subs, pending, late, skipped>>
allVars == <<vars, tables, stage, lost>>

Ticks == 1..MaxTick

RInit ==
  /\ Init
  /\ rounds = [r \in Ticks |-> NoVal]
  /\ jobs = {}
  /\ points = [k \in Ticks |-> NoVal]
  /\ subs = {}
  /\ pending = {}
  /\ stage = "none"
  /\ lost = FALSE
  /\ late = {}
  /\ skipped = {}

Rounds(rs) == {r \in Ticks : rs[r] # NoVal}

\* COALESCE(MAX(tick), 0) over flag_rounds.
LastRoundTick ==
  LET ticks == {0} \cup {rounds[r].tick : r \in Rounds(rounds)}
  IN CHOOSE k \in ticks : \A l \in ticks : l <= k

\* Mutant: an existing row is numbered anew.
EnsureRoundRenumbers(r, t) ==
  [rounds EXCEPT ![r] = [tick |-> LastRoundTick + 1, start |-> t.start, end |-> t.end]]

\* Mutant: an existing row takes the new times.
EnsureRoundMoves(r, t) ==
  [rounds EXCEPT ![r] = [tick |-> IF @ = NoVal THEN LastRoundTick + 1 ELSE @.tick,
                         start |-> t.start, end |-> t.end]]

\* _ensure_flag_round: an existing row is left as it is.
EnsureRound(r, t) ==
  IF rounds[r] # NoVal THEN rounds
  ELSE [rounds EXCEPT ![r] = [tick |-> LastRoundTick + 1, start |-> t.start, end |-> t.end]]

\* Of some submissions those in the window of the row(s) of a tick; with no
\* row there is none.
Window(rs, S, k) ==
  {s \in S : \E r \in Rounds(rs) : rs[r].tick = k /\ rs[r].start <= s /\ s < rs[r].end}

Carried(k) == IF k > 1 /\ points[k - 1] # NoVal THEN points[k - 1] ELSE 0

\* Mutant: a tick that is scored again adds to what it has.
ScoredAgain(rs, k) ==
  [points EXCEPT ![k] = Cardinality(Window(rs, subs, k)) + (IF @ # NoVal THEN @ ELSE 0)
                          + Carried(k)]

\* Mutant: a tick scored again is scored without the totals before it.
ScoredAlone(rs, k) ==
  [points EXCEPT ![k] = Cardinality(Window(rs, subs, k)) + IF @ # NoVal THEN 0 ELSE Carried(k)]

\* _score_tick: the points of the tick before, if it has any, and this tick's.
Scored(rs, k) == [points EXCEPT ![k] = Cardinality(Window(rs, subs, k)) + Carried(k)]

\* The main loop's first run for a tick.
NeedsJobs(t) ==
  /\ t.state = "RUNNING"
  /\ t.tick >= 1
  /\ t.tick \notin jobs
  /\ t.start # NoVal
  /\ t.end # NoVal

\* Mutant: the first tick is taken for one that has none before it.
DueOffByOne(k) == k > 1

\* Whether there is a tick before, to be scored: tick > 1.
Due(k) == k >= 1

\* The first transaction of _run_tick_boundary.
RunScore ==
  /\ stage = "none"
  /\ \/ pc[Rot] = "synced" /\ NeedsJobs(timer[Rot])
     \/ pc[Rot] = "boundary"
  /\ LET r == timer[Rot].tick
         rs == EnsureRound(r, timer[Rot])
         k == rs[r].tick - 1
     IN /\ rounds' = rs
        /\ \/ Due(k) /\ points' = Scored(rs, k) /\ UNCHANGED skipped
           \/ /\ Due(k)                                 \* checker_tick_ready fails
              /\ skipped' = IF pc[Rot] = "boundary" /\ points[k] = NoVal
                            THEN skipped \cup {k}
                            ELSE skipped
              /\ UNCHANGED points
           \/ ~Due(k) /\ UNCHANGED <<points, skipped>>
  /\ stage' = "scored"
  /\ UNCHANGED <<vars, jobs, subs, pending, lost, late>>

\* schedule_checker_jobs, for the tick that _ensure_flag_round returned, and the
\* return to the main loop.
RunJobs ==
  /\ stage = "scored"
  /\ jobs' = jobs \cup {rounds[timer[Rot].tick].tick}
  /\ stage' = IF pc[Rot] = "boundary" THEN "done" ELSE "ran"
  /\ UNCHANGED <<vars, rounds, points, subs, pending, lost, late, skipped>>

\* The first run, if there has to be one, is over.
FirstRunOver == stage = "ran" \/ (stage = "none" /\ ~NeedsJobs(timer[Rot]))

\* The UPDATE of p takes back what was committed since p read the row.
Overwrites(p) == timer[p] # Seen(p)

Load == RotLoad /\ UNCHANGED <<tables, stage, lost>>

Sync == /\ RotSync
        /\ lost' = (lost \/ (ShouldRun(timer[Rot], now) /\ Overwrites(Rot)))
        /\ UNCHANGED <<tables, stage>>

Commit == /\ RotCommit
          /\ FirstRunOver
          /\ stage' = "none"
          /\ UNCHANGED <<tables, lost>>

Boundary == /\ RotBoundary
            /\ FirstRunOver
            /\ stage' = "none"
            /\ UNCHANGED <<tables, lost>>

Reload == /\ RotReload
          /\ stage = "done"
          /\ UNCHANGED <<tables, stage, lost>>

Finish == /\ RotFinish
          /\ stage' = "none"
          /\ lost' = (lost \/ Overwrites(Rot))
          /\ UNCHANGED tables

Crash == /\ RotCrash
         /\ stage' = "none"
         /\ UNCHANGED <<tables, lost>>

\* submit_flags: the transaction begins, which is the submission's time, and
\* finds the game running.  A flag is there once some checker has stored it; one
\* submission a second is enough to tell the windows.
BeginSubmit ==
  /\ row.state = "RUNNING"
  /\ jobs # {}
  /\ now \notin subs \cup pending
  /\ Cardinality(subs \cup pending) < MaxSubs
  /\ pending' = pending \cup {now}
  /\ UNCHANGED <<vars, rounds, jobs, points, subs, stage, lost, late, skipped>>

\* It commits, perhaps when the tick of its time has been scored.
Accept(s) ==
  /\ s \in pending
  /\ pending' = pending \ {s}
  /\ subs' = subs \cup {s}
  /\ late' = IF \E k \in Ticks : points[k] # NoVal /\ Window(rounds, {s}, k) # {}
             THEN late \cup {s}
             ELSE late
  /\ UNCHANGED <<vars, rounds, jobs, points, stage, lost, skipped>>

\* The flag is refused, or the transaction fails.
Refuse(s) ==
  /\ s \in pending
  /\ pending' = pending \ {s}
  /\ UNCHANGED <<vars, rounds, jobs, points, subs, stage, lost, late, skipped>>

Request(a) ==
  /\ \/ /\ \E op \in Orders, body \in Schedules \cup {NoSchedule} : ApiLoad(a, op, body)
        /\ UNCHANGED lost
     \/ /\ ApiUpdate(a)
        /\ lost' = (lost \/ (Updates(req[a], timer[a], now) /\ Overwrites(a)))
     \/ ApiRollback(a) /\ UNCHANGED lost
  /\ UNCHANGED <<tables, stage>>

RotatorStep ==
  Load \/ Sync \/ RunScore \/ RunJobs \/ Commit \/ Boundary \/ Reload \/ Finish

RNext ==
  \/ RotatorStep \/ Crash
  \/ BeginSubmit
  \/ \E s \in pending : Accept(s) \/ Refuse(s)
  \/ \E a \in Api : Request(a)
  \/ Elapse /\ UNCHANGED <<tables, stage, lost>>

RSpec == RInit /\ [][RNext]_allVars

\* As for the GameTimer: the loop goes on and not every iteration crashes.
\* Nothing is assumed of requests and submissions.
RFairSpec ==
  /\ RSpec
  /\ WF_allVars(Elapse /\ UNCHANGED <<tables, stage, lost>>)
  /\ SF_allVars(Load)
  /\ SF_allVars(Sync)
  /\ SF_allVars(RunScore)
  /\ SF_allVars(RunJobs)
  /\ SF_allVars(Commit)
  /\ SF_allVars(Boundary)
  /\ SF_allVars(Reload)
  /\ SF_allVars(Finish)

-----------------------------------------------------------------------------

TablesOK ==
  /\ rounds \in [Ticks -> Round \cup {NoVal}]
  /\ jobs \subseteq Nat \ {0}
  /\ points \in [Ticks -> Nat \cup {NoVal}]
  /\ subs \subseteq Nat /\ pending \subseteq Nat /\ late \subseteq subs /\ skipped \subseteq Nat
  /\ stage \in {"none", "scored", "ran", "done"}
  /\ lost \in BOOLEAN

(* The total of a tick, once written, only grows, and by nothing but       *)
(* submissions that lie in the window of some tick up to it: whatever      *)
(* updates of the game row are lost, and however often and in what order   *)
(* ticks are scored, none is scored twice into a total and no total shown  *)
(* is taken back (README.md:69, rotator.py:429-459, scoring.py:203-215).   *)
TotalsGrow ==
  [][\A k \in Ticks : points[k] # NoVal =>
       points'[k] # NoVal /\ points'[k] >= points[k]]_allVars

(* The bound behind it: a total is at most what its window and the tick    *)
(* before account for.                                                     *)
PointsEarned ==
  \A k \in Ticks : points[k] # NoVal =>
    points[k] <= Cardinality(Window(rounds, subs, k)) + Carried(k)

(* Round ids are given by the game row, tick numbers of rounds by counting *)
(* rows, and the rest of the platform takes the two for the same           *)
(* (rotator.py:62-81, 567-599).  Nothing but a lost update of the game row *)
(* can part them.                                                          *)
RoundIdIsTick == lost \/ \A r \in Rounds(rounds) : rounds[r].tick = r

(* No two rounds claim the same submission (rotator.py:233-250), unless an *)
(* update of the game row was lost.                                        *)
WindowsDisjoint ==
  lost \/ \A r, q \in Rounds(rounds) : r < q => rounds[r].end <= rounds[q].start

(* The points of a tick are those of all ticks up to it, each submission   *)
(* counted once and only the late ones perhaps not at all: no tick is      *)
(* skipped, scored in the wrong order, or scored twice into the total,     *)
(* whatever is retried (rotator.py:429-459, scoring.py:203-215), unless an *)
(* update of the game row was lost or the jobs of a tick outlasted both    *)
(* its runs.                                                               *)
UpToTick(S, k) == Cardinality(UNION {Window(rounds, S, l) : l \in 1..k})

PointsExact ==
  \/ lost \/ skipped # {}
  \/ \A k \in Ticks : points[k] # NoVal =>
       UpToTick(subs \ late, k) <= points[k] /\ points[k] <= UpToTick(subs, k)

(* Every tick that is closed is scored once the next one is open, in a     *)
(* game that goes on and whose row has lost no update, or its jobs have    *)
(* outlasted both runs (rotator.py:500-529).                               *)
ClosedTickScored ==
  \A k \in Ticks \ {MaxTick} :
    (row.tick = k + 1 /\ row.end # NoVal /\ row.end <= MaxTime)
      ~> (points[k] # NoVal \/ k \in skipped \/ row.desired # "RUNNING" \/ lost)

(* No tick is passed over: when the round after its successor is made, it  *)
(* is scored, or both runs of its successor found its jobs unfinished,     *)
(* wherever runs crash and whatever requests overlap them, unless an       *)
(* update of the game row was lost (rotator.py:500-529, 567-599).          *)
PassedIsScored ==
  lost \/ \A r \in Rounds(rounds) : \A k \in 1..r - 2 : points[k] # NoVal \/ k \in skipped

(* What the scoreboard shows, the last row of team_tick_points.            *)
Shown(p) ==
  LET ticks == {k \in Ticks : p[k] # NoVal}
  IN IF ticks = {} THEN 0 ELSE p[CHOOSE k \in ticks : \A l \in ticks : l <= k]

(* Totals never decay until an update of the game row is lost or a tick is *)
(* skipped (rotator.py:122-149, 429-459).                                  *)
NeverDecays == [][lost' \/ skipped' # {} \/ Shown(points') >= Shown(points)]_allVars

(* Attack and defense totals never decay (wiki_api.py:121).                *)
ShownNeverDecays == [][Shown(points') >= Shown(points)]_allVars

(* Round ids are tick numbers, whatever overlaps.                          *)
RoundIdIsAlwaysTick == \A r \in Rounds(rounds) : rounds[r].tick = r

(* Every accepted submission made before a scored tick ended is in the     *)
(* points of that tick (wiki_api.py:93).                                   *)
AcceptedScores ==
  \A k \in Rounds(rounds), s \in subs :
    points[k] # NoVal /\ s < rounds[k].end => \E r \in 1..k : Window(rounds, {s}, r) # {}

(* The round of the open tick is the time of that tick (rotator.py:236).   *)
RoundIsOpenTick ==
  row.end # NoVal /\ row.tick \in Rounds(rounds) =>
    rounds[row.tick].start = row.start /\ rounds[row.tick].end = row.end

(* The last tick the organisers ask for is scored like any other           *)
(* (wiki_api.py:93).                                                       *)
LastTickScored ==
  \A k \in Ticks :
    (row.stopAfter = k /\ row.tick = k /\ row.state = "STOPPED") ~> points[k] # NoVal

=============================================================================

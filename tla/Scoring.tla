------------------------------ MODULE Scoring ------------------------------
(***************************************************************************)
(* The attack/defense formula (platform/control/app/scoring.py) and what   *)
(* storing it does to it: team_tick_points keeps NUMERIC(14, 4), and the   *)
(* next tick starts from the stored values (rotator.py:122-149, 298-323).  *)
(*                                                                         *)
(* All points are integers in units of 1/Scale.  Health is a count of      *)
(* retrievable flags out of Retention * NumPayloads.  The float arithmetic *)
(* between two roundings is exact here.  log, up and total are what        *)
(* happened, for the properties to compare the stored rows with.           *)
(***************************************************************************)
EXTENDS Integers, FiniteSets, Sequences

CONSTANTS
  Teams, Nop,       \* team ids; Nop need not be one of them
  Services,
  FlagsPerTick,     \* by service: services.flags_per_tick
  NumPayloads,      \* by service: services.num_payloads
  Retention,        \* FLAG_RETENTION_TICKS
  Scale,            \* 10^4
  HealthChoices,    \* what a tick's checks may say: functions from Pairs
                    \* to [status, ok], ok counting the flags that were there
  Targets,          \* teams whose flags are captured here
  MaxTick           \* bound on the tick

Pairs == Teams \X Services

ASSUME ServicesAssumption ==
  /\ FlagsPerTick \in [Services -> Nat \ {0}]
  /\ NumPayloads \in [Services -> Nat \ {0}]
ASSUME FiniteAssumption == IsFiniteSet(Teams) /\ IsFiniteSet(Services)
ASSUME ScaleAssumption == Retention \in Nat \ {0} /\ Scale \in Nat \ {0} /\ MaxTick \in Nat
ASSUME ChoicesAssumption ==
  /\ Targets \subseteq Teams
  /\ \A h \in HealthChoices : DOMAIN h = Pairs /\ \A p \in Pairs : h[p].ok \in Nat

VARIABLES
  tick,     \* the last tick scored
  points,   \* its team_tick_points rows: [off, def, sla, captured, stolen]
  log,      \* submissions in the scored ticks' windows: [by, flag, at]
  up,       \* by pair: the healths of the scored ticks
  total     \* by pair: their sum

vars == <<tick, points, log, up, total>>

BaseAttack == 10
BaseDefense == 5

\* NUMERIC(14, 4): to the nearest unit, halves up (nothing is negative).
RoundDiv(a, b) == (2 * a + b) \div (2 * b)

\* Health 1.0, and the flags that tick k's checks can find.
Full(s) == Retention * NumPayloads[s]
Findable(s, k) == NumPayloads[s] * (IF k < Retention THEN k ELSE Retention)

\* service_health.
Health(check, s) ==
  CASE check.status = "SUCCESS" -> Full(s)
    [] check.status = "RECOVERING" -> check.ok
    [] OTHER -> 0

\* Mutant: a flag is worth points for a tick too long.
ValidTooLong(e, k) == e.by # e.flag.target /\ Nop \notin {e.by, e.flag.target}

\* _valid_flag_submission.
Valid(e, k) ==
  /\ Nop \notin {e.flag.target, e.by}
  /\ e.by # e.flag.target
  /\ e.flag.issued > k - Retention

Submissions(E) == {e.flag : e \in E}

\* Mutant: every tick counts its stolen flags afresh.
NewlyStolenAgain(E) == Submissions(E)

\* num_previous_submissions = 0, each flag once (rotator.py:262-279).
NewlyStolen(E) == Submissions(E) \ Submissions(log)

AttackPoints(n, s) == RoundDiv(Scale * BaseAttack * n, FlagsPerTick[s])
DefensePoints(s) == Scale * BaseDefense * FlagsPerTick[s]

\* Mutant: the average is weighted as if tick k were already in it.
AverageOver(old, health, s, k) ==
  RoundDiv(old * k * Full(s) + Scale * health, k * Full(s))

\* The running average of the health, from its stored value.
Average(old, health, s, k) ==
  RoundDiv(old * (k - 1) * Full(s) + Scale * health, k * Full(s))

Captures(p, E) == {e \in E : <<e.by, e.flag.service>> = p}
Thefts(p, E) == {e \in E : <<e.flag.target, e.flag.service>> = p}

\* Mutant: only a flag nobody had before costs its owner the defense points.
EarnsUnlessNew(p, health, E) ==
  p[1] # Nop /\ health > 0 /\ {f \in NewlyStolen(E) : <<f.target, f.service>> = p} = {}

\* Neither the NOP team, nor hacked, nor down.
EarnsDefense(p, health, E) == p[1] # Nop /\ Thefts(p, E) = {} /\ health > 0

\* calculate_scoring_for_tick, for one team and service; E are the valid events.
ScoredRow(p, k, health, E) ==
  LET old == points[p]
      captures == Cardinality(Captures(p, E))
  IN [off |-> old.off + AttackPoints(captures, p[2]),
      def |-> old.def + IF EarnsDefense(p, health, E) THEN DefensePoints(p[2]) ELSE 0,
      sla |-> Average(old.sla, health, p[2], k),
      captured |-> old.captured + captures,
      stolen |-> old.stolen + Cardinality({f \in NewlyStolen(E) : <<f.target, f.service>> = p})]

NoPoints == [off |-> 0, def |-> 0, sla |-> 0, captured |-> 0, stolen |-> 0]

Init ==
  /\ tick = 0
  /\ points = [p \in Pairs |-> NoPoints]
  /\ log = {}
  /\ up = [p \in Pairs |-> <<>>]
  /\ total = [p \in Pairs |-> 0]

\* What submit_flags may accept in tick k's window, once per team and flag: the
\* flags that live in tick k, and, while tick k - 1 is still the one it reads,
\* those that lived in that one.
Submittable(k) ==
  {e \in [by : Teams \ {Nop}, at : {k},
          flag : UNION {[target : Targets \ {Nop}, service : {s}, issued : 1..k,
                         payload : 0..(NumPayloads[s] - 1)] : s \in Services}] :
     /\ e.by # e.flag.target
     /\ e.flag.issued + Retention >= k
     /\ ~\E l \in log : l.by = e.by /\ l.flag = e.flag}

ScoreTick(h, events) ==
  LET k == tick + 1
      E == {e \in events : Valid(e, k)}
      health == [p \in Pairs |-> Health(h[p], p[2])]
  IN /\ k <= MaxTick
     /\ \A p \in Pairs : h[p].ok <= Findable(p[2], k)
     /\ tick' = k
     /\ points' = [p \in Pairs |-> ScoredRow(p, k, health[p], E)]
     /\ log' = log \cup events
     /\ up' = [p \in Pairs |-> Append(up[p], health[p])]
     /\ total' = [p \in Pairs |-> total[p] + health[p]]

Next == \E h \in HealthChoices, events \in SUBSET Submittable(tick + 1) : ScoreTick(h, events)

Spec == Init /\ [][Next]_vars

-----------------------------------------------------------------------------

(* Every stored row is a row of points, for a tick's every pair.           *)
TypeOK ==
  /\ tick \in 0..MaxTick
  /\ points \in [Pairs -> [off : Nat, def : Nat, sla : 0..Scale, captured : Nat, stolen : Nat]]
  /\ \A p \in Pairs : Len(up[p]) = tick
  /\ \A e \in log : e.at \in 1..tick

\* The accepted submissions that still were worth something in their tick.
Worthy == {e \in log : e.flag.issued + Retention > e.at}

Distance(m, n) == IF m < n THEN n - m ELSE m - n

(* SLA points are the running average of the health (scoring.py:8-11), and *)
(* rounding them every tick and averaging on moves them at most            *)
(* (tick + 1) / 4 units away from it.                                      *)
SlaNearAverage ==
  \A p \in Pairs :
    4 * Distance(points[p].sla * tick * Full(p[2]), Scale * total[p])
      <= tick * (tick + 1) * Full(p[2])

(* Attack points are those of every capture of a flag that lived in the    *)
(* tick, half a unit lost or won a tick at most (scoring.py:71-72,         *)
(* 181-183, 207-208).                                                      *)
OffNearCaptures ==
  \A p \in Pairs :
    2 * Distance(points[p].off * FlagsPerTick[p[2]],
                 Scale * BaseAttack * Cardinality(Captures(p, Worthy)))
      <= tick * FlagsPerTick[p[2]]

(* A service earns its defense points exactly in the ticks in which it was *)
(* alive and nobody submitted a live flag of it, whether or not the flag   *)
(* was known already (wiki_api.py:103-109, scoring.py:196-203).            *)
DefenseOfUnhackedTicks ==
  \A p \in Pairs \ ({Nop} \X Services) :
    points[p].def = DefensePoints(p[2]) *
      Cardinality({k \in 1..tick : up[p][k] > 0 /\ k \notin {e.at : e \in Thefts(p, Worthy)}})

(* The stolen flags are counted once each, however many teams submit them  *)
(* and in whatever ticks (rotator.py:262-279, scoring.py:190-194).         *)
StolenCountsFlags ==
  \A p \in Pairs : points[p].stolen = Cardinality(Submissions(Thefts(p, Worthy)))

=============================================================================

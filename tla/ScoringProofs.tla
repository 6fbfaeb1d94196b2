--------------------------- MODULE ScoringProofs ---------------------------
(***************************************************************************)
(* Proofs about Scoring: whatever is captured and however the checks go,   *)
(* the stored rows stay what the rules promise, up to the rounding.        *)
(***************************************************************************)
EXTENDS Scoring, FiniteSetTheorems, TLAPS

-----------------------------------------------------------------------------
(* Rounding.                                                               *)

\* A quotient, taken downwards.
LEMMA Quotient ==
  ASSUME NEW a \in Nat, NEW b \in Nat \ {0}
  PROVE  a \div b \in Nat /\ b * (a \div b) <= a /\ a < b * (a \div b) + b
OBVIOUS

\* A rounded quotient is half a divisor off at most.
LEMMA RoundDivNear ==
  ASSUME NEW a \in Nat, NEW b \in Nat \ {0}
  PROVE  /\ RoundDiv(a, b) \in Nat
         /\ 2 * (RoundDiv(a, b) * b) <= 2 * a + b
         /\ 2 * a <= 2 * (RoundDiv(a, b) * b) + b
<1> DEFINE q == (2 * a + b) \div (2 * b)
<1>1. 2 * a + b \in Nat /\ 2 * b \in Nat \ {0}
  OBVIOUS
<1>2. q \in Nat /\ 2 * b * q <= 2 * a + b /\ 2 * a + b < 2 * b * q + 2 * b
  BY <1>1, Quotient
<1>3. 2 * b * q = 2 * (q * b)
  <2> HIDE DEF q
  <2> QED BY <1>2
<1> HIDE DEF q
<1>4. q * b \in Nat
  BY <1>2
<1>5. 2 * (q * b) <= 2 * a + b /\ 2 * a + b < 2 * (q * b) + 2 * b
  BY <1>2, <1>3
<1> QED BY <1>2, <1>4, <1>5 DEF RoundDiv, q

\* Rounding keeps a bound that is a whole number.
LEMMA RoundDivBound ==
  ASSUME NEW a \in Nat, NEW b \in Nat \ {0}, NEW c \in Nat, a <= c * b
  PROVE  RoundDiv(a, b) <= c
<1> DEFINE q == RoundDiv(a, b)
<1>1. q \in Nat /\ 2 * (q * b) <= 2 * a + b
  BY RoundDivNear
<1> HIDE DEF q
<1> SUFFICES ASSUME q >= c + 1 PROVE FALSE
  BY <1>1 DEF q
<1>2. (c + 1) * b <= q * b
  BY <1>1
<1>3. (c + 1) * b = c * b + b /\ c * b \in Nat /\ q * b \in Nat
  BY <1>1
<1> QED BY <1>1, <1>2, <1>3
\* The units of a service: all counts are positive.
LEMMA ServiceUnits ==
  ASSUME NEW s \in Services
  PROVE  /\ FlagsPerTick[s] \in Nat \ {0} /\ NumPayloads[s] \in Nat \ {0}
         /\ Full(s) \in Nat \ {0} /\ Scale \in Nat \ {0} /\ DefensePoints(s) \in Nat
<1>1. FlagsPerTick[s] \in Nat \ {0} /\ NumPayloads[s] \in Nat \ {0}
  BY ServicesAssumption
<1>2. Retention \in Nat \ {0} /\ Scale \in Nat \ {0}
  BY ScaleAssumption
<1>3. Retention * NumPayloads[s] \in Nat \ {0}
  BY <1>1, <1>2
<1>4. Scale * BaseDefense * FlagsPerTick[s] \in Nat
  BY <1>1, <1>2 DEF BaseDefense
<1> QED BY <1>1, <1>2, <1>3, <1>4 DEF Full, DefensePoints

\* The average stays between 0 and 1, and is half a unit off at most from that of
\* the stored value before (scoring.py:208-213).
LEMMA AverageNear ==
  ASSUME NEW s \in Services, NEW k \in Nat \ {0}, NEW old \in 0..Scale, NEW h \in 0..Full(s)
  PROVE  LET A == Average(old, h, s, k)
             X == old * (k - 1) * Full(s)
             W == k * Full(s)
         IN /\ A \in 0..Scale
            /\ X \in Nat /\ W \in Nat /\ A * W \in Nat /\ Scale * h \in Nat
            /\ 2 * (A * W) <= 2 * (X + Scale * h) + W
            /\ 2 * (X + Scale * h) <= 2 * (A * W) + W
<1> DEFINE F == Full(s)
           A == Average(old, h, s, k)
           X == old * (k - 1) * F
           W == k * F
<1>1. F \in Nat \ {0} /\ Scale \in Nat \ {0} /\ old \in Nat /\ h \in Nat /\ old <= Scale /\ h <= F
  BY ServiceUnits
<1>2. A = RoundDiv(X + Scale * h, W)
  BY DEF Average
<1> HIDE DEF F, A
<1>3. old * (k - 1) \in Nat /\ k - 1 \in Nat
  BY <1>1
<1>4. X \in Nat /\ W \in Nat \ {0} /\ Scale * h \in Nat
  BY <1>1, <1>3
<1>5. X + Scale * h <= Scale * W
  <2>1. old * (k - 1) <= Scale * (k - 1)
    BY <1>1, <1>3
  <2>2. X <= (Scale * (k - 1)) * F
    <3> DEFINE c == old * (k - 1)
               d == Scale * (k - 1)
    <3>1. c \in Nat /\ d \in Nat /\ c <= d
      BY <1>1, <1>3, <2>1
    <3> HIDE DEF c, d
    <3>2. c * F <= d * F
      BY <1>1, <3>1
    <3> QED BY <3>2 DEF c, d
  <2>3. Scale * h <= Scale * F
    BY <1>1
  <2>4. (Scale * (k - 1)) * F + Scale * F = Scale * W
    BY <1>1, <1>3
  <2>5. (Scale * (k - 1)) * F \in Nat /\ Scale * F \in Nat /\ Scale * W \in Nat
    BY <1>1, <1>3
  <2> HIDE DEF X, W
  <2> QED BY <1>4, <2>2, <2>3, <2>4, <2>5
<1> DEFINE Y == X + Scale * h
<1>6. Y \in Nat /\ Y <= Scale * W /\ W \in Nat \ {0}
  BY <1>4, <1>5
<1> HIDE DEF X, W
<1>7. A = RoundDiv(Y, W)
  BY <1>2
<1> HIDE DEF Y
<1>8. A \in Nat /\ 2 * (A * W) <= 2 * Y + W /\ 2 * Y <= 2 * (A * W) + W
  BY <1>6, <1>7, RoundDivNear
<1>9. A <= Scale
  BY <1>1, <1>6, <1>7, RoundDivBound
<1>10. A * W \in Nat
  BY <1>6, <1>8
<1>11. 2 * (A * W) <= 2 * (X + Scale * h) + W /\ 2 * (X + Scale * h) <= 2 * (A * W) + W
  BY <1>8 DEF Y
<1>12. A \in 0..Scale
  BY <1>1, <1>8, <1>9
<1> QED BY <1>4, <1>10, <1>11, <1>12 DEF A, X, W, F

\* Half a unit a tick, weighted with the ticks behind it: the distance to the true
\* average grows as the sum of the weights does.
LEMMA SlaStep ==
  ASSUME NEW s \in Services, NEW k \in Nat \ {0}, NEW old \in 0..Scale, NEW h \in 0..Full(s),
         NEW T \in Nat,
         4 * Distance(old * (k - 1) * Full(s), Scale * T) <= (k - 1) * (k - 1 + 1) * Full(s)
  PROVE  4 * Distance(Average(old, h, s, k) * k * Full(s), Scale * (T + h)) <= k * (k + 1) * Full(s)
<1> DEFINE F == Full(s)
           A == Average(old, h, s, k)
           X == old * (k - 1) * F
           W == k * F
           V == k * W
           Z == A * W
           H == Scale * h
           Y == Scale * T
<1>1. /\ A \in 0..Scale
      /\ X \in Nat /\ W \in Nat /\ Z \in Nat /\ H \in Nat
      /\ 2 * Z <= 2 * (X + H) + W /\ 2 * (X + H) <= 2 * Z + W
  BY AverageNear
<1>2. F \in Nat \ {0} /\ Scale \in Nat \ {0} /\ h \in Nat
  BY ServiceUnits
<1>3. 4 * Distance(X, Y) <= (k - 1) * (k - 1 + 1) * F
  OBVIOUS
<1> HIDE DEF F, A
<1>4. (k - 1) * (k - 1 + 1) * F = V - W
  BY <1>2
<1>5. k * (k + 1) * F = V + W
  BY <1>2
<1>6. A * k * F = Z
  BY <1>1, <1>2
<1>7. Scale * (T + h) = Y + H
  BY <1>2
<1>8. Y \in Nat /\ V \in Nat
  BY <1>1, <1>2
<1> HIDE DEF X, W, V, Z, H, Y
<1>9. 4 * Distance(Z, Y + H) <= V + W
  BY <1>1, <1>3, <1>4, <1>8 DEF Distance
<1> QED BY <1>5, <1>6, <1>7, <1>9 DEF F, A

\* The attack points of one tick are half a unit off at most.
LEMMA OffStep ==
  ASSUME NEW s \in Services, NEW k \in Nat, NEW old \in Nat, NEW n \in Nat, NEW N \in Nat,
         2 * Distance(old * FlagsPerTick[s], Scale * BaseAttack * N) <= k * FlagsPerTick[s]
  PROVE  /\ AttackPoints(n, s) \in Nat
         /\ 2 * Distance((old + AttackPoints(n, s)) * FlagsPerTick[s],
                         Scale * BaseAttack * (N + n)) <= (k + 1) * FlagsPerTick[s]
<1> DEFINE F == FlagsPerTick[s]
           B == Scale * BaseAttack
           A == RoundDiv(B * n, F)
           X == old * F
           Z == A * F
           Y == B * N
           H == B * n
           W == k * F
<1>1. F \in Nat \ {0} /\ B \in Nat
  BY ServiceUnits DEF BaseAttack
<1>2. A = AttackPoints(n, s) /\ 2 * Distance(X, Y) <= W
  BY DEF AttackPoints
<1> HIDE DEF F, B
<1>3. H \in Nat
  BY <1>1
<1>4. A \in Nat /\ 2 * Z <= 2 * H + F /\ 2 * H <= 2 * Z + F
  BY <1>1, <1>3, RoundDivNear
<1> HIDE DEF A
<1>5. (old + A) * F = X + Z /\ B * (N + n) = Y + H /\ (k + 1) * F = W + F
  BY <1>1, <1>4
<1>6. X \in Nat /\ Z \in Nat /\ Y \in Nat /\ W \in Nat
  BY <1>1, <1>4
<1> HIDE DEF X, Z, Y, H, W
<1>7. 2 * Distance(X + Z, Y + H) <= W + F
  BY <1>1, <1>2, <1>3, <1>4, <1>6 DEF Distance
<1> QED BY <1>2, <1>4, <1>5, <1>7 DEF F, B


-----------------------------------------------------------------------------
(* The submissions of a tick.                                              *)

\* The flags of a service up to tick k are finitely many.
LEMMA FlagsFinite ==
  ASSUME NEW s \in Services, NEW k \in Nat
  PROVE  IsFiniteSet([target : Targets \ {Nop}, service : {s}, issued : 1..k,
                      payload : 0..(NumPayloads[s] - 1)])
<1> DEFINE Flags == [target : Targets \ {Nop}, service : {s}, issued : 1..k,
                     payload : 0..(NumPayloads[s] - 1)]
           Box == ((Targets \ {Nop}) \X (1..k)) \X (0..(NumPayloads[s] - 1))
           f == [x \in Box |-> [target |-> x[1][1], service |-> s, issued |-> x[1][2],
                                payload |-> x[2]]]
<1>1. IsFiniteSet(Targets \ {Nop})
  BY FiniteAssumption, ChoicesAssumption, FS_Subset
<1>2. IsFiniteSet(1..k) /\ IsFiniteSet(0..(NumPayloads[s] - 1))
  <2>1. 1 \in Int /\ k \in Int /\ 0 \in Int /\ NumPayloads[s] - 1 \in Int
    BY ServiceUnits
  <2> QED BY <2>1, FS_Interval
<1>3. IsFiniteSet((Targets \ {Nop}) \X (1..k))
  BY <1>1, <1>2, FS_Product
<1>4. IsFiniteSet(Box)
  BY <1>2, <1>3, FS_Product
<1>5. f \in Surjection(Box, Flags)
  <2>1. f \in [Box -> Flags]
    OBVIOUS
  <2>2. ASSUME NEW g \in Flags PROVE \E x \in Box : f[x] = g
    <3> DEFINE x == <<<<g.target, g.issued>>, g.payload>>
    <3>1. x \in Box
      OBVIOUS
    <3>2. f[x] = g
      BY <3>1
    <3> QED BY <3>1, <3>2
  <2> QED BY <2>1, <2>2 DEF Surjection
<1> QED BY <1>4, <1>5, FS_Surjection

\* And so is what can be submitted in a tick.
LEMMA SubmittableFinite ==
  ASSUME NEW k \in Nat
  PROVE  IsFiniteSet(Submittable(k))
<1> DEFINE Of(s) == [target : Targets \ {Nop}, service : {s}, issued : 1..k,
                     payload : 0..(NumPayloads[s] - 1)]
           Family == {Of(s) : s \in Services}
           Flags == UNION Family
           Events == [by : Teams \ {Nop}, at : {k}, flag : Flags]
           Box == (Teams \ {Nop}) \X Flags
           f == [x \in Box |-> [by |-> x[1], at |-> k, flag |-> x[2]]]
           g == [s \in Services |-> Of(s)]
<1>1. \A F \in Family : IsFiniteSet(F)
  BY FlagsFinite
<1> HIDE DEF Of
<1>2. g \in Surjection(Services, Family)
  BY DEF Surjection
<1>3. IsFiniteSet(Family)
  BY <1>2, FiniteAssumption, FS_Surjection
<1>4. IsFiniteSet(Flags)
  <2> HIDE DEF Family
  <2> QED BY <1>1, <1>3, FS_UNION
<1>5. IsFiniteSet(Teams \ {Nop})
  BY FiniteAssumption, FS_Subset
<1>6. Submittable(k) \subseteq Events
  BY DEF Submittable, Of
<1> HIDE DEF Flags
<1>7. IsFiniteSet(Box)
  BY <1>4, <1>5, FS_Product
<1>8. f \in Surjection(Box, Events)
  <2>1. f \in [Box -> Events]
    OBVIOUS
  <2>2. ASSUME NEW e \in Events PROVE \E x \in Box : f[x] = e
    <3>1. <<e.by, e.flag>> \in Box /\ f[<<e.by, e.flag>>] = e
      OBVIOUS
    <3> QED BY <3>1
  <2> QED BY <2>1, <2>2 DEF Surjection
<1>9. IsFiniteSet(Events)
  BY <1>7, <1>8, FS_Surjection
<1> QED BY <1>6, <1>9, FS_Subset

\* What is in the window of a tick, and that a submission is worth something
\* exactly if its flag lives in that tick (_valid_flag_submission).
LEMMA SubmittedShape ==
  ASSUME NEW k \in Nat, NEW e \in Submittable(k)
  PROVE  /\ e.at = k /\ e.flag.issued \in Int
         /\ e.flag.service \in Services /\ <<e.by, e.flag.service>> \in Pairs
         /\ Valid(e, k) <=> e.flag.issued + Retention > e.at
<1>1. PICK s \in Services :
        e.flag \in [target : Targets \ {Nop}, service : {s}, issued : 1..k,
                    payload : 0..(NumPayloads[s] - 1)]
  BY DEF Submittable
<1>2. e.at = k /\ e.by \in Teams \ {Nop} /\ e.by # e.flag.target
  BY DEF Submittable
<1>3. e.flag.issued \in Int /\ e.flag.service = s /\ e.flag.target # Nop
  BY <1>1
<1>4. Retention \in Nat
  BY ScaleAssumption
<1>5. e.flag.issued + Retention > k <=> e.flag.issued > k - Retention
  BY <1>3, <1>4
<1> QED BY <1>2, <1>3, <1>5 DEF Valid, Pairs


-----------------------------------------------------------------------------
(* The inductive invariant.                                                *)

\* What happened in the ticks so far: finitely many submissions, each in a tick's
\* window, and a health of every pair in every tick.
LogInv ==
  /\ IsFiniteSet(log)
  /\ \A e \in log : e.at \in Int /\ e.at <= tick /\ e.flag.issued \in Int
  /\ up \in [Pairs -> Seq(Nat)] /\ total \in [Pairs -> Nat]

\* The ticks for which p earned its defense points.
Defended(p) == {k \in 1..tick : up[p][k] > 0 /\ k \notin {e.at : e \in Thefts(p, Worthy)}}

IInv == TypeOK /\ LogInv /\ SlaNearAverage /\ OffNearCaptures /\ DefenseOfUnhackedTicks
          /\ StolenCountsFlags

\* Nothing is scored yet.
LEMMA InitIInv == Init => IInv
<1> SUFFICES ASSUME Init PROVE IInv
  OBVIOUS
<1> USE DEF Init
<1>1. \A p \in Pairs : p[2] \in Services
  BY DEF Pairs
<1>2. tick \in 0..MaxTick
  BY ScaleAssumption
<1>3. points \in [Pairs -> [off : Nat, def : Nat, sla : 0..Scale, captured : Nat, stolen : Nat]]
  BY ScaleAssumption DEF NoPoints
<1>4. TypeOK
  BY <1>2, <1>3 DEF TypeOK
<1>5. LogInv
  BY FS_EmptySet DEF LogInv
<1>6. Worthy = {} /\ \A p \in Pairs : Captures(p, Worthy) = {} /\ Submissions(Thefts(p, Worthy)) = {}
  BY DEF Worthy, Captures, Thefts, Submissions
<1>7. ASSUME NEW p \in Pairs
      PROVE  /\ 4 * Distance(points[p].sla * tick * Full(p[2]), Scale * total[p])
                  <= tick * (tick + 1) * Full(p[2])
             /\ 2 * Distance(points[p].off * FlagsPerTick[p[2]],
                             Scale * BaseAttack * Cardinality(Captures(p, Worthy)))
                  <= tick * FlagsPerTick[p[2]]
  <2>1. points[p].sla = 0 /\ points[p].off = 0 /\ tick = 0 /\ total[p] = 0
    BY DEF NoPoints
  <2>2. Full(p[2]) \in Nat /\ FlagsPerTick[p[2]] \in Nat /\ Scale \in Nat
    BY <1>1, ServiceUnits
  <2>3. Cardinality(Captures(p, Worthy)) = 0
    BY <1>6, FS_EmptySet
  <2>4. 0 * 0 * Full(p[2]) = 0 /\ Scale * 0 = 0 /\ 0 * (0 + 1) * Full(p[2]) = 0
        /\ 0 * FlagsPerTick[p[2]] = 0 /\ Scale * BaseAttack * 0 = 0
    BY <2>2 DEF BaseAttack
  <2> HIDE DEF Init
  <2> QED BY <2>1, <2>3, <2>4 DEF Distance
<1>8. ASSUME NEW p \in Pairs
      PROVE  points[p].def = DefensePoints(p[2]) * Cardinality(Defended(p))
  <2>1. Defended(p) = {}
    BY DEF Defended
  <2>2. Cardinality(Defended(p)) = 0 /\ DefensePoints(p[2]) \in Nat /\ points[p].def = 0
    BY <1>1, <2>1, FS_EmptySet, ServiceUnits DEF NoPoints
  <2> QED BY <2>2
<1>9. ASSUME NEW p \in Pairs
      PROVE  points[p].stolen = Cardinality(Submissions(Thefts(p, Worthy)))
  BY <1>6, FS_EmptySet DEF NoPoints
<1> QED BY <1>4, <1>5, <1>7, <1>8, <1>9
     DEF IInv, SlaNearAverage, OffNearCaptures, DefenseOfUnhackedTicks, StolenCountsFlags, Defended


-----------------------------------------------------------------------------
(* One tick.                                                               *)

\* The valid events of a tick, as ScoreTick takes them.
Live(events, k) == {e \in events : Valid(e, k)}

\* What ScoreTick does to a pair.
LEMMA RowStep ==
  ASSUME IInv, NEW h \in HealthChoices, NEW events, ScoreTick(h, events), NEW p \in Pairs
  PROVE  LET k == tick + 1
             E == Live(events, k)
             health == Health(h[p], p[2])
         IN /\ k \in 1..MaxTick /\ tick \in Nat /\ tick' = k /\ log' = log \cup events
            /\ p[2] \in Services /\ health \in 0..Full(p[2])
            /\ up'[p] = Append(up[p], health) /\ total'[p] = total[p] + health
            /\ points'[p] = ScoredRow(p, k, health, E)
<1>1. /\ tick' = tick + 1 /\ tick + 1 <= MaxTick /\ log' = log \cup events
      /\ h[p].ok <= Findable(p[2], tick + 1)
      /\ up'[p] = Append(up[p], Health(h[p], p[2]))
      /\ total'[p] = total[p] + Health(h[p], p[2])
      /\ points'[p] = ScoredRow(p, tick + 1, Health(h[p], p[2]), Live(events, tick + 1))
  BY DEF ScoreTick, Live
<1>2. tick \in Nat /\ MaxTick \in Nat /\ tick + 1 \in 1..MaxTick
  BY <1>1, ScaleAssumption DEF IInv, TypeOK
<1>3. p[2] \in Services
  BY DEF Pairs
<1>4. h[p].ok \in Nat
  BY ChoicesAssumption
<1>5. Findable(p[2], tick + 1) <= Full(p[2])
  <2> DEFINE n == NumPayloads[p[2]]
             m == IF tick + 1 < Retention THEN tick + 1 ELSE Retention
  <2>1. n \in Nat /\ m \in Nat /\ Retention \in Nat /\ m <= Retention
    BY <1>2, <1>3, ServiceUnits, ScaleAssumption
  <2>2. Findable(p[2], tick + 1) = n * m /\ Full(p[2]) = Retention * n
    BY DEF Findable, Full
  <2> HIDE DEF n, m
  <2>3. n * m <= n * Retention /\ n * Retention = Retention * n
    BY <2>1
  <2> QED BY <2>2, <2>3
<1>6. Full(p[2]) \in Nat /\ Findable(p[2], tick + 1) \in Nat
  BY <1>2, <1>3, ServiceUnits, ScaleAssumption DEF Findable
<1>7. Health(h[p], p[2]) \in 0..Full(p[2])
  BY <1>1, <1>4, <1>5, <1>6 DEF Health
<1> QED BY <1>1, <1>2, <1>3, <1>7

\* The submissions that are worth something after a tick are those before it and,
\* apart from them, the tick's valid ones.
LEMMA WorthyStep ==
  ASSUME IInv, NEW h \in HealthChoices, NEW events \in SUBSET Submittable(tick + 1),
         ScoreTick(h, events)
  PROVE  LET E == Live(events, tick + 1)
         IN /\ Worthy' = Worthy \cup E
            /\ IsFiniteSet(log') /\ IsFiniteSet(Worthy) /\ IsFiniteSet(E)
            /\ \A e \in log' : e.at \in Int /\ e.at <= tick' /\ e.flag.issued \in Int
            /\ \A e \in Worthy : e.at <= tick
            /\ \A e \in E : e.at = tick + 1
<1> DEFINE k == tick + 1
           E == Live(events, k)
<1>1. tick \in Nat /\ k \in Nat /\ tick' = k /\ log' = log \cup events
  BY ScaleAssumption DEF IInv, TypeOK, ScoreTick
<1>2. \A e \in events : /\ e.at = k /\ e.flag.issued \in Int
                        /\ Valid(e, k) <=> e.flag.issued + Retention > e.at
  BY <1>1, SubmittedShape
<1>3. \A e \in log : e.at \in Int /\ e.at <= tick /\ e.flag.issued \in Int
  BY DEF IInv, LogInv
<1>4. IsFiniteSet(events) /\ IsFiniteSet(log)
  BY <1>1, SubmittableFinite, FS_Subset DEF IInv, LogInv
<1>5. IsFiniteSet(log')
  BY <1>1, <1>4, FS_Union
<1>6. IsFiniteSet(Worthy) /\ IsFiniteSet(E)
  BY <1>4, FS_Subset DEF Worthy, Live
<1>7. Worthy' = Worthy \cup E
  BY <1>1, <1>2 DEF Worthy, Live
<1> QED BY <1>1, <1>2, <1>3, <1>5, <1>6, <1>7 DEF Worthy, Live

\* Two sets without a common element count what both count.
LEMMA DisjointCount ==
  ASSUME NEW S, NEW T, IsFiniteSet(S), IsFiniteSet(T), S \cap T = {}
  PROVE  /\ Cardinality(S \cup T) = Cardinality(S) + Cardinality(T)
         /\ Cardinality(S) \in Nat /\ Cardinality(T) \in Nat
<1>1. Cardinality(S) \in Nat /\ Cardinality(T) \in Nat
  BY FS_CardinalityType
<1>2. Cardinality(S \cup T) = Cardinality(S) + Cardinality(T) - Cardinality({})
  BY FS_Union
<1> QED BY <1>1, <1>2, FS_EmptySet

\* The flags of finitely many submissions.
LEMMA FlagsOfFinite ==
  ASSUME NEW S, IsFiniteSet(S)
  PROVE  IsFiniteSet(Submissions(S))
<1> DEFINE f == [e \in S |-> e.flag]
<1>1. f \in Surjection(S, Submissions(S))
  BY DEF Surjection, Submissions
<1> QED BY <1>1, FS_Surjection


\* Captures before a tick and captures in it.
LEMMA CapturesStep ==
  ASSUME IInv, NEW h \in HealthChoices, NEW events \in SUBSET Submittable(tick + 1),
         ScoreTick(h, events), NEW p \in Pairs
  PROVE  LET n == Cardinality(Captures(p, Live(events, tick + 1)))
             N == Cardinality(Captures(p, Worthy))
         IN n \in Nat /\ N \in Nat /\ Cardinality(Captures(p, Worthy)') = N + n
<1> DEFINE E == Live(events, tick + 1)
<1>1. /\ Worthy' = Worthy \cup E /\ IsFiniteSet(Worthy) /\ IsFiniteSet(E)
      /\ \A e \in Worthy : e.at <= tick
      /\ \A e \in E : e.at = tick + 1
  BY WorthyStep
<1>2. tick \in Nat
  BY ScaleAssumption DEF IInv, TypeOK
<1> HIDE DEF E
<1>3. IsFiniteSet(Captures(p, Worthy)) /\ IsFiniteSet(Captures(p, E))
  BY <1>1, FS_Subset DEF Captures
<1>4. Captures(p, Worthy) \cap Captures(p, E) = {}
  BY <1>1, <1>2 DEF Captures
<1>5. Captures(p, Worthy)' = Captures(p, Worthy) \cup Captures(p, E)
  BY <1>1 DEF Captures
<1>6. /\ Cardinality(Captures(p, Worthy) \cup Captures(p, E))
           = Cardinality(Captures(p, Worthy)) + Cardinality(Captures(p, E))
      /\ Cardinality(Captures(p, Worthy)) \in Nat /\ Cardinality(Captures(p, E)) \in Nat
  BY <1>3, <1>4, DisjointCount
<1> QED BY <1>5, <1>6 DEF E

\* A flag that is stolen in a tick was known already, and then worth something
\* when it was, or is counted now (rotator.py:262-279).
LEMMA StolenStep ==
  ASSUME IInv, NEW h \in HealthChoices, NEW events \in SUBSET Submittable(tick + 1),
         ScoreTick(h, events), NEW p \in Pairs
  PROVE  LET E == Live(events, tick + 1)
             New == {f \in NewlyStolen(E) : <<f.target, f.service>> = p}
             Known == Submissions(Thefts(p, Worthy))
         IN /\ Cardinality(New) \in Nat /\ Cardinality(Known) \in Nat
            /\ Cardinality(Submissions(Thefts(p, Worthy))') = Cardinality(Known) + Cardinality(New)
<1> DEFINE E == Live(events, tick + 1)
           New == {f \in NewlyStolen(E) : <<f.target, f.service>> = p}
           Known == Submissions(Thefts(p, Worthy))
<1>1. /\ Worthy' = Worthy \cup E /\ IsFiniteSet(Worthy) /\ IsFiniteSet(E)
      /\ \A e \in E : e.at = tick + 1
  BY WorthyStep
<1>2. \A e \in log : e.at \in Int /\ e.at <= tick /\ e.flag.issued \in Int
  BY DEF IInv, LogInv
<1>3. tick \in Nat /\ Retention \in Nat
  BY ScaleAssumption DEF IInv, TypeOK
<1>4. \A e \in E : e.flag.issued \in Int /\ e.flag.issued + Retention > tick + 1
  <2>1. \A e \in events : e.at = tick + 1 /\ e.flag.issued \in Int
          /\ (Valid(e, tick + 1) <=> e.flag.issued + Retention > e.at)
    <3>1. tick + 1 \in Nat /\ \A e \in events : e \in Submittable(tick + 1)
      BY <1>3
    <3> QED BY <3>1, SubmittedShape
  <2> QED BY <2>1 DEF Live
<1> HIDE DEF E
<1>5. IsFiniteSet(Known)
  <2>1. IsFiniteSet(Thefts(p, Worthy))
    BY <1>1, FS_Subset DEF Thefts
  <2> QED BY <2>1, FlagsOfFinite
<1>6. IsFiniteSet(New)
  <2>1. New \subseteq Submissions(E)
    BY DEF NewlyStolen
  <2> QED BY <1>1, <2>1, FlagsOfFinite, FS_Subset
<1>7. Known \subseteq Submissions(log)
  BY DEF Submissions, Thefts, Worthy
<1>8. Known \cap New = {}
  BY <1>7 DEF NewlyStolen
<1>9. Submissions(Thefts(p, Worthy))' = Known \cup New
  <2>1. Submissions(Thefts(p, Worthy))' = Known \cup Submissions(Thefts(p, E))
    BY <1>1 DEF Submissions, Thefts
  <2>2. New \subseteq Submissions(Thefts(p, E))
    BY DEF NewlyStolen, Submissions, Thefts
  <2>3. ASSUME NEW e \in Thefts(p, E), e.flag \notin New PROVE e.flag \in Known
    <3>1. e \in E /\ <<e.flag.target, e.flag.service>> = p
      BY DEF Thefts
    <3>2. PICK l \in log : l.flag = e.flag
      BY <2>3, <3>1 DEF NewlyStolen, Submissions
    <3>3. l.flag.issued + Retention > l.at
      BY <1>2, <1>3, <1>4, <3>1, <3>2
    <3>4. l \in Worthy
      BY <3>2, <3>3 DEF Worthy
    <3>5. l \in Thefts(p, Worthy)
      BY <3>1, <3>2, <3>4 DEF Thefts
    <3> QED BY <3>2, <3>5 DEF Submissions
  <2>4. Submissions(Thefts(p, E)) \subseteq Known \cup New
    <3> HIDE DEF Known, New
    <3> QED BY <2>3 DEF Submissions
  <2> QED BY <2>1, <2>2, <2>4
<1>10. /\ Cardinality(Known \cup New) = Cardinality(Known) + Cardinality(New)
       /\ Cardinality(Known) \in Nat /\ Cardinality(New) \in Nat
  <2> HIDE DEF Known, New
  <2> QED BY <1>5, <1>6, <1>8, DisjointCount
<1> QED BY <1>9, <1>10 DEF E

\* The ticks before keep what they earned; the new one earns what ScoredRow says.
LEMMA DefendedStep ==
  ASSUME IInv, NEW h \in HealthChoices, NEW events \in SUBSET Submittable(tick + 1),
         ScoreTick(h, events), NEW p \in Pairs, p[1] # Nop
  PROVE  LET earns == EarnsDefense(p, Health(h[p], p[2]), Live(events, tick + 1))
         IN /\ Cardinality(Defended(p)) \in Nat
            /\ Cardinality(Defended(p)') = Cardinality(Defended(p)) + IF earns THEN 1 ELSE 0
<1> DEFINE E == Live(events, tick + 1)
           health == Health(h[p], p[2])
<1>1. /\ Worthy' = Worthy \cup E
      /\ \A e \in Worthy : e.at <= tick
      /\ \A e \in E : e.at = tick + 1
  BY WorthyStep
<1>2. tick \in Nat /\ tick' = tick + 1 /\ up'[p] = Append(up[p], health) /\ health \in 0..Full(p[2])
  BY RowStep
<1>3. up[p] \in Seq(Nat) /\ Len(up[p]) = tick
  BY DEF IInv, LogInv, TypeOK
<1> HIDE DEF E, health
<1>4. \A k \in 1..tick : up'[p][k] = up[p][k]
  BY <1>2, <1>3
<1>5. up'[p][tick + 1] = health
  BY <1>2, <1>3
<1>6. Thefts(p, Worthy)' = Thefts(p, Worthy) \cup Thefts(p, E)
  BY <1>1 DEF Thefts
<1>7. \A k \in 1..tick :
        k \in {e.at : e \in Thefts(p, Worthy)'} <=> k \in {e.at : e \in Thefts(p, Worthy)}
  BY <1>1, <1>2, <1>6 DEF Thefts
<1>8. tick + 1 \in {e.at : e \in Thefts(p, Worthy)'} <=> Thefts(p, E) # {}
  BY <1>1, <1>2, <1>6 DEF Thefts
<1>9. 1..tick' = (1..tick) \cup {tick + 1} /\ tick + 1 \notin 1..tick
  BY <1>2
<1>10. Defended(p)' = {k \in 1..tick' : up'[p][k] > 0 /\ k \notin {e.at : e \in Thefts(p, Worthy)'}}
  BY DEF Defended
<1>11. Defended(p)' = Defended(p) \cup IF EarnsDefense(p, health, E) THEN {tick + 1} ELSE {}
  <2>1. \A k \in 1..tick : k \in Defended(p)' <=> k \in Defended(p)
    BY <1>4, <1>7, <1>9, <1>10 DEF Defended
  <2>2. tick + 1 \in Defended(p)' <=> EarnsDefense(p, health, E)
    BY <1>5, <1>8, <1>9, <1>10 DEF EarnsDefense
  <2>3. Defended(p)' \subseteq 1..tick' /\ Defended(p) \subseteq 1..tick
    BY <1>10 DEF Defended
  <2> QED BY <1>9, <2>1, <2>2, <2>3
<1>12. Defended(p) \subseteq 1..tick /\ IsFiniteSet(1..tick)
  <2>1. 1 \in Int /\ tick \in Int
    BY <1>2
  <2> QED BY <2>1, FS_Interval DEF Defended
<1>13. IsFiniteSet(Defended(p)) /\ tick + 1 \notin Defended(p)
  BY <1>9, <1>12, FS_Subset
<1>14. Cardinality(Defended(p)) \in Nat
       /\ Cardinality(Defended(p) \cup {tick + 1}) = Cardinality(Defended(p)) + 1
  BY <1>13, FS_CardinalityType, FS_AddElement
<1>15. CASE EarnsDefense(p, health, E)
  BY <1>11, <1>14, <1>15 DEF E, health
<1>16. CASE ~EarnsDefense(p, health, E)
  BY <1>11, <1>14, <1>16 DEF E, health
<1> QED BY <1>15, <1>16


\* Every tick keeps the invariant.
LEMMA ScoreTickKeeps ==
  ASSUME IInv, NEW h \in HealthChoices, NEW events \in SUBSET Submittable(tick + 1),
         ScoreTick(h, events)
  PROVE  IInv'
<1> DEFINE k == tick + 1
           E == Live(events, k)
           health(p) == Health(h[p], p[2])
           captures(p) == Cardinality(Captures(p, E))
           new(p) == Cardinality({f \in NewlyStolen(E) : <<f.target, f.service>> = p})
           Row == [off : Nat, def : Nat, sla : 0..Scale, captured : Nat, stolen : Nat]
<1>1. ASSUME NEW p \in Pairs
      PROVE  /\ tick \in Nat /\ p[2] \in Services /\ health(p) \in 0..Full(p[2])
             /\ up'[p] = Append(up[p], health(p)) /\ total'[p] = total[p] + health(p)
             /\ points'[p] = ScoredRow(p, k, health(p), E)
  BY RowStep
<1>2. /\ tick' = k /\ k \in 1..MaxTick /\ tick \in Nat
      /\ DOMAIN points' = Pairs /\ DOMAIN up' = Pairs /\ DOMAIN total' = Pairs
      /\ points' = [p \in Pairs |-> points'[p]] /\ up' = [p \in Pairs |-> up'[p]]
      /\ total' = [p \in Pairs |-> total'[p]]
  BY ScaleAssumption DEF ScoreTick, IInv, TypeOK
<1>3. /\ IsFiniteSet(log')
      /\ \A e \in log' : e.at \in Int /\ e.at <= tick' /\ e.flag.issued \in Int
  BY WorthyStep
<1>4. ASSUME NEW p \in Pairs
      PROVE  /\ captures(p) \in Nat /\ new(p) \in Nat /\ points[p] \in Row
             /\ points'[p].off = points[p].off + AttackPoints(captures(p), p[2])
             /\ points'[p].def = points[p].def
                  + IF EarnsDefense(p, health(p), E) THEN DefensePoints(p[2]) ELSE 0
             /\ points'[p].sla = Average(points[p].sla, health(p), p[2], k)
             /\ points'[p].stolen = points[p].stolen + new(p)
             /\ points'[p].captured = points[p].captured + captures(p)
             /\ points'[p] = [off |-> points'[p].off, def |-> points'[p].def,
                              sla |-> points'[p].sla, captured |-> points'[p].captured,
                              stolen |-> points'[p].stolen]
  <2>1. points'[p] = ScoredRow(p, k, health(p), E)
    BY <1>1
  <2>2. points[p] \in Row
    BY DEF IInv, TypeOK
  <2>3. captures(p) \in Nat
    BY CapturesStep
  <2>4. new(p) \in Nat
    BY StolenStep
  <2> HIDE DEF E, health
  <2> QED BY <2>1, <2>2, <2>3, <2>4 DEF ScoredRow
<1> HIDE DEF E, health, captures, new
<1>5. ASSUME NEW p \in Pairs
      PROVE  /\ points'[p].sla \in 0..Scale
             /\ 4 * Distance(points'[p].sla * tick' * Full(p[2]), Scale * total'[p])
                  <= tick' * (tick' + 1) * Full(p[2])
  <2>1. 4 * Distance(points[p].sla * tick * Full(p[2]), Scale * total[p])
          <= tick * (tick + 1) * Full(p[2])
    BY DEF IInv, SlaNearAverage
  <2>2. /\ p[2] \in Services /\ points[p].sla \in 0..Scale /\ total[p] \in Nat
        /\ health(p) \in 0..Full(p[2]) /\ k \in Nat \ {0} /\ k - 1 = tick
    <3>1. points[p].sla \in 0..Scale
      BY <1>4
    <3>2. total[p] \in Nat
      BY DEF IInv, LogInv
    <3> QED BY <1>1, <1>2, <3>1, <3>2
  <2> HIDE DEF k
  <2>3. Average(points[p].sla, health(p), p[2], k) \in 0..Scale
    BY <2>2, AverageNear
  <2>4. 4 * Distance(Average(points[p].sla, health(p), p[2], k) * k * Full(p[2]),
                     Scale * (total[p] + health(p))) <= k * (k + 1) * Full(p[2])
    BY <2>1, <2>2, SlaStep
  <2> QED BY <1>1, <1>2, <1>4, <2>3, <2>4
<1>6. ASSUME NEW p \in Pairs
      PROVE  /\ points'[p].off \in Nat
             /\ 2 * Distance(points'[p].off * FlagsPerTick[p[2]],
                             Scale * BaseAttack * Cardinality(Captures(p, Worthy)'))
                  <= tick' * FlagsPerTick[p[2]]
  <2> DEFINE n == captures(p)
             N == Cardinality(Captures(p, Worthy))
  <2>1. n \in Nat /\ N \in Nat /\ Cardinality(Captures(p, Worthy)') = N + n
    BY CapturesStep DEF E, captures
  <2>2. 2 * Distance(points[p].off * FlagsPerTick[p[2]], Scale * BaseAttack * N)
          <= tick * FlagsPerTick[p[2]]
    BY DEF IInv, OffNearCaptures
  <2>3. p[2] \in Services /\ points[p].off \in Nat
        /\ points'[p].off = points[p].off + AttackPoints(n, p[2])
    BY <1>1, <1>4
  <2> HIDE DEF n, N
  <2>4. AttackPoints(n, p[2]) \in Nat
        /\ 2 * Distance((points[p].off + AttackPoints(n, p[2])) * FlagsPerTick[p[2]],
                        Scale * BaseAttack * (N + n)) <= (tick + 1) * FlagsPerTick[p[2]]
    BY <1>2, <2>1, <2>2, <2>3, OffStep
  <2> QED BY <1>2, <2>1, <2>3, <2>4
<1>7. ASSUME NEW p \in Pairs
      PROVE  /\ points'[p].def \in Nat
             /\ p[1] # Nop =>
                  points'[p].def = DefensePoints(p[2]) * Cardinality(Defended(p)')
  <2> DEFINE D == DefensePoints(p[2])
             c == Cardinality(Defended(p))
             earns == EarnsDefense(p, health(p), E)
  <2>1. D \in Nat
    BY <1>1, ServiceUnits
  <2>2. points'[p].def = points[p].def + (IF earns THEN D ELSE 0) /\ points[p].def \in Nat
    BY <1>4
  <2>3. ASSUME p[1] # Nop
        PROVE  c \in Nat /\ Cardinality(Defended(p)') = c + (IF earns THEN 1 ELSE 0)
               /\ points[p].def = D * c
    <3>1. points[p].def = D * c
      <4>1. p \notin {Nop} \X Services
        BY <2>3
      <4> QED BY <4>1 DEF IInv, DefenseOfUnhackedTicks, Defended
    <3> QED BY <2>3, <3>1, DefendedStep DEF E, health
  <2> HIDE DEF D, c, earns
  <2>4. ASSUME p[1] # Nop PROVE points'[p].def = D * Cardinality(Defended(p)')
    <3>1. c \in Nat /\ D * (c + 1) = D * c + D /\ D * (c + 0) = D * c + 0
      BY <2>1, <2>3, <2>4
    <3>2. CASE earns
      BY <2>2, <2>3, <2>4, <3>1, <3>2
    <3>3. CASE ~earns
      BY <2>2, <2>3, <2>4, <3>1, <3>3
    <3> QED BY <3>2, <3>3
  <2>5. points'[p].def \in Nat
    BY <2>1, <2>2
  <2> QED BY <2>4, <2>5 DEF D
<1>8. ASSUME NEW p \in Pairs
      PROVE  /\ points'[p].stolen \in Nat
             /\ points'[p].stolen = Cardinality(Submissions(Thefts(p, Worthy))')
  <2>1. points[p].stolen = Cardinality(Submissions(Thefts(p, Worthy)))
    BY DEF IInv, StolenCountsFlags
  <2>2. Cardinality(Submissions(Thefts(p, Worthy))') = Cardinality(Submissions(Thefts(p, Worthy)))
          + new(p)
    BY StolenStep DEF E, new
  <2>3. new(p) \in Nat /\ points'[p].stolen = points[p].stolen + new(p) /\ points[p].stolen \in Nat
    BY <1>4
  <2> QED BY <2>1, <2>2, <2>3
<1>9. LogInv'
  <2>1. \A p \in Pairs : up'[p] \in Seq(Nat) /\ total'[p] \in Nat
    <3> SUFFICES ASSUME NEW p \in Pairs PROVE up'[p] \in Seq(Nat) /\ total'[p] \in Nat
      OBVIOUS
    <3>1. up[p] \in Seq(Nat) /\ total[p] \in Nat
      BY DEF IInv, LogInv
    <3>2. health(p) \in Nat
      <4>1. p[2] \in Services /\ health(p) \in 0..Full(p[2])
        BY <1>1
      <4>2. Full(p[2]) \in Nat
        BY <4>1, ServiceUnits
      <4> QED BY <4>1, <4>2
    <3>3. up'[p] = Append(up[p], health(p)) /\ total'[p] = total[p] + health(p)
      BY <1>1
    <3>4. Append(up[p], health(p)) \in Seq(Nat)
      BY <3>1, <3>2
    <3> QED BY <3>1, <3>2, <3>3, <3>4
  <2> QED BY <1>2, <1>3, <2>1 DEF LogInv
<1>10. TypeOK'
  <2>1. \A p \in Pairs : points'[p] \in Row
    <3> SUFFICES ASSUME NEW p \in Pairs PROVE points'[p] \in Row
      OBVIOUS
    <3>1. points'[p].captured \in Nat
      <4>1. points[p].captured \in Nat /\ captures(p) \in Nat
            /\ points'[p].captured = points[p].captured + captures(p)
        BY <1>4
      <4> QED BY <4>1
    <3>2. points'[p].off \in Nat /\ points'[p].def \in Nat /\ points'[p].sla \in 0..Scale
          /\ points'[p].stolen \in Nat
      BY <1>5, <1>6, <1>7, <1>8
    <3>3. points'[p] = [off |-> points'[p].off, def |-> points'[p].def, sla |-> points'[p].sla,
                        captured |-> points'[p].captured, stolen |-> points'[p].stolen]
      BY <1>4
    <3> QED BY <3>1, <3>2, <3>3
  <2>2. points' \in [Pairs -> Row]
    BY <1>2, <2>1
  <2>3. \A p \in Pairs : Len(up'[p]) = tick'
    <3> SUFFICES ASSUME NEW p \in Pairs PROVE Len(up'[p]) = tick'
      OBVIOUS
    <3>1. up[p] \in Seq(Nat) /\ Len(up[p]) = tick
      BY DEF IInv, LogInv, TypeOK
    <3>2. Len(Append(up[p], health(p))) = tick + 1
      BY <3>1
    <3> QED BY <1>1, <1>2, <3>2
  <2>4. \A e \in log' : e.at \in 1..tick'
    <3>1. log' = log \cup events /\ \A e \in log : e.at \in 1..tick
      BY DEF IInv, TypeOK, ScoreTick
    <3>2. \A e \in events : e.at = k
      <4>1. k \in Nat /\ \A e \in events : e \in Submittable(k)
        BY <1>2
      <4> QED BY <4>1, SubmittedShape
    <3> QED BY <1>2, <3>1, <3>2
  <2>5. tick' \in 0..MaxTick
    BY <1>2
  <2> QED BY <2>2, <2>3, <2>4, <2>5 DEF TypeOK
<1>11. SlaNearAverage'
  BY <1>5 DEF SlaNearAverage
<1>12. OffNearCaptures'
  BY <1>6 DEF OffNearCaptures
<1>13. DefenseOfUnhackedTicks'
  <2> SUFFICES ASSUME NEW p \in Pairs \ ({Nop} \X Services)
               PROVE  points'[p].def = DefensePoints(p[2]) * Cardinality(Defended(p)')
    BY DEF DefenseOfUnhackedTicks, Defended
  <2>1. p[1] # Nop
    BY DEF Pairs
  <2> QED BY <1>7, <2>1
<1>14. StolenCountsFlags'
  BY <1>8 DEF StolenCountsFlags
<1> QED BY <1>9, <1>10, <1>11, <1>12, <1>13, <1>14 DEF IInv

\* The inductive invariant holds.
LEMMA InductiveInvariant == Spec => []IInv
<1>1. IInv /\ [Next]_vars => IInv'
  <2> SUFFICES ASSUME IInv, [Next]_vars PROVE IInv'
    OBVIOUS
  <2>1. CASE Next
    BY <2>1, ScoreTickKeeps DEF Next
  <2>2. CASE UNCHANGED vars
    BY <2>2 DEF vars, IInv, TypeOK, LogInv, SlaNearAverage, OffNearCaptures, DefenseOfUnhackedTicks,
                StolenCountsFlags, Worthy, NewlyStolen, ScoredRow
  <2> QED BY <2>1, <2>2
<1> QED BY InitIInv, <1>1, PTL DEF Spec

-----------------------------------------------------------------------------
(* The theorems.                                                           *)

\* The rows keep their types, the average among them between 0 and 1.
THEOREM TypesKept == Spec => []TypeOK
  BY InductiveInvariant, PTL DEF IInv

\* Rounding after every tick and averaging on moves the SLA points by (tick + 1) / 4
\* units at most (scoring.py:8-11, 205-213).
THEOREM SlaStaysNear == Spec => []SlaNearAverage
  BY InductiveInvariant, PTL DEF IInv

\* The attack points are those of the captures, half a unit a tick off at most
\* (scoring.py:181-183).
THEOREM OffStaysNear == Spec => []OffNearCaptures
  BY InductiveInvariant, PTL DEF IInv

\* A team has the defense points of exactly the ticks in which its service was alive
\* and no live flag of it was submitted (scoring.py:196-203).
THEOREM DefenseIsEarned == Spec => []DefenseOfUnhackedTicks
  BY InductiveInvariant, PTL DEF IInv

\* A stolen flag is counted once, whoever submits it again and when
\* (rotator.py:262-279).
THEOREM StolenCountedOnce == Spec => []StolenCountsFlags
  BY InductiveInvariant, PTL DEF IInv

=============================================================================

-------------------------- MODULE FlagSubmitProofs --------------------------
(***************************************************************************)
(* Proofs about FlagSubmit: the locks of a submission keep a flag from      *)
(* being counted twice for a team, a pair of victim and service from being  *)
(* marked as first blood twice, and a team from getting more than the cap   *)
(* of a tick's flags while it lasts, for any number of teams, services,     *)
(* flags and concurrent submissions.                                        *)
(***************************************************************************)
EXTENDS FlagSubmit, FiniteSetTheorems, TLAPS

Strings == Flags \cup Garbage
Open(r) == req[r].pc \in {"flags", "blood"}
Request == [pc : {"idle", "lock", "flags", "blood"}, by : Teams \cup {None},
            todo : Seq(Strings), now : Nat, count : Nat, rows : SUBSET Rows]

\* Rows of a team: those of a round, and those of a tick judged in that tick.
InRound(S, t, k) == {s \in Accepted(S) : s.by = t /\ s.round = k}
Current(S, t, k) == {s \in Accepted(S) : s.by = t /\ s.flag.tick = k /\ s.at = k}

\* Rounds are opened in order, and the tick is never ahead of the next one.
GameInv ==
  /\ running \in BOOLEAN /\ tick \in Nat
  /\ \E n \in Nat : rounds = 1..n /\ tick <= n + 1

\* An accepted row is of a flag of a team, in the round of the flag's tick.
RowOK(s) ==
  /\ s.result = "accepted" => /\ s.flag \in Flags /\ PairOf(s.flag) \in Pairs
                              /\ s.round = s.flag.tick
  /\ s.blood => s.result = "accepted"

\* The flag that transaction r races for is new, and below the cap.
Fresh(r) ==
  LET f == Head(req[r].todo) IN
  /\ req[r].todo # <<>> /\ f \in Flags /\ PairOf(f) \in Pairs
  /\ \A s \in Visible(r) : ~(s.by = req[r].by /\ s.flag = f)
  /\ Cap > 0 => req[r].count < Cap

\* A transaction with rows holds the lock of its team, and the locks of the pairs
\* it has marked or is about to.
RequestOK(r) ==
  /\ req[r].pc = "idle" => req[r] = Idle
  /\ req[r].pc # "idle" => req[r].by \in Teams
  /\ req[r].pc = "lock" => req[r].rows = {}
  /\ Open(r) => teamLock[req[r].by] = r
  /\ req[r].pc = "blood" => Fresh(r) /\ bloodLock[PairOf(Head(req[r].todo))] = r
  /\ \A i \in 1..Len(req[r].todo) :
       req[r].todo[i] \in Flags => req[r].todo[i].tick \in rounds
  /\ \A s \in req[r].rows : /\ s.by = req[r].by /\ RowOK(s)
                            /\ s.blood => bloodLock[PairOf(s.flag)] = r
  /\ IsFiniteSet(req[r].rows)

\* What a transaction sees of its team: no flag twice, no more than its count, and
\* no more than the cap of a tick's flags.
SeenOK(r) == Open(r) =>
  /\ \A s, t \in Visible(r) : s.by = req[r].by /\ t.by = s.by /\ s.flag = t.flag => s = t
  /\ Cardinality(InRound(Visible(r), req[r].by, req[r].now)) <= req[r].count
  /\ Cap > 0 => \A k \in Nat : Cardinality(Current(Visible(r), req[r].by, k)) <= Cap

RequestInv == \A r \in Reqs : RequestOK(r)
SeenInv == \A r \in Reqs : SeenOK(r)

\* The same of what is committed.
StoredInv ==
  /\ IsFiniteSet(subs)
  /\ \A s \in subs : RowOK(s)
  /\ \A s, t \in subs : s.by = t.by /\ s.flag = t.flag => s = t
  /\ Cap > 0 => \A t \in Teams, k \in Nat : Cardinality(Current(subs, t, k)) <= Cap

\* Of all blood marks, committed or not, there is one a pair.
BloodInv ==
  \A s, t \in AllRows : s.blood /\ t.blood /\ PairOf(s.flag) = PairOf(t.flag) => s = t

IInv == TypeOK /\ GameInv /\ RequestInv /\ SeenInv /\ StoredInv /\ BloodInv

-----------------------------------------------------------------------------
(* What the definitions are worth.                                         *)

\* The fields of an open transaction.
LEMMA RequestShape ==
  ASSUME TypeOK, NEW r \in Reqs
  PROVE  /\ req \in [Reqs -> Request] /\ req[r] \in Request
         /\ req[r].pc \in {"idle", "lock", "flags", "blood"}
         /\ req[r].by \in Teams \cup {None} /\ req[r].todo \in Seq(Strings)
         /\ req[r].now \in Nat /\ req[r].count \in Nat /\ req[r].rows \subseteq Rows
         /\ Visible(r) \subseteq Rows
  BY DEF TypeOK, Request, Strings, Visible

\* The tick a submission is judged by is a number (flag_submit.py:49-67).
LEMMA CurrentTickShape ==
  ASSUME GameInv
  PROVE  CurrentTick \in Nat
<1>1. PICK n \in Nat : rounds = 1..n
  BY DEF GameInv
<1>2. n \in rounds \cup {0} /\ \A k \in rounds : k <= n
  BY <1>1
<1>3. MaxRound \in rounds \cup {0}
  BY <1>2 DEF MaxRound
<1> QED BY <1>1, <1>3 DEF CurrentTick, GameInv

\* Whoever holds the lock of a team is the only one with rows of it.
LEMMA OneOpen ==
  ASSUME RequestInv, TypeOK, NEW q \in Reqs, NEW r \in Reqs, q # r, Open(r)
  PROVE  /\ Open(q) => req[q].by # req[r].by
         /\ \A s \in req[q].rows : s.by # req[r].by
<1>1. Open(q) => req[q].by # req[r].by
  BY DEF RequestInv, RequestOK
<1>2. ~Open(q) => req[q].rows = {}
  BY RequestShape DEF RequestInv, RequestOK, Open, Idle
<1> QED BY <1>1, <1>2 DEF RequestInv, RequestOK

\* A verdict other than duplicate is about a flag the team has no row of.
LEMMA VerdictShape ==
  ASSUME TypeOK, NEW r \in Reqs, NEW f \in Strings
  PROVE  /\ Verdict(r, f) # "duplicate" =>
              \A s \in Visible(r) : ~(s.by = req[r].by /\ s.flag = f)
         /\ Verdict(r, f) = "accepted" =>
              /\ f \in Flags /\ PairOf(f) \in Pairs
              /\ Cap > 0 => req[r].count < Cap
         /\ Verdict(r, f) = "garbage" => f \in Garbage
<1>1. Verdict(r, f) # "duplicate" =>
        \A s \in Visible(r) : ~(s.by = req[r].by /\ s.flag = f)
  BY DEF Verdict
<1>2. Verdict(r, f) = "garbage" => f \in Garbage
  BY DEF Verdict
<1>3. ASSUME Verdict(r, f) = "accepted"
      PROVE  /\ f \notin Garbage /\ f.target \in Teams /\ f.service \in Services
             /\ (Cap > 0 => ~(req[r].count >= Cap))
  BY <1>3 DEF Verdict
<1>4. Verdict(r, f) = "accepted" => f \in Flags /\ PairOf(f) \in Pairs
  BY <1>3, FlagsAssumption DEF Strings, PairOf, Pairs
<1>5. Verdict(r, f) = "accepted" => (Cap > 0 => req[r].count < Cap)
  BY <1>3, RequestShape, BoundsAssumption
<1> QED BY <1>1, <1>2, <1>4, <1>5

-----------------------------------------------------------------------------
(* The steps.                                                              *)

\* A transaction is not disturbed by another one, nor by the game: of its team it
\* sees what it saw, and the locks it holds it keeps.
LEMMA OthersKeep ==
  ASSUME IInv, NEW q \in Reqs, req'[q] = req[q], rounds \subseteq rounds',
         \A t \in Teams : teamLock[t] = q => teamLock'[t] = q,
         \A p \in Pairs : bloodLock[p] = q => bloodLock'[p] = q,
         subs \subseteq subs',
         Open(q) => \A s \in subs' \ subs : s.by # req[q].by
  PROVE  RequestOK(q)' /\ SeenOK(q)'
<1> DEFINE by == req[q].by
           Mine(S) == {s \in S : s.by = by}
<1>1. RequestOK(q) /\ SeenOK(q)
  BY DEF IInv, RequestInv, SeenInv
<1>2. Open(q)' <=> Open(q)
  BY DEF Open
<1>3. Visible(q)' = subs' \cup req[q].rows /\ Visible(q) = subs \cup req[q].rows
  BY DEF Visible
<1>4. ASSUME Open(q) PROVE \A s : s \in Visible(q)' /\ s.by = by <=> s \in Visible(q) /\ s.by = by
  BY <1>3, <1>4
<1>5. ASSUME Open(q)
      PROVE  /\ InRound(Visible(q)', by, req[q].now) = InRound(Visible(q), by, req[q].now)
             /\ \A k \in Nat : Current(Visible(q)', by, k) = Current(Visible(q), by, k)
  BY <1>4, <1>5 DEF InRound, Current, Accepted
<1>6. SeenOK(q)'
  <2> SUFFICES ASSUME Open(q)
               PROVE  /\ \A s, t \in Visible(q)' : s.by = by /\ t.by = s.by /\ s.flag = t.flag => s = t
                      /\ Cardinality(InRound(Visible(q)', by, req[q].now)) <= req[q].count
                      /\ Cap > 0 => \A k \in Nat : Cardinality(Current(Visible(q)', by, k)) <= Cap
    BY <1>2 DEF SeenOK
  <2>1. \A s, t \in Visible(q)' : s.by = by /\ t.by = s.by /\ s.flag = t.flag => s = t
    BY <1>1, <1>4 DEF SeenOK
  <2>2. /\ Cardinality(InRound(Visible(q), by, req[q].now)) <= req[q].count
        /\ Cap > 0 => \A k \in Nat : Cardinality(Current(Visible(q), by, k)) <= Cap
    BY <1>1 DEF SeenOK
  <2> QED BY <1>5, <2>1, <2>2
<1>7. ASSUME req[q].pc = "blood" PROVE Fresh(q)'
  <2>1. Open(q) /\ Fresh(q)
    BY <1>1, <1>7 DEF RequestOK, Open
  <2> QED BY <1>4, <2>1 DEF Fresh
<1>8. ASSUME NEW s \in req[q].rows, s.blood PROVE bloodLock'[PairOf(s.flag)] = q
  BY <1>1, <1>8 DEF RequestOK, RowOK
<1>9. req[q].pc = "blood" => bloodLock'[PairOf(Head(req[q].todo))] = q
  BY <1>1 DEF RequestOK, Fresh
<1>10. Open(q) => teamLock'[by] = q
  BY <1>1 DEF RequestOK, Open
<1>11. RequestOK(q)'
  BY <1>1, <1>2, <1>7, <1>8, <1>9, <1>10 DEF RequestOK, RowOK
<1> QED BY <1>6, <1>11

\* The rest of a batch.
LEMMA TailShape ==
  ASSUME NEW S, NEW s \in Seq(S), s # <<>>
  PROVE  /\ Head(s) \in S /\ Tail(s) \in Seq(S) /\ Head(s) = s[1] /\ 1 \in 1..Len(s)
         /\ \A i \in 1..Len(Tail(s)) : i + 1 \in 1..Len(s) /\ Tail(s)[i] = s[i + 1]
  OBVIOUS

\* What a transaction of r that goes on leaves as it was.
LEMMA AloneKeeps ==
  ASSUME IInv, NEW r \in Reqs, UNCHANGED <<game, subs>>,
         req' \in [Reqs -> Request], \A q \in Reqs \ {r} : req'[q] = req[q],
         teamLock' \in [Teams -> Reqs \cup {None}],
         bloodLock' \in [Pairs -> Reqs \cup {None}],
         \A t \in Teams : teamLock[t] \in Reqs \ {r} => teamLock'[t] = teamLock[t],
         \A p \in Pairs : bloodLock[p] \in Reqs \ {r} => bloodLock'[p] = bloodLock[p]
  PROVE  /\ TypeOK' /\ GameInv' /\ StoredInv'
         /\ \A q \in Reqs \ {r} : RequestOK(q)' /\ SeenOK(q)'
<1>1. running' = running /\ tick' = tick /\ rounds' = rounds /\ subs' = subs
  BY DEF game
<1>2. TypeOK'
  BY <1>1 DEF IInv, TypeOK, Request, Strings
<1>3. GameInv' /\ StoredInv'
  BY <1>1 DEF IInv, GameInv, StoredInv, RowOK
<1>4. ASSUME NEW q \in Reqs \ {r} PROVE RequestOK(q)' /\ SeenOK(q)'
  BY <1>1, OthersKeep
<1> QED BY <1>2, <1>3, <1>4

\* The locals of a submission after a row more.
LEMMA InsertRecord ==
  ASSUME NEW x \in Request, NEW row, NEW e,
         e = [x EXCEPT !.pc = "flags", !.todo = Tail(@), !.rows = @ \cup {row},
                       !.count = IF row.result = "accepted" THEN @ + 1 ELSE @]
  PROVE  e = [pc |-> "flags", by |-> x.by, todo |-> Tail(x.todo), now |-> x.now,
              count |-> IF row.result = "accepted" THEN x.count + 1 ELSE x.count,
              rows |-> x.rows \cup {row}]
  BY DEF Request

\* A row more for a flag the team has none of (flag_submit.py:168-260).
LEMMA InsertKeeps ==
  ASSUME IInv, NEW r \in Reqs, Open(r), req[r].todo # <<>>,
         NEW row \in Rows, row.by = req[r].by, row.flag = Head(req[r].todo),
         row.at = req[r].now, RowOK(row),
         row.result = "accepted" /\ Cap > 0 => req[r].count < Cap,
         \A s \in Visible(r) : ~(s.by = row.by /\ s.flag = row.flag),
         row.blood => /\ bloodLock[PairOf(row.flag)] = r
                      /\ \A s \in Accepted(Visible(r)) : PairOf(s.flag) # PairOf(row.flag),
         Insert(r, row), UNCHANGED <<game, subs, teamLock, bloodLock>>
  PROVE  IInv'
<1> DEFINE by == req[r].by
           V == Visible(r)
           n == IF row.result = "accepted" THEN req[r].count + 1 ELSE req[r].count
<1>1. /\ req \in [Reqs -> Request] /\ req[r] \in Request /\ req[r].todo \in Seq(Strings)
      /\ req[r].now \in Nat /\ req[r].count \in Nat /\ req[r].rows \subseteq Rows
      /\ by \in Teams /\ IsFiniteSet(req[r].rows) /\ teamLock[by] = r
      /\ RequestOK(r) /\ SeenOK(r)
  BY RequestShape DEF IInv, RequestInv, SeenInv, RequestOK, Open
<1>2. /\ req' = [req EXCEPT ![r] = [pc |-> "flags", by |-> by, todo |-> Tail(req[r].todo),
                                    now |-> req[r].now, count |-> n,
                                    rows |-> req[r].rows \cup {row}]]
  <2>1. req' = [req EXCEPT ![r] = [req[r] EXCEPT !.pc = "flags", !.todo = Tail(@),
                  !.rows = @ \cup {row},
                  !.count = IF row.result = "accepted" THEN @ + 1 ELSE @]]
    BY <1>1 DEF Insert
  <2>2. [req[r] EXCEPT !.pc = "flags", !.todo = Tail(@),
                  !.rows = @ \cup {row},
                  !.count = IF row.result = "accepted" THEN @ + 1 ELSE @]
          = [pc |-> "flags", by |-> by, todo |-> Tail(req[r].todo),
             now |-> req[r].now, count |-> n, rows |-> req[r].rows \cup {row}]
    BY <1>1, InsertRecord
  <2> QED BY <2>1, <2>2
<1>3. /\ Tail(req[r].todo) \in Seq(Strings) /\ n \in Nat
      /\ \A i \in 1..Len(Tail(req[r].todo)) :
           i + 1 \in 1..Len(req[r].todo) /\ Tail(req[r].todo)[i] = req[r].todo[i + 1]
  BY <1>1, TailShape
<1>4. /\ req' \in [Reqs -> Request] /\ \A q \in Reqs \ {r} : req'[q] = req[q]
      /\ req'[r].pc = "flags" /\ req'[r].by = by /\ req'[r].todo = Tail(req[r].todo)
      /\ req'[r].now = req[r].now /\ req'[r].count = n
      /\ req'[r].rows = req[r].rows \cup {row}
  <2> HIDE DEF n, by
  <2> QED BY <1>1, <1>2, <1>3 DEF Request
<1>5. /\ rounds' = rounds /\ subs' = subs /\ teamLock' = teamLock /\ bloodLock' = bloodLock
      /\ UNCHANGED <<game, subs>>
  BY DEF game
<1>6. /\ TypeOK' /\ GameInv' /\ StoredInv'
      /\ \A q \in Reqs \ {r} : RequestOK(q)' /\ SeenOK(q)'
  BY <1>4, <1>5, AloneKeeps DEF IInv, TypeOK
<1>7. RequestOK(r)'
  <2>1. IsFiniteSet(req'[r].rows)
    <3>1. IsFiniteSet(req[r].rows \cup {row})
      BY <1>1, FS_AddElement
    <3> QED BY <1>4, <3>1
  <2>2. \A i \in 1..Len(req'[r].todo) :
          req'[r].todo[i] \in Flags => req'[r].todo[i].tick \in rounds
    BY <1>1, <1>3, <1>4 DEF RequestOK
  <2>3. \A s \in req'[r].rows : /\ s.by = by /\ RowOK(s)
                                /\ s.blood => bloodLock[PairOf(s.flag)] = r
    BY <1>1, <1>4 DEF RequestOK
  <2> QED BY <1>1, <1>4, <1>5, <2>1, <2>2, <2>3 DEF RequestOK, Open, RowOK
<1>8. V' = V \cup {row} /\ row \notin V /\ IsFiniteSet(V) /\ V \subseteq Rows
  <2>1. IsFiniteSet(subs)
    BY DEF IInv, StoredInv
  <2>2. IsFiniteSet(V)
    BY <1>1, <2>1, FS_Union DEF Visible
  <2>3. V \subseteq Rows
    BY RequestShape DEF IInv
  <2> QED BY <1>4, <1>5, <2>2, <2>3 DEF Visible
<1> HIDE DEF V
<1>9. \A s, t \in V' : s.by = by /\ t.by = s.by /\ s.flag = t.flag => s = t
  BY <1>1, <1>8 DEF SeenOK, V
<1>10. Cardinality(InRound(V', by, req[r].now)) <= n
  <2> DEFINE G == InRound(V, by, req[r].now)
             H == InRound(V', by, req[r].now)
  <2>1. IsFiniteSet(G) /\ Cardinality(G) \in Nat
    <3>1. G \in SUBSET V
      BY DEF InRound, Accepted
    <3> QED BY <1>8, <3>1, FS_Subset, FS_CardinalityType
  <2>2. Cardinality(G) <= req[r].count
    BY <1>1 DEF SeenOK, V
  <2>3. CASE row.result = "accepted"
    <3>1. H \in SUBSET (G \cup {row})
      BY <1>8 DEF InRound, Accepted
    <3>2. IsFiniteSet(G \cup {row}) /\ Cardinality(G \cup {row}) <= Cardinality(G) + 1
          /\ Cardinality(G \cup {row}) \in Nat
      <4> HIDE DEF G
      <4>1. IsFiniteSet(G \cup {row})
        BY <2>1, FS_AddElement
      <4>2. Cardinality(G \cup {row}) = Cardinality(G) \/ Cardinality(G \cup {row}) = Cardinality(G) + 1
        BY <2>1, FS_AddElement
      <4> QED BY <2>1, <4>1, <4>2
    <3>3. Cardinality(H) <= Cardinality(G \cup {row}) /\ Cardinality(H) \in Nat
      BY <3>1, <3>2, FS_Subset, FS_CardinalityType
    <3>4. n = req[r].count + 1
      BY <2>3
    <3> SUFFICES Cardinality(H) <= n
      OBVIOUS
    <3> HIDE DEF G, H, n
    <3> QED BY <1>1, <2>1, <2>2, <3>2, <3>3, <3>4
  <2>4. CASE row.result # "accepted"
    <3>1. H = G
      BY <1>8, <2>4 DEF InRound, Accepted
    <3> QED BY <2>2, <2>4, <3>1
  <2> QED BY <2>3, <2>4
<1>11. ASSUME Cap > 0, NEW k \in Nat
       PROVE  Cardinality(Current(V', by, k)) <= Cap
  <2> DEFINE G == Current(V, by, k)
             H == Current(V', by, k)
  <2>1. Cardinality(G) <= Cap
    BY <1>1, <1>11 DEF SeenOK, V
  <2>2. CASE row.result = "accepted" /\ row.flag.tick = k /\ row.at = k
    <3>1. k = req[r].now /\ row.round = k /\ row \in Rows
      BY <2>2 DEF RowOK
    <3>2. H \in SUBSET InRound(V', by, req[r].now)
      <4>1. ASSUME NEW s \in V, s.result = "accepted", s.flag.tick = k PROVE s.round = k
        <5>1. RowOK(s)
          BY <1>1 DEF V, Visible, IInv, StoredInv, RequestOK
        <5> QED BY <4>1, <5>1 DEF RowOK
      <4> QED BY <1>8, <3>1, <4>1 DEF InRound, Current, Accepted
    <3>3. IsFiniteSet(InRound(V', by, req[r].now))
      <4>1. IsFiniteSet(V')
        BY <1>8, FS_AddElement
      <4>2. InRound(V', by, req[r].now) \in SUBSET V'
        BY DEF InRound, Accepted
      <4> QED BY <4>1, <4>2, FS_Subset
    <3>4. /\ Cardinality(H) <= Cardinality(InRound(V', by, req[r].now))
          /\ Cardinality(H) \in Nat /\ Cardinality(InRound(V', by, req[r].now)) \in Nat
      BY <3>2, <3>3, FS_Subset, FS_CardinalityType
    <3>5. n <= Cap
      BY <1>1, <1>11, <2>2, BoundsAssumption
    <3> SUFFICES Cardinality(H) <= Cap
      OBVIOUS
    <3> HIDE DEF H, n
    <3> QED BY <1>3, <1>10, <3>4, <3>5, BoundsAssumption
  <2>3. CASE ~(row.result = "accepted" /\ row.flag.tick = k /\ row.at = k)
    <3>1. H = G
      BY <1>8, <2>3 DEF Current, Accepted
    <3> QED BY <2>1, <3>1
  <2> QED BY <2>2, <2>3
<1>12. SeenOK(r)'
  <2>1. Visible(r)' = V'
    BY DEF V
  <2> HIDE DEF n
  <2> QED BY <1>4, <1>9, <1>10, <1>11, <2>1 DEF SeenOK
<1>13. BloodInv'
  <2>1. AllRows' \subseteq AllRows \cup {row}
    BY <1>4, <1>5 DEF AllRows
  <2>2. ASSUME row.blood, NEW s \in AllRows, s.blood PROVE PairOf(s.flag) # PairOf(row.flag)
    <3>1. CASE s \in Visible(r)
      <4>1. RowOK(s)
        BY <1>1, <3>1 DEF Visible, IInv, StoredInv, RequestOK
      <4>2. s \in Accepted(Visible(r))
        BY <2>2, <3>1, <4>1 DEF RowOK, Accepted
      <4> QED BY <2>2, <4>2
    <3>2. CASE s \notin Visible(r)
      <4>1. PICK q \in Reqs : s \in req[q].rows /\ q # r
        BY <3>2 DEF AllRows, Visible
      <4>2. bloodLock[PairOf(s.flag)] = q
        BY <2>2, <4>1 DEF IInv, RequestInv, RequestOK
      <4> QED BY <2>2, <4>1, <4>2
    <3> QED BY <3>1, <3>2
  <2>3. \A s, t \in AllRows : s.blood /\ t.blood /\ PairOf(s.flag) = PairOf(t.flag) => s = t
    BY DEF IInv, BloodInv
  <2>4. ASSUME NEW s \in AllRows', NEW t \in AllRows', s.blood, t.blood,
               PairOf(s.flag) = PairOf(t.flag)
        PROVE  s = t
    BY <2>1, <2>2, <2>3, <2>4
  <2> QED BY <2>4 DEF BloodInv
<1> QED BY <1>6, <1>7, <1>12, <1>13 DEF IInv, RequestInv, SeenInv

\* A transaction that stores nothing more has no marks more either.
LEMMA BloodKeeps ==
  ASSUME IInv, subs' = subs, \A q \in Reqs : req'[q].rows \subseteq req[q].rows
  PROVE  BloodInv'
<1>1. AllRows' \subseteq AllRows
  BY DEF AllRows
<1> QED BY <1>1 DEF IInv, BloodInv

\* A submission arrives (flag_submit.py:128-146).
LEMMA BeginKeeps ==
  ASSUME IInv, NEW r \in Reqs, NEW o \in Offers, Begin(r, o)
  PROVE  IInv'
<1>1. /\ o.by \in Teams /\ o.flags \in Seq(Strings) /\ req \in [Reqs -> Request]
      /\ subs' = subs /\ rounds' = rounds /\ teamLock' = teamLock /\ bloodLock' = bloodLock
      /\ UNCHANGED <<game, subs>>
  BY FlagsAssumption, RequestShape DEF IInv, Begin, game, Strings
<1>2. req' = [req EXCEPT ![r] = [pc |-> "lock", by |-> o.by, todo |-> o.flags, now |-> 0,
                                 count |-> 0, rows |-> {}]]
  <2>1. PICK x : x = [Idle EXCEPT !.pc = "lock", !.by = o.by, !.todo = o.flags]
    OBVIOUS
  <2>2. x = [pc |-> "lock", by |-> o.by, todo |-> o.flags, now |-> 0, count |-> 0, rows |-> {}]
    BY <2>1 DEF Idle
  <2>3. req' = [req EXCEPT ![r] = x]
    BY <2>1 DEF Begin
  <2> QED BY <2>2, <2>3
<1>3. [pc |-> "lock", by |-> o.by, todo |-> o.flags, now |-> 0, count |-> 0, rows |-> {}] \in Request
  BY <1>1 DEF Request
<1>4. /\ req' \in [Reqs -> Request] /\ \A q \in Reqs \ {r} : req'[q] = req[q]
      /\ req'[r] = [pc |-> "lock", by |-> o.by, todo |-> o.flags, now |-> 0, count |-> 0,
                    rows |-> {}]
  BY <1>1, <1>2, <1>3
<1>5. /\ TypeOK' /\ GameInv' /\ StoredInv'
      /\ \A q \in Reqs \ {r} : RequestOK(q)' /\ SeenOK(q)'
  BY <1>1, <1>4, AloneKeeps DEF IInv, TypeOK
<1>6. RequestOK(r)'
  <2>1. \A i \in 1..Len(o.flags) : o.flags[i] \in Flags => o.flags[i].tick \in rounds
    BY <1>1 DEF Begin
  <2>2. IsFiniteSet({})
    BY FS_EmptySet
  <2> QED BY <1>1, <1>4, <2>1, <2>2 DEF RequestOK, Open
<1>7. SeenOK(r)'
  BY <1>4 DEF SeenOK, Open
<1>8. BloodInv'
  BY <1>1, <1>4, BloodKeeps
<1> QED BY <1>5, <1>6, <1>7, <1>8 DEF IInv, RequestInv, SeenInv

\* It takes its team's lock, reads the tick and counts (flag_submit.py:70-77, 146-158).
LEMMA EnterKeeps ==
  ASSUME IInv, NEW r \in Reqs, Enter(r)
  PROVE  IInv'
<1> DEFINE by == req[r].by
           n == Cardinality(InRound(subs, by, CurrentTick))
<1>1. /\ req \in [Reqs -> Request] /\ req[r] \in Request /\ req[r].pc = "lock" /\ by \in Teams
      /\ req[r].rows = {} /\ RequestOK(r)
      /\ subs' = subs /\ rounds' = rounds /\ bloodLock' = bloodLock /\ UNCHANGED <<game, subs>>
      /\ teamLock' = [teamLock EXCEPT ![by] = r] /\ teamLock[by] = None
      /\ teamLock \in [Teams -> Reqs \cup {None}] /\ None \notin Reqs
  BY TeamsAssumption, RequestShape DEF IInv, RequestInv, RequestOK, Enter, game, TypeOK
<1>2. CurrentTick \in Nat /\ n \in Nat
  <2>1. InRound(subs, by, CurrentTick) \in SUBSET subs
    BY DEF InRound, Accepted
  <2>2. IsFiniteSet(InRound(subs, by, CurrentTick))
    BY <2>1, FS_Subset DEF IInv, StoredInv
  <2> QED BY <2>2, CurrentTickShape, FS_CardinalityType DEF IInv
<1>3. /\ req' \in [Reqs -> Request] /\ \A q \in Reqs \ {r} : req'[q] = req[q]
      /\ req'[r].pc = "flags" /\ req'[r].by = by /\ req'[r].todo = req[r].todo
      /\ req'[r].now = CurrentTick /\ req'[r].count = n /\ req'[r].rows = {}
  <2> DEFINE e == [req[r] EXCEPT !.pc = "flags", !.now = CurrentTick, !.count = n]
  <2>1. req' = [req EXCEPT ![r] = e]
    BY <1>1 DEF Enter, InRound, Accepted
  <2> HIDE DEF n
  <2>2. PICK x : x = e
    OBVIOUS
  <2>3. x = [pc |-> "flags", by |-> by, todo |-> req[r].todo, now |-> CurrentTick,
             count |-> n, rows |-> req[r].rows]
    BY <1>1, <2>2 DEF Request
  <2>4. x \in Request
    BY <1>1, <1>2, <2>3 DEF Request
  <2> HIDE DEF e
  <2>5. req'[r] = x /\ req' \in [Reqs -> Request] /\ \A q \in Reqs \ {r} : req'[q] = req[q]
    BY <1>1, <2>1, <2>2, <2>4
  <2> QED BY <1>1, <2>3, <2>5
<1>4. teamLock' \in [Teams -> Reqs \cup {None}] /\ teamLock'[by] = r
      /\ \A t \in Teams : teamLock[t] \in Reqs \ {r} => teamLock'[t] = teamLock[t]
  BY <1>1
<1>5. /\ TypeOK' /\ GameInv' /\ StoredInv'
      /\ \A q \in Reqs \ {r} : RequestOK(q)' /\ SeenOK(q)'
  BY <1>1, <1>3, <1>4, AloneKeeps DEF IInv, TypeOK
<1>6. RequestOK(r)'
  <2>1. IsFiniteSet({})
    BY FS_EmptySet
  <2> QED BY <1>1, <1>3, <1>4, <2>1 DEF RequestOK, Open
<1>7. Visible(r)' = subs
  BY <1>1, <1>3 DEF Visible
<1>8. SeenOK(r)'
  <2>1. \A s, t \in subs : s.by = by /\ t.by = s.by /\ s.flag = t.flag => s = t
    BY DEF IInv, StoredInv
  <2>2. Cap > 0 => \A k \in Nat : Cardinality(Current(subs, by, k)) <= Cap
    BY <1>1 DEF IInv, StoredInv
  <2>3. Cardinality(InRound(subs, by, CurrentTick)) <= n
    BY <1>2
  <2> HIDE DEF n
  <2> QED BY <1>3, <1>7, <2>1, <2>2, <2>3 DEF SeenOK
<1>9. BloodInv'
  BY <1>1, <1>3, BloodKeeps
<1> QED BY <1>5, <1>6, <1>8, <1>9 DEF IInv, RequestInv, SeenInv

\* The steps that change nothing but where a transaction is in its batch.
LEMMA LocalKeeps ==
  ASSUME IInv, NEW r \in Reqs, Open(r), UNCHANGED <<game, subs, teamLock>>,
         bloodLock' \in [Pairs -> Reqs \cup {None}],
         \A p \in Pairs : bloodLock[p] \in Reqs => bloodLock'[p] = bloodLock[p],
         NEW pc \in {"flags", "blood"}, NEW todo \in Seq(Strings),
         \A i \in 1..Len(todo) : todo[i] \in Flags => todo[i].tick \in rounds,
         req' = [req EXCEPT ![r] = [pc |-> pc, by |-> req[r].by, todo |-> todo,
                                    now |-> req[r].now, count |-> req[r].count,
                                    rows |-> req[r].rows]],
         pc = "blood" => /\ Fresh(r) /\ todo = req[r].todo
                         /\ bloodLock'[PairOf(Head(todo))] = r
  PROVE  IInv'
<1>1. /\ req \in [Reqs -> Request] /\ req[r] \in Request /\ RequestOK(r) /\ SeenOK(r)
      /\ subs' = subs /\ rounds' = rounds /\ teamLock' = teamLock /\ UNCHANGED <<game, subs>>
      /\ req[r].by \in Teams
  BY RequestShape DEF IInv, RequestInv, SeenInv, game, RequestOK, Open
<1>2. [pc |-> pc, by |-> req[r].by, todo |-> todo, now |-> req[r].now,
       count |-> req[r].count, rows |-> req[r].rows] \in Request
  BY <1>1 DEF Request
<1>3. /\ req' \in [Reqs -> Request] /\ \A q \in Reqs \ {r} : req'[q] = req[q]
      /\ req'[r].pc = pc /\ req'[r].by = req[r].by /\ req'[r].todo = todo
      /\ req'[r].now = req[r].now /\ req'[r].count = req[r].count /\ req'[r].rows = req[r].rows
  BY <1>1, <1>2
<1>4. /\ TypeOK' /\ GameInv' /\ StoredInv'
      /\ \A q \in Reqs \ {r} : RequestOK(q)' /\ SeenOK(q)'
  BY <1>1, <1>3, AloneKeeps DEF IInv, TypeOK
<1>5. Visible(r)' = Visible(r)
  BY <1>1, <1>3 DEF Visible
<1>6. SeenOK(r)'
  BY <1>1, <1>3, <1>5 DEF SeenOK
<1>7. pc = "blood" => Fresh(r)'
  BY <1>1, <1>3, <1>5 DEF Fresh
<1>8. \A s \in req[r].rows : s.blood => bloodLock'[PairOf(s.flag)] = r
  BY <1>1 DEF RequestOK, RowOK
<1>9. RequestOK(r)'
  BY <1>1, <1>3, <1>7, <1>8 DEF RequestOK, Open, RowOK
<1>10. BloodInv'
  BY <1>1, <1>3, BloodKeeps
<1> QED BY <1>4, <1>6, <1>9, <1>10 DEF IInv, RequestInv, SeenInv

\* A flag the team has a row of, or that it gave in this batch already, is passed over.
LEMMA DuplicateKeeps ==
  ASSUME IInv, NEW r \in Reqs, Duplicate(r)
  PROVE  IInv'
<1>1. /\ req \in [Reqs -> Request] /\ req[r] \in Request /\ RequestOK(r)
      /\ req[r].pc = "flags" /\ Open(r) /\ req[r].todo # <<>> /\ req[r].todo \in Seq(Strings)
  BY RequestShape DEF IInv, RequestInv, Duplicate, Judging, Open
<1>2. /\ Tail(req[r].todo) \in Seq(Strings)
      /\ \A i \in 1..Len(Tail(req[r].todo)) :
           i + 1 \in 1..Len(req[r].todo) /\ Tail(req[r].todo)[i] = req[r].todo[i + 1]
  BY <1>1, TailShape
<1>3. \A i \in 1..Len(Tail(req[r].todo)) :
        Tail(req[r].todo)[i] \in Flags => Tail(req[r].todo)[i].tick \in rounds
  BY <1>1, <1>2 DEF RequestOK
<1>4. req' = [req EXCEPT ![r] = [pc |-> "flags", by |-> req[r].by, todo |-> Tail(req[r].todo),
                                 now |-> req[r].now, count |-> req[r].count,
                                 rows |-> req[r].rows]]
  <2>1. PICK x : x = [req[r] EXCEPT !.todo = Tail(@)]
    OBVIOUS
  <2>2. x = [pc |-> "flags", by |-> req[r].by, todo |-> Tail(req[r].todo), now |-> req[r].now,
             count |-> req[r].count, rows |-> req[r].rows]
    BY <1>1, <2>1 DEF Request
  <2>3. req' = [req EXCEPT ![r] = x]
    BY <1>1, <2>1 DEF Duplicate
  <2> QED BY <2>2, <2>3
<1>5. UNCHANGED <<game, subs, teamLock>> /\ bloodLock' = bloodLock
  BY DEF Duplicate
<1> HIDE DEF Duplicate
<1>6. \A p \in Pairs : bloodLock[p] \in Reqs => bloodLock'[p] = bloodLock[p]
  BY <1>5
<1>7. bloodLock' \in [Pairs -> Reqs \cup {None}]
  BY <1>5 DEF IInv, TypeOK
<1> QED BY <1>1, <1>2, <1>3, <1>4, <1>5, <1>6, <1>7, LocalKeeps

\* The race for a pair is won (flag_submit.py:80-98).
LEMMA TryBloodKeeps ==
  ASSUME IInv, NEW r \in Reqs, TryBlood(r)
  PROVE  IInv'
<1> DEFINE f == Head(req[r].todo)
           p == PairOf(f)
<1>1. /\ req \in [Reqs -> Request] /\ req[r] \in Request /\ RequestOK(r)
      /\ req[r].pc = "flags" /\ Open(r) /\ req[r].todo # <<>> /\ req[r].todo \in Seq(Strings)
      /\ Verdict(r, f) = "accepted" /\ f \in Strings
  BY RequestShape, TailShape DEF IInv, RequestInv, TryBlood, Judging, Open
<1>2. Fresh(r) /\ p \in Pairs
  BY <1>1, VerdictShape DEF IInv, Fresh
<1>3. /\ bloodLock[p] \in {None, r} /\ bloodLock' = [bloodLock EXCEPT ![p] = r]
      /\ bloodLock \in [Pairs -> Reqs \cup {None}] /\ None \notin Reqs
  BY TeamsAssumption DEF TryBlood, IInv, TypeOK
<1>4. /\ bloodLock' \in [Pairs -> Reqs \cup {None}] /\ bloodLock'[p] = r
      /\ \A u \in Pairs : bloodLock[u] \in Reqs => bloodLock'[u] = bloodLock[u]
  BY <1>2, <1>3
<1>5. req' = [req EXCEPT ![r] = [pc |-> "blood", by |-> req[r].by, todo |-> req[r].todo,
                                 now |-> req[r].now, count |-> req[r].count,
                                 rows |-> req[r].rows]]
  <2>1. PICK x : x = [req[r] EXCEPT !.pc = "blood"]
    OBVIOUS
  <2>2. x = [pc |-> "blood", by |-> req[r].by, todo |-> req[r].todo, now |-> req[r].now,
             count |-> req[r].count, rows |-> req[r].rows]
    BY <1>1, <2>1 DEF Request
  <2>3. req' = [req EXCEPT ![r] = x]
    BY <1>1, <2>1 DEF TryBlood
  <2> QED BY <2>2, <2>3
<1>6. UNCHANGED <<game, subs, teamLock>>
  BY DEF TryBlood
<1>7. \A i \in 1..Len(req[r].todo) : req[r].todo[i] \in Flags => req[r].todo[i].tick \in rounds
  BY <1>1 DEF RequestOK
<1>8. bloodLock'[PairOf(Head(req[r].todo))] = r
  BY <1>4
<1> HIDE DEF f, p
<1> QED BY <1>1, <1>2, <1>4, <1>5, <1>6, <1>7, <1>8, LocalKeeps

\* What the verdicts write.
LEMMA RowShape ==
  ASSUME IInv, NEW r \in Reqs, Open(r), req[r].todo # <<>>, NEW result \in Results,
         NEW blood \in BOOLEAN, NEW round \in Nat \cup {None}
  PROVE  LET row == Row(r, Head(req[r].todo), result, round, blood) IN
         /\ row \in Rows /\ row.by = req[r].by /\ row.flag = Head(req[r].todo)
         /\ row.at = req[r].now /\ row.result = result /\ row.blood = blood
         /\ row.round = round /\ Head(req[r].todo) \in Strings
<1>1. /\ req[r].by \in Teams /\ req[r].now \in Nat /\ Head(req[r].todo) \in Strings
  BY RequestShape, TailShape DEF IInv, RequestInv, RequestOK, Open
<1> QED BY <1>1 DEF Row, Rows, Strings

\* A row that is refused counts for nothing.
LEMMA RefusedKeeps ==
  ASSUME IInv, NEW r \in Reqs, req[r].pc = "flags", req[r].todo # <<>>,
         Verdict(r, Head(req[r].todo)) # "duplicate", NEW result \in Results \ {"accepted"},
         NEW round \in Nat \cup {None},
         Insert(r, Row(r, Head(req[r].todo), result, round, FALSE)),
         UNCHANGED <<game, subs, teamLock, bloodLock>>
  PROVE  IInv'
<1> DEFINE row == Row(r, Head(req[r].todo), result, round, FALSE)
<1>1. Open(r)
  BY DEF Open
<1>2. /\ row \in Rows /\ row.by = req[r].by /\ row.flag = Head(req[r].todo)
      /\ row.at = req[r].now /\ row.result = result /\ row.blood = FALSE
      /\ Head(req[r].todo) \in Strings
  <2>1. req[r].by \in Teams /\ req[r].now \in Nat /\ Head(req[r].todo) \in Strings
    BY <1>1, RequestShape, TailShape DEF IInv, RequestInv, RequestOK, Open
  <2> QED BY <2>1 DEF Row, Rows, Strings
<1>3. \A s \in Visible(r) : ~(s.by = req[r].by /\ s.flag = Head(req[r].todo))
  BY <1>2, VerdictShape DEF IInv
<1> HIDE DEF row
<1>4. RowOK(row)
  BY <1>2 DEF RowOK
<1>5. Insert(r, row)
  BY DEF row
<1> QED BY <1>1, <1>2, <1>3, <1>4, <1>5, InsertKeeps

\* An accepted row is in the round of its flag, whose tick has one.
LEMMA AcceptedKeeps ==
  ASSUME IInv, NEW r \in Reqs, Open(r), Fresh(r), NEW blood \in BOOLEAN,
         Insert(r, Row(r, Head(req[r].todo), "accepted", RoundOf(Head(req[r].todo)), blood)),
         blood => /\ bloodLock[PairOf(Head(req[r].todo))] = r
                  /\ \A s \in Accepted(Visible(r)) :
                       PairOf(s.flag) # PairOf(Head(req[r].todo)),
         UNCHANGED <<game, subs, teamLock, bloodLock>>
  PROVE  IInv'
<1> DEFINE f == Head(req[r].todo)
           row == Row(r, f, "accepted", RoundOf(f), blood)
<1>1. f \in Flags /\ PairOf(f) \in Pairs /\ req[r].todo # <<>>
  BY DEF Fresh
<1>2. f.tick \in rounds /\ f.tick \in Nat /\ RoundOf(f) = f.tick
  <2>1. f = req[r].todo[1] /\ 1 \in 1..Len(req[r].todo)
    BY <1>1, RequestShape, TailShape DEF IInv
  <2>2. f.tick \in rounds
    BY <1>1, <2>1 DEF IInv, RequestInv, RequestOK
  <2> QED BY <1>1, <2>2, FlagsAssumption DEF RoundOf
<1>3. /\ row \in Rows /\ row.by = req[r].by /\ row.flag = f /\ row.at = req[r].now
      /\ row.result = "accepted" /\ row.blood = blood /\ row.round = f.tick
  <2>1. "accepted" \in Results /\ RoundOf(f) \in Nat \cup {None}
    BY <1>2 DEF Results
  <2> QED BY <1>1, <1>2, <2>1, RowShape
<1>4. Insert(r, row)
  OBVIOUS
<1>5. /\ \A s \in Visible(r) : ~(s.by = req[r].by /\ s.flag = f)
      /\ Cap > 0 => req[r].count < Cap
  BY DEF Fresh
<1> HIDE DEF row, f
<1>6. RowOK(row)
  BY <1>1, <1>3 DEF RowOK
<1>7. row.blood => /\ bloodLock[PairOf(row.flag)] = r
                   /\ \A s \in Accepted(Visible(r)) : PairOf(s.flag) # PairOf(row.flag)
  BY <1>3 DEF f
<1>8. row.flag = Head(req[r].todo)
  BY <1>3 DEF f
<1>9. \A s \in Visible(r) : ~(s.by = row.by /\ s.flag = row.flag)
  BY <1>3, <1>5
<1> QED BY <1>1, <1>3, <1>4, <1>5, <1>6, <1>7, <1>8, <1>9, InsertKeeps

\* The end of a transaction gives its locks back, and only its own.
LEMMA ReleaseShape ==
  ASSUME TypeOK, NEW r \in Reqs, Release(r)
  PROVE  /\ req' \in [Reqs -> Request] /\ req'[r] = Idle
         /\ \A q \in Reqs \ {r} : req'[q] = req[q]
         /\ teamLock' \in [Teams -> Reqs \cup {None}]
         /\ bloodLock' \in [Pairs -> Reqs \cup {None}]
         /\ \A t \in Teams : teamLock[t] \in Reqs \ {r} => teamLock'[t] = teamLock[t]
         /\ \A p \in Pairs : bloodLock[p] \in Reqs \ {r} => bloodLock'[p] = bloodLock[p]
<1>1. Idle \in Request
  <2>1. <<>> \in Seq(Strings)
    OBVIOUS
  <2> QED BY <2>1 DEF Idle, Request
<1>2. req' = [req EXCEPT ![r] = Idle] /\ req \in [Reqs -> Request]
  BY RequestShape DEF Release
<1>3. /\ teamLock' = [t \in Teams |-> IF teamLock[t] = r THEN None ELSE teamLock[t]]
      /\ bloodLock' = [p \in Pairs |-> IF bloodLock[p] = r THEN None ELSE bloodLock[p]]
  BY DEF Release
<1>4. teamLock \in [Teams -> Reqs \cup {None}] /\ bloodLock \in [Pairs -> Reqs \cup {None}]
  BY DEF TypeOK
<1> QED BY <1>1, <1>2, <1>3, <1>4

\* Nothing is asked of a submission that is over.
LEMMA IdleKeeps ==
  ASSUME NEW r \in Reqs, req'[r] = Idle
  PROVE  RequestOK(r)' /\ SeenOK(r)'
<1>1. ~Open(r)' /\ req'[r].pc = "idle" /\ req'[r].rows = {} /\ Len(req'[r].todo) = 0
  BY DEF Open, Idle
<1>2. IsFiniteSet({})
  BY FS_EmptySet
<1>3. SeenOK(r)'
  BY <1>1 DEF SeenOK
<1>4. RequestOK(r)'
  BY <1>1, <1>2 DEF RequestOK
<1> QED BY <1>3, <1>4

\* A batch that fails leaves nothing behind.
LEMMA RollbackKeeps ==
  ASSUME IInv, NEW r \in Reqs, Release(r), UNCHANGED <<game, subs>>
  PROVE  IInv'
<1>1. /\ TypeOK' /\ GameInv' /\ StoredInv'
      /\ \A q \in Reqs \ {r} : RequestOK(q)' /\ SeenOK(q)'
  BY ReleaseShape, AloneKeeps DEF IInv
<1>2. RequestOK(r)' /\ SeenOK(r)'
  BY ReleaseShape, IdleKeeps DEF IInv
<1>3. BloodInv'
  <2>1. \A q \in Reqs : req'[q].rows \subseteq req[q].rows
    BY ReleaseShape DEF IInv, Idle
  <2> QED BY <2>1, BloodKeeps
<1> QED BY <1>1, <1>2, <1>3 DEF IInv, RequestInv, SeenInv

\* What a batch has found is stored at once (flag_submit.py:262-280).
LEMMA CommitKeeps ==
  ASSUME IInv, NEW r \in Reqs, Commit(r)
  PROVE  IInv'
<1> DEFINE by == req[r].by
           V == Visible(r)
<1>1. /\ Open(r) /\ RequestOK(r) /\ SeenOK(r) /\ by \in Teams
      /\ Release(r) /\ subs' = V /\ UNCHANGED game
      /\ running' = running /\ tick' = tick /\ rounds' = rounds
  BY DEF Commit, Open, IInv, RequestInv, SeenInv, RequestOK, Visible, game
<1>2. TypeOK'
  <2>1. V \subseteq Rows
    BY RequestShape DEF IInv
  <2> HIDE DEF V
  <2> QED BY <1>1, <2>1, ReleaseShape DEF IInv, TypeOK, Request, Strings
<1>3. GameInv'
  BY <1>1 DEF IInv, GameInv
<1>4. \A s \in V : s \in subs \/ (s \in req[r].rows /\ s.by = by)
  BY <1>1 DEF Visible, RequestOK
<1>5. StoredInv'
  <2>1. IsFiniteSet(V)
    BY <1>1, FS_Union DEF IInv, StoredInv, RequestOK, Visible
  <2>2. \A s \in V : RowOK(s)
    BY <1>1 DEF IInv, StoredInv, RequestOK, Visible
  <2>3. ASSUME NEW s \in V, NEW t \in V, s.by = t.by, s.flag = t.flag PROVE s = t
    <3>1. CASE s.by = by
      BY <1>1, <2>3, <3>1 DEF SeenOK
    <3>2. CASE s.by # by
      BY <1>4, <2>3, <3>2 DEF IInv, StoredInv
    <3> QED BY <3>1, <3>2
  <2>4. ASSUME Cap > 0, NEW t \in Teams, NEW k \in Nat
        PROVE  Cardinality(Current(V, t, k)) <= Cap
    <3>1. CASE t = by
      BY <1>1, <2>4, <3>1 DEF SeenOK
    <3>2. CASE t # by
      <4>1. Current(V, t, k) = Current(subs, t, k)
        BY <1>4, <3>2 DEF Current, Accepted, Visible
      <4> QED BY <2>4, <4>1 DEF IInv, StoredInv
    <3> QED BY <3>1, <3>2
  <2> HIDE DEF V
  <2> QED BY <1>1, <2>1, <2>2, <2>3, <2>4 DEF StoredInv, RowOK
<1>6. ASSUME NEW q \in Reqs \ {r} PROVE RequestOK(q)' /\ SeenOK(q)'
  <2>1. Open(q) => \A s \in subs' \ subs : s.by # req[q].by
    BY <1>1, <1>4, OneOpen DEF IInv
  <2>2. subs \subseteq subs'
    BY <1>1 DEF Visible
  <2>3. /\ req'[q] = req[q] /\ rounds \subseteq rounds'
        /\ \A t \in Teams : teamLock[t] = q => teamLock'[t] = q
        /\ \A p \in Pairs : bloodLock[p] = q => bloodLock'[p] = q
    BY <1>1, ReleaseShape DEF IInv
  <2> QED BY <2>1, <2>2, <2>3, OthersKeep
<1>7. RequestOK(r)' /\ SeenOK(r)'
  BY <1>1, ReleaseShape, IdleKeeps DEF IInv
<1>8. BloodInv'
  <2>1. AllRows' \subseteq AllRows
    BY <1>1, ReleaseShape DEF IInv, AllRows, Visible, Idle
  <2> QED BY <2>1 DEF IInv, BloodInv
<1> QED BY <1>2, <1>3, <1>5, <1>6, <1>7, <1>8 DEF IInv, RequestInv, SeenInv

\* The game goes on underneath (rotator.py, game_timer.py).
LEMMA GameKeeps ==
  ASSUME IInv, NextTick \/ OpenRound \/ StopGame \/ StartGame
  PROVE  IInv'
<1>1. UNCHANGED <<subs, req, teamLock, bloodLock>>
  BY DEF NextTick, OpenRound, StopGame, StartGame
<1>2. PICK n \in Nat : rounds = 1..n /\ tick <= n + 1
  BY DEF IInv, GameInv
<1>3. tick \in Nat /\ running \in BOOLEAN
  BY DEF IInv, GameInv
<1>4. GameInv' /\ rounds \subseteq rounds'
  <2>1. CASE NextTick
    <3>1. tick <= n
      BY <1>2, <1>3, <2>1 DEF NextTick
    <3> QED BY <1>2, <1>3, <2>1, <3>1 DEF NextTick, GameInv
  <2>2. CASE OpenRound /\ tick <= n
    <3>1. rounds' = 1..n
      BY <1>2, <1>3, <2>2 DEF OpenRound
    <3> QED BY <1>2, <1>3, <2>2, <3>1 DEF OpenRound, GameInv
  <2>3. CASE OpenRound /\ ~(tick <= n)
    <3>1. tick = n + 1
      BY <1>2, <1>3, <2>3
    <3>2. rounds' = 1..(n + 1)
      BY <1>2, <2>3, <3>1 DEF OpenRound
    <3> QED BY <1>2, <1>3, <2>3, <3>1, <3>2 DEF OpenRound, GameInv
  <2>4. CASE StopGame \/ StartGame
    <3>1. rounds' = 1..n /\ tick' \in {0, 1} /\ running' \in BOOLEAN
      BY <1>2, <2>4 DEF StopGame, StartGame
    <3>2. tick' \in Nat /\ tick' <= n + 1
      BY <3>1
    <3> QED BY <1>2, <3>1, <3>2 DEF GameInv
  <2> QED BY <2>1, <2>2, <2>3, <2>4
<1>5. TypeOK'
  <2>1. rounds' \subseteq Nat
    BY <1>4 DEF GameInv
  <2> QED BY <1>1, <1>4, <2>1 DEF GameInv, IInv, TypeOK
<1>6. \A q \in Reqs : RequestOK(q)' /\ SeenOK(q)'
  BY <1>1, <1>4, OthersKeep
<1>7. StoredInv'
  BY <1>1 DEF IInv, StoredInv, RowOK
<1>8. BloodInv'
  BY <1>1, BloodKeeps
<1> QED BY <1>4, <1>5, <1>6, <1>7, <1>8 DEF IInv, RequestInv, SeenInv

-----------------------------------------------------------------------------
(* The specification.                                                      *)

\* Nothing is submitted yet, and no lock is held.
LEMMA InitIInv == Init => IInv
<1> SUFFICES ASSUME Init PROVE IInv
  OBVIOUS
<1>1. Idle \in Request
  <2>1. <<>> \in Seq(Strings)
    OBVIOUS
  <2> QED BY <2>1 DEF Idle, Request
<1>2. \A r \in Reqs : req[r] = Idle
  BY DEF Init
<1>3. IsFiniteSet({}) /\ Cardinality({}) = 0
  BY FS_EmptySet
<1>4. TypeOK
  BY <1>1 DEF Init, TypeOK, Request, Strings
<1>5. GameInv
  <2>1. 1..0 = {}
    OBVIOUS
  <2> QED BY <2>1 DEF Init, GameInv
<1>6. RequestInv /\ SeenInv
  <2>1. \A r \in Reqs : ~Open(r) /\ req[r].pc = "idle" /\ req[r].rows = {} /\ Len(req[r].todo) = 0
    BY <1>2 DEF Open, Idle
  <2>2. SeenInv
    BY <2>1 DEF SeenInv, SeenOK
  <2>3. RequestInv
    <3>1. ASSUME NEW r \in Reqs PROVE RequestOK(r)
      <4>1. req[r].pc \notin {"lock", "blood"}
        BY <2>1
      <4>2. \A i \in 1..Len(req[r].todo) :
              req[r].todo[i] \in Flags => req[r].todo[i].tick \in rounds
        BY <2>1
      <4> QED BY <1>2, <1>3, <2>1, <4>1, <4>2 DEF RequestOK
    <3> QED BY <3>1 DEF RequestInv
  <2> QED BY <2>2, <2>3
<1>7. StoredInv
  <2>1. \A t \in Teams, k \in Nat : Current(subs, t, k) = {}
    BY DEF Init, Current, Accepted
  <2> QED BY <1>3, <2>1, BoundsAssumption DEF Init, StoredInv
<1>8. BloodInv
  BY <1>2 DEF Init, BloodInv, AllRows, Idle
<1> QED BY <1>4, <1>5, <1>6, <1>7, <1>8 DEF IInv

\* Every step of a submission or of the game keeps the invariant.
LEMMA IInvNext == IInv /\ [Next]_vars => IInv'
<1> SUFFICES ASSUME IInv, [Next]_vars PROVE IInv'
  OBVIOUS
<1>1. CASE \E r \in Reqs, o \in Offers : Begin(r, o)
  BY <1>1, BeginKeeps
<1>2. ASSUME NEW r \in Reqs, RequestStep(r) \/ Abort(r) PROVE IInv'
  <2>1. CASE Enter(r)
    BY <2>1, EnterKeeps
  <2>2. CASE Duplicate(r)
    BY <2>2, DuplicateKeeps
  <2>3. CASE Undecodable(r)
    <3>1. /\ req[r].pc = "flags" /\ req[r].todo # <<>>
          /\ Verdict(r, Head(req[r].todo)) # "duplicate"
          /\ "invalid" \in Results \ {"accepted"} /\ req[r].now \in Nat \cup {None}
      BY <2>3, RequestShape DEF Undecodable, Judging, Results, IInv
    <3>2. /\ Insert(r, Row(r, Head(req[r].todo), "invalid", req[r].now, FALSE))
          /\ UNCHANGED <<game, subs, teamLock, bloodLock>>
      BY <2>3 DEF Undecodable
    <3> QED BY <3>1, <3>2, RefusedKeeps
  <2>4. CASE ForeignKeyFails(r)
    BY <2>4, RollbackKeeps DEF ForeignKeyFails
  <2>5. CASE Reject(r)
    <3> DEFINE f == Head(req[r].todo)
    <3>1. PICK v \in {"invalid", "own_flag", "nop_target", "expired", "future_flag", "round_limit"} :
            /\ Judging(r, v)
            /\ Insert(r, Row(r, f, v, RoundOf(f), FALSE))
            /\ UNCHANGED <<game, subs, teamLock, bloodLock>>
      BY <2>5 DEF Reject
    <3>2. /\ req[r].pc = "flags" /\ req[r].todo # <<>> /\ Verdict(r, f) # "duplicate"
          /\ v \in Results \ {"accepted"}
      BY <3>1 DEF Judging, Results
    <3>3. RoundOf(f) \in Nat \cup {None}
      BY DEF RoundOf, IInv, TypeOK
    <3> QED BY <3>1, <3>2, <3>3, RefusedKeeps
  <2>6. CASE TryBlood(r)
    BY <2>6, TryBloodKeeps
  <2>7. CASE LoseBlood(r)
    <3> DEFINE f == Head(req[r].todo)
    <3>1. /\ req[r].pc = "flags" /\ req[r].todo # <<>> /\ Verdict(r, f) = "accepted"
          /\ Insert(r, Row(r, f, "accepted", RoundOf(f), FALSE))
          /\ UNCHANGED <<game, subs, teamLock, bloodLock>>
      BY <2>7 DEF LoseBlood, Judging
    <3>2. f \in Strings /\ Open(r)
      BY <3>1, RequestShape, TailShape DEF IInv, Open
    <3>3. Fresh(r)
      BY <3>1, <3>2, VerdictShape DEF IInv, Fresh
    <3>4. PICK b \in BOOLEAN : b = FALSE
      OBVIOUS
    <3> QED BY <3>1, <3>2, <3>3, <3>4, AcceptedKeeps
  <2>8. CASE CheckBlood(r)
    <3> DEFINE f == Head(req[r].todo)
               first == ~\E s \in Accepted(Visible(r)) : PairOf(s.flag) = PairOf(f)
    <3>1. /\ req[r].pc = "blood" /\ Insert(r, Row(r, f, "accepted", RoundOf(f), first))
          /\ UNCHANGED <<game, subs, teamLock, bloodLock>>
      BY <2>8 DEF CheckBlood
    <3>2. Open(r) /\ Fresh(r) /\ bloodLock[PairOf(f)] = r
      BY <3>1 DEF IInv, RequestInv, RequestOK, Open
    <3>3. first \in BOOLEAN
      OBVIOUS
    <3>4. first => \A s \in Accepted(Visible(r)) : PairOf(s.flag) # PairOf(f)
      OBVIOUS
    <3> HIDE DEF first
    <3> QED BY <3>1, <3>2, <3>3, <3>4, AcceptedKeeps
  <2>9. CASE Commit(r)
    BY <2>9, CommitKeeps
  <2>10. CASE Abort(r)
    BY <2>10, RollbackKeeps DEF Abort
  <2> QED BY <1>2, <2>1, <2>2, <2>3, <2>4, <2>5, <2>6, <2>7, <2>8, <2>9, <2>10
          DEF RequestStep
<1>3. CASE NextTick \/ OpenRound \/ StopGame \/ StartGame
  BY <1>3, GameKeeps
<1>4. CASE UNCHANGED vars
  <2>1. UNCHANGED <<subs, req, teamLock, bloodLock, running, tick, rounds>>
    BY <1>4 DEF vars, game
  <2>2. TypeOK' /\ GameInv' /\ StoredInv'
    BY <2>1 DEF IInv, TypeOK, GameInv, StoredInv, RowOK
  <2>3. \A q \in Reqs : RequestOK(q)' /\ SeenOK(q)'
    BY <2>1, OthersKeep
  <2>4. BloodInv'
    BY <2>1, BloodKeeps
  <2> QED BY <2>2, <2>3, <2>4 DEF IInv, RequestInv, SeenInv
<1> QED BY <1>1, <1>2, <1>3, <1>4 DEF Next

\* The invariant holds in every state of every behaviour.
LEMMA Invariance == Spec => []IInv
  BY InitIInv, IInvNext, PTL DEF Spec

\* Every variable keeps its type.
THEOREM TypesKept == Spec => []TypeOK
<1>1. IInv => TypeOK
  BY DEF IInv
<1> QED BY <1>1, Invariance, PTL

\* Two batches of a team never both find a flag new: the UNIQUE constraint has
\* nothing to refuse (flag_submit.py:70-77, 168-190).
THEOREM NoClash == Spec => []NoUniqueClash
<1>1. IInv => NoUniqueClash
  <2> SUFFICES ASSUME IInv, NEW s \in AllRows, NEW t \in AllRows, s.by = t.by, s.flag = t.flag
               PROVE  s = t
    BY DEF NoUniqueClash
  <2>1. ASSUME NEW x \in AllRows, x \notin subs
        PROVE  \E r \in Reqs : Open(r) /\ x \in req[r].rows /\ x.by = req[r].by
    <3>1. PICK r \in Reqs : x \in req[r].rows
      BY <2>1 DEF AllRows
    <3>2. Open(r)
      BY <3>1, RequestShape DEF IInv, RequestInv, RequestOK, Open, Idle
    <3> QED BY <3>1, <3>2 DEF IInv, RequestInv, RequestOK
  <2>2. CASE s \in subs /\ t \in subs
    BY <2>2 DEF IInv, StoredInv
  <2>3. ASSUME NEW r \in Reqs, Open(r), NEW x \in {s, t}, x \in req[r].rows, x.by = req[r].by
        PROVE  s \in Visible(r) /\ t \in Visible(r) /\ s = t
    <3>1. ASSUME NEW y \in {s, t} PROVE y \in Visible(r)
      <4>1. y.by = req[r].by
        BY <2>3
      <4>2. CASE y \in subs
        BY <4>2 DEF Visible
      <4>3. CASE y \notin subs
        BY <2>1, <2>3, <4>1, <4>3, OneOpen DEF IInv, Visible
      <4> QED BY <4>2, <4>3
    <3>2. s.by = req[r].by
      BY <2>3
    <3> QED BY <2>3, <3>1, <3>2 DEF IInv, SeenInv, SeenOK
  <2> QED BY <2>1, <2>2, <2>3
<1> QED BY <1>1, Invariance, PTL

\* A pair of victim and service is marked as first blood once, however many teams
\* race for it (flag_submit.py:80-109).
THEOREM FirstBloodOnce == Spec => []OneBlood
<1>1. IInv => OneBlood
  BY DEF IInv, BloodInv, OneBlood, AllRows
<1> QED BY <1>1, Invariance, PTL

\* Of the flags of a tick a team gets at most the cap while that tick lasts, over
\* all its concurrent batches (flag_submit.py:70-77, 148-158).
THEOREM CapKept == Spec => []CapOnCurrentFlags
<1>1. IInv => CapOnCurrentFlags
  BY BoundsAssumption DEF IInv, StoredInv, CapOnCurrentFlags, Current
<1> QED BY <1>1, Invariance, PTL

-----------------------------------------------------------------------------
(* The table is FlagLedger's.                                              *)

\* A row of transaction r says what the rules say, or that the cap is used up.
Ruled(s, count) ==
  \/ s.result = Ledger!Ruling(s)
  \/ /\ s.result = "round_limit" /\ Ledger!Ruling(s) = "accepted"
     /\ 0 < Cap /\ Cap <= count

\* What a transaction is about to post: rows that are new, judged by the one tick it
\* has read; and its count is of what it found plus what it has accepted itself.
LedgerOK(r) ==
  /\ req[r].pc # "idle" => req[r].by # Nop
  /\ Open(r) =>
       /\ req[r].count = Cardinality(InRound(subs, req[r].by, req[r].now))
                           + Cardinality(Accepted(req[r].rows))
       /\ req[r].rows \cap subs = {}
       /\ \A s \in req[r].rows : s.at = req[r].now /\ Ruled(s, req[r].count)
  /\ req[r].pc = "blood" =>
       Ledger!Ruling(Row(r, Head(req[r].todo), "accepted", None, FALSE)) = "accepted"

LedgerInv == \A r \in Reqs : LedgerOK(r)

\* What transaction r writes for a flag.
WrittenBy(s, r, f, result) ==
  s.by = req[r].by /\ s.flag = f /\ s.at = req[r].now /\ s.result = result

\* The ledger counts as this module does.
LEMMA SameCount == \A S : Ledger!Cardinality(S) = Cardinality(S)
  BY DEF Ledger!Cardinality, Cardinality

\* The ruling depends on the team, the flag and the tick.
LEMMA RulingSame ==
  ASSUME NEW s, NEW u, s.by = u.by, s.flag = u.flag, s.at = u.at
  PROVE  Ledger!Ruling(s) = Ledger!Ruling(u)
  BY DEF Ledger!Ruling

\* The code's verdict is the ruling, but for duplicates and the cap
\* (flag_submit.py:197-237).
LEMMA VerdictIsRuling ==
  ASSUME TypeOK, NEW r \in Reqs, NEW f \in Strings, Verdict(r, f) # "duplicate",
         NEW s, s.by = req[r].by, s.flag = f, s.at = req[r].now
  PROVE  /\ Verdict(r, f) = "garbage" => Ledger!Ruling(s) = "invalid"
         /\ Verdict(r, f) = "round_limit" =>
              Ledger!Ruling(s) = "accepted" /\ 0 < Cap /\ Cap <= req[r].count
         /\ Verdict(r, f) \notin {"garbage", "round_limit"} => Ledger!Ruling(s) = Verdict(r, f)
<1>1. f \notin Flags <=> f \in Garbage
  BY FlagsAssumption DEF Strings
<1>2. ~(\E u \in Visible(r) : u.by = req[r].by /\ u.flag = f)
  BY DEF Verdict
<1>3. Cap \in Nat /\ req[r].count \in Nat
  BY RequestShape, BoundsAssumption
<1>4. CASE f \in Garbage
  BY <1>1, <1>2, <1>4 DEF Verdict, Ledger!Ruling
<1>5. CASE f \notin Garbage
  <2> DEFINE base == IF f.target \notin Teams \/ f.service \notin Services THEN "invalid"
                     ELSE IF f.target = req[r].by THEN "own_flag"
                     ELSE IF f.target = Nop THEN "nop_target"
                     ELSE IF f.tick + Retention <= req[r].now THEN "expired"
                     ELSE IF f.tick > req[r].now THEN "future_flag"
                     ELSE "accepted"
             full == Cap > 0 /\ req[r].count >= Cap
  <2>1. Ledger!Ruling(s) = base
    BY <1>1, <1>5 DEF Ledger!Ruling
  <2>2. Verdict(r, f) = IF base = "accepted" /\ full THEN "round_limit" ELSE base
    BY <1>2, <1>5 DEF Verdict
  <2>3. base \notin {"garbage", "round_limit"}
    OBVIOUS
  <2>4. full => 0 < Cap /\ Cap <= req[r].count
    BY <1>3
  <2> HIDE DEF base, full
  <2> QED BY <2>1, <2>2, <2>3, <2>4
<1> QED BY <1>4, <1>5

\* Another transaction, or the game, does not disturb what one is about to post.
LEMMA OthersLedger ==
  ASSUME IInv, NEW q \in Reqs, LedgerOK(q), req'[q] = req[q], subs \subseteq subs',
         Open(q) => \A s \in subs' \ subs : s.by # req[q].by
  PROVE  LedgerOK(q)'
<1>1. Open(q)' <=> Open(q)
  BY DEF Open
<1>2. ASSUME Open(q)
      PROVE  InRound(subs', req[q].by, req[q].now) = InRound(subs, req[q].by, req[q].now)
  BY <1>2 DEF InRound, Accepted
<1>3. ASSUME Open(q) PROVE req[q].rows \cap subs' = {}
  <2>1. \A s \in req[q].rows : s.by = req[q].by
    BY DEF IInv, RequestInv, RequestOK
  <2> QED BY <1>3, <2>1 DEF LedgerOK
<1>4. Row(q, Head(req[q].todo), "accepted", None, FALSE)'
        = Row(q, Head(req[q].todo), "accepted", None, FALSE)
  BY DEF Row
<1>5. Open(q) => /\ req[q].count = Cardinality(InRound(subs, req[q].by, req[q].now))
                                     + Cardinality(Accepted(req[q].rows))
                 /\ \A s \in req[q].rows : s.at = req[q].now /\ Ruled(s, req[q].count)
  BY DEF LedgerOK
<1>6. Open(q) => \A s \in req[q].rows : Ruled(s, req[q].count)'
  BY <1>5 DEF Ruled, Ledger!Ruling
<1>7. req[q].pc = "blood" =>
        Ledger!Ruling(Row(q, Head(req[q].todo), "accepted", None, FALSE)) = "accepted"
  BY DEF LedgerOK
<1>8. ASSUME req[q].pc = "blood"
      PROVE  Ledger!Ruling(Row(q, Head(req[q].todo), "accepted", None, FALSE))' = "accepted"
  BY <1>4, <1>7, <1>8 DEF Ledger!Ruling
<1>9. Accepted(req'[q].rows) = Accepted(req[q].rows)
  OBVIOUS
<1> QED BY <1>1, <1>2, <1>3, <1>5, <1>6, <1>8, <1>9 DEF LedgerOK

\* The cap stays used up while a batch goes on.
LEMMA RuledGrows ==
  ASSUME NEW s, NEW m \in Nat, NEW n \in Nat, m <= n, Ruled(s, m)
  PROVE  Ruled(s, n)
<1>1. Cap \in Nat
  BY BoundsAssumption
<1>2. Cap <= m => Cap <= n
  BY <1>1
<1> QED BY <1>2 DEF Ruled

\* A row more of a transaction that is in its batch.
LEMMA InsertLedger ==
  ASSUME IInv, LedgerInv, NEW r \in Reqs, Open(r), req[r].todo # <<>>,
         NEW row \in Rows, row.at = req[r].now, row \notin Visible(r),
         Ruled(row, req[r].count), Insert(r, row), UNCHANGED subs
  PROVE  LedgerInv'
<1> DEFINE n == IF row.result = "accepted" THEN req[r].count + 1 ELSE req[r].count
           old == Accepted(req[r].rows)
<1>1. /\ req \in [Reqs -> Request] /\ req[r] \in Request /\ req[r].count \in Nat
      /\ IsFiniteSet(req[r].rows) /\ LedgerOK(r) /\ subs' = subs
  BY RequestShape DEF IInv, RequestInv, RequestOK, LedgerInv
<1>2. req' = [req EXCEPT ![r] = [pc |-> "flags", by |-> req[r].by, todo |-> Tail(req[r].todo),
                                 now |-> req[r].now, count |-> n,
                                 rows |-> req[r].rows \cup {row}]]
  <2>1. req' = [req EXCEPT ![r] = [req[r] EXCEPT !.pc = "flags", !.todo = Tail(@),
                  !.rows = @ \cup {row},
                  !.count = IF row.result = "accepted" THEN @ + 1 ELSE @]]
    BY <1>1 DEF Insert
  <2>2. [req[r] EXCEPT !.pc = "flags", !.todo = Tail(@), !.rows = @ \cup {row},
                  !.count = IF row.result = "accepted" THEN @ + 1 ELSE @]
          = [pc |-> "flags", by |-> req[r].by, todo |-> Tail(req[r].todo),
             now |-> req[r].now, count |-> n, rows |-> req[r].rows \cup {row}]
    BY <1>1, InsertRecord
  <2> QED BY <2>1, <2>2
<1>3. /\ \A q \in Reqs \ {r} : req'[q] = req[q]
      /\ req'[r].pc = "flags" /\ req'[r].by = req[r].by /\ req'[r].now = req[r].now
      /\ req'[r].count = n /\ req'[r].rows = req[r].rows \cup {row}
  <2> HIDE DEF n
  <2> QED BY <1>1, <1>2
<1>4. /\ req[r].count = Cardinality(InRound(subs, req[r].by, req[r].now)) + Cardinality(old)
      /\ req[r].rows \cap subs = {} /\ req[r].by # Nop
      /\ \A s \in req[r].rows : s.at = req[r].now /\ Ruled(s, req[r].count)
  BY <1>1 DEF LedgerOK, Open
<1>5. row \notin subs /\ row \notin req[r].rows
  BY DEF Visible
<1>6. n \in Nat /\ req[r].count <= n
  BY <1>1
<1>7. \A s \in req'[r].rows : s.at = req[r].now /\ Ruled(s, n)
  <2> HIDE DEF n
  <2> QED BY <1>1, <1>3, <1>4, <1>6, RuledGrows
<1>8. n = Cardinality(InRound(subs, req[r].by, req[r].now)) + Cardinality(Accepted(req'[r].rows))
  <2>1. IsFiniteSet(old) /\ Cardinality(old) \in Nat
    <3>1. old \in SUBSET req[r].rows
      BY DEF Accepted
    <3> QED BY <1>1, <3>1, FS_Subset, FS_CardinalityType
  <2>2. IsFiniteSet(InRound(subs, req[r].by, req[r].now))
        /\ Cardinality(InRound(subs, req[r].by, req[r].now)) \in Nat
    <3>1. InRound(subs, req[r].by, req[r].now) \in SUBSET subs
      BY DEF InRound, Accepted
    <3> QED BY <3>1, FS_Subset, FS_CardinalityType DEF IInv, StoredInv
  <2>3. CASE row.result = "accepted"
    <3>1. Accepted(req'[r].rows) = old \cup {row} /\ row \notin old
      BY <1>3, <1>5, <2>3 DEF Accepted
    <3> HIDE DEF old
    <3>2. Cardinality(old \cup {row}) = Cardinality(old) + 1
      BY <2>1, <3>1, FS_AddElement
    <3>3. n = req[r].count + 1
      BY <2>3
    <3> HIDE DEF n
    <3> QED BY <1>4, <2>1, <2>2, <3>1, <3>2, <3>3
  <2>4. CASE row.result # "accepted"
    <3>1. Accepted(req'[r].rows) = old
      BY <1>3, <2>4 DEF Accepted
    <3> QED BY <1>4, <2>4, <3>1
  <2> QED BY <2>3, <2>4
<1>9. LedgerOK(r)'
  <2> HIDE DEF n, old
  <2>1. req'[r].rows \cap subs = {}
    BY <1>3, <1>4, <1>5
  <2> QED BY <1>1, <1>3, <1>4, <1>7, <1>8, <2>1 DEF LedgerOK, Open, Ruled, Ledger!Ruling
<1>10. ASSUME NEW q \in Reqs \ {r} PROVE LedgerOK(q)'
  BY <1>1, <1>3, OthersLedger DEF LedgerInv
<1> QED BY <1>9, <1>10 DEF LedgerInv

\* The steps before a transaction has rows (flag_submit.py:128-158).
LEMMA BeginLedger ==
  ASSUME IInv, LedgerInv, NEW r \in Reqs, NEW o \in Offers, Begin(r, o)
  PROVE  LedgerInv'
<1>1. req \in [Reqs -> Request] /\ subs' = subs /\ o.by # Nop
  BY RequestShape DEF IInv, Begin
<1>2. req'[r].pc = "lock" /\ req'[r].by = o.by /\ \A q \in Reqs \ {r} : req'[q] = req[q]
  <2>1. PICK x : x = [Idle EXCEPT !.pc = "lock", !.by = o.by, !.todo = o.flags]
    OBVIOUS
  <2>2. x.pc = "lock" /\ x.by = o.by
    BY <2>1 DEF Idle
  <2>3. req' = [req EXCEPT ![r] = x]
    BY <2>1 DEF Begin
  <2> QED BY <1>1, <2>2, <2>3
<1>3. LedgerOK(r)'
  BY <1>1, <1>2 DEF LedgerOK, Open
<1>4. ASSUME NEW q \in Reqs \ {r} PROVE LedgerOK(q)'
  BY <1>1, <1>2, OthersLedger DEF LedgerInv
<1> QED BY <1>3, <1>4 DEF LedgerInv

LEMMA EnterLedger ==
  ASSUME IInv, LedgerInv, NEW r \in Reqs, Enter(r)
  PROVE  LedgerInv'
<1> DEFINE by == req[r].by
           n == Cardinality(InRound(subs, by, CurrentTick))
<1>1. /\ req \in [Reqs -> Request] /\ req[r] \in Request /\ req[r].pc = "lock"
      /\ req[r].rows = {} /\ subs' = subs /\ by # Nop
  BY RequestShape DEF IInv, RequestInv, RequestOK, Enter, LedgerInv, LedgerOK
<1>2. /\ \A q \in Reqs \ {r} : req'[q] = req[q]
      /\ req'[r].pc = "flags" /\ req'[r].by = by /\ req'[r].now = CurrentTick
      /\ req'[r].count = n /\ req'[r].rows = {}
  <2> DEFINE e == [req[r] EXCEPT !.pc = "flags", !.now = CurrentTick, !.count = n]
  <2>1. req' = [req EXCEPT ![r] = e]
    BY <1>1 DEF Enter, InRound, Accepted
  <2> HIDE DEF n
  <2>2. PICK x : x = e
    OBVIOUS
  <2>3. /\ x.pc = "flags" /\ x.by = by /\ x.now = CurrentTick /\ x.count = n
        /\ x.rows = req[r].rows
    BY <1>1, <2>2 DEF Request
  <2> HIDE DEF e
  <2> QED BY <1>1, <2>1, <2>2, <2>3
<1>3. n = n + Cardinality(Accepted({}))
  <2>1. Accepted({}) = {} /\ Cardinality({}) = 0
    BY FS_EmptySet DEF Accepted
  <2>2. n \in Nat
    <3>1. InRound(subs, by, CurrentTick) \in SUBSET subs
      BY DEF InRound, Accepted
    <3> QED BY <3>1, FS_Subset, FS_CardinalityType DEF IInv, StoredInv
  <2> HIDE DEF n
  <2> QED BY <2>1, <2>2
<1>4. LedgerOK(r)'
  <2>1. Cardinality(InRound(subs', req'[r].by, req'[r].now)) = n
    BY <1>1, <1>2
  <2> HIDE DEF n
  <2> QED BY <1>1, <1>2, <1>3, <2>1 DEF LedgerOK, Open
<1>5. ASSUME NEW q \in Reqs \ {r} PROVE LedgerOK(q)'
  BY <1>1, <1>2, OthersLedger DEF LedgerInv
<1> QED BY <1>4, <1>5 DEF LedgerInv

\* A transaction that ends posts nothing more; what it posts with its commit is of
\* its team, so the others are not disturbed.
LEMMA EndLedger ==
  ASSUME IInv, LedgerInv, NEW r \in Reqs, Release(r), subs \subseteq subs',
         subs' # subs => Open(r) /\ subs' \subseteq subs \cup req[r].rows
  PROVE  LedgerInv'
<1>1. req'[r] = Idle /\ \A q \in Reqs \ {r} : req'[q] = req[q]
  BY ReleaseShape DEF IInv
<1>2. LedgerOK(r)'
  BY <1>1 DEF LedgerOK, Open, Idle
<1>3. ASSUME NEW q \in Reqs \ {r} PROVE LedgerOK(q)'
  <2>1. ASSUME Open(q), NEW s \in subs' \ subs PROVE s.by # req[q].by
    <3>1. Open(r) /\ s \in req[r].rows
      BY <2>1
    <3>2. s.by = req[r].by /\ req[r].by # req[q].by
      BY <2>1, <3>1, OneOpen DEF IInv, RequestInv, RequestOK
    <3> QED BY <3>2
  <2> QED BY <1>1, <2>1, OthersLedger DEF LedgerInv
<1> QED BY <1>2, <1>3 DEF LedgerInv

\* The flag that is raced for is good (flag_submit.py:226-239).
LEMMA TryBloodLedger ==
  ASSUME IInv, LedgerInv, NEW r \in Reqs, TryBlood(r)
  PROVE  LedgerInv'
<1> DEFINE f == Head(req[r].todo)
           row == Row(r, f, "accepted", None, FALSE)
<1>1. /\ req \in [Reqs -> Request] /\ req[r] \in Request /\ req[r].pc = "flags" /\ Open(r)
      /\ Verdict(r, f) = "accepted" /\ f \in Strings /\ subs' = subs /\ LedgerOK(r)
  BY RequestShape, TailShape DEF IInv, LedgerInv, TryBlood, Judging, Open
<1>2. /\ \A q \in Reqs \ {r} : req'[q] = req[q]
      /\ req'[r] = [req[r] EXCEPT !.pc = "blood"]
  BY <1>1 DEF TryBlood
<1>3. /\ req'[r].pc = "blood" /\ req'[r].by = req[r].by /\ req'[r].todo = req[r].todo
      /\ req'[r].now = req[r].now /\ req'[r].count = req[r].count /\ req'[r].rows = req[r].rows
  BY <1>1, <1>2 DEF Request
<1>4. Ledger!Ruling(row) = "accepted"
  <2>1. row.by = req[r].by /\ row.flag = f /\ row.at = req[r].now
    BY DEF Row
  <2> HIDE DEF row
  <2> QED BY <1>1, <2>1, VerdictIsRuling DEF IInv
<1>5. row' = row
  BY <1>3 DEF Row
<1>6. LedgerOK(r)'
  BY <1>1, <1>3, <1>4, <1>5 DEF LedgerOK, Open, Ruled, Ledger!Ruling
<1>7. ASSUME NEW q \in Reqs \ {r} PROVE LedgerOK(q)'
  BY <1>1, <1>2, OthersLedger DEF LedgerInv
<1> QED BY <1>6, <1>7 DEF LedgerInv

LEMMA DuplicateLedger ==
  ASSUME IInv, LedgerInv, NEW r \in Reqs, Duplicate(r)
  PROVE  LedgerInv'
<1>1. /\ req \in [Reqs -> Request] /\ req[r] \in Request /\ req[r].pc = "flags" /\ Open(r)
      /\ subs' = subs /\ LedgerOK(r)
  BY RequestShape DEF IInv, LedgerInv, Duplicate, Judging, Open
<1>2. /\ \A q \in Reqs \ {r} : req'[q] = req[q]
      /\ req'[r] = [req[r] EXCEPT !.todo = Tail(@)]
  BY <1>1 DEF Duplicate
<1>3. /\ req'[r].pc = "flags" /\ req'[r].by = req[r].by /\ req'[r].now = req[r].now
      /\ req'[r].count = req[r].count /\ req'[r].rows = req[r].rows
  BY <1>1, <1>2 DEF Request
<1>4. LedgerOK(r)'
  BY <1>1, <1>3 DEF LedgerOK, Open, Ruled, Ledger!Ruling
<1>5. ASSUME NEW q \in Reqs \ {r} PROVE LedgerOK(q)'
  BY <1>1, <1>2, OthersLedger DEF LedgerInv
<1> QED BY <1>4, <1>5 DEF LedgerInv

\* What is written for a flag that was judged: a row the team had not, ruled as it says.
LEMMA JudgedLedger ==
  ASSUME IInv, LedgerInv, NEW r \in Reqs, Open(r), req[r].todo # <<>>,
         NEW result \in Results, NEW round \in Nat \cup {None}, NEW blood \in BOOLEAN,
         \A s \in Visible(r) : ~(s.by = req[r].by /\ s.flag = Head(req[r].todo)),
         \A s : WrittenBy(s, r, Head(req[r].todo), result) => Ruled(s, req[r].count),
         Insert(r, Row(r, Head(req[r].todo), result, round, blood)), UNCHANGED subs
  PROVE  LedgerInv'
<1> DEFINE row == Row(r, Head(req[r].todo), result, round, blood)
<1>1. /\ row \in Rows /\ row.by = req[r].by /\ row.flag = Head(req[r].todo)
      /\ row.at = req[r].now /\ row.result = result
  BY RowShape
<1>2. Insert(r, row)
  OBVIOUS
<1> HIDE DEF row
<1>3. row \notin Visible(r) /\ Ruled(row, req[r].count)
  BY <1>1 DEF WrittenBy
<1> QED BY <1>1, <1>2, <1>3, InsertLedger

\* Every step of a submission or of the game.
LEMMA LedgerNext == IInv /\ LedgerInv /\ [Next]_vars => LedgerInv'
<1> SUFFICES ASSUME IInv, LedgerInv, [Next]_vars PROVE LedgerInv'
  OBVIOUS
<1>1. CASE \E r \in Reqs, o \in Offers : Begin(r, o)
  BY <1>1, BeginLedger
<1>2. ASSUME NEW r \in Reqs, RequestStep(r) \/ Abort(r) PROVE LedgerInv'
  <2> DEFINE f == Head(req[r].todo)
  <2>1. CASE Enter(r)
    BY <2>1, EnterLedger
  <2>2. CASE Duplicate(r)
    BY <2>2, DuplicateLedger
  <2>3. ASSUME NEW v, Judging(r, v), v # "duplicate"
        PROVE  /\ Open(r) /\ req[r].todo # <<>> /\ f \in Strings /\ Verdict(r, f) = v
               /\ \A s \in Visible(r) : ~(s.by = req[r].by /\ s.flag = f)
    <3>1. Open(r) /\ req[r].todo # <<>> /\ f \in Strings /\ Verdict(r, f) = v
      BY <2>3, RequestShape, TailShape DEF IInv, Judging, Open
    <3> QED BY <2>3, <3>1, VerdictShape DEF IInv
  <2>4. CASE Undecodable(r)
    <3>1. /\ Judging(r, "garbage") /\ UNCHANGED subs
          /\ Insert(r, Row(r, f, "invalid", req[r].now, FALSE))
      BY <2>4 DEF Undecodable
    <3>2. "invalid" \in Results /\ req[r].now \in Nat \cup {None}
      BY RequestShape DEF Results, IInv
    <3>3. \A s : WrittenBy(s, r, f, "invalid") => Ruled(s, req[r].count)
      BY <2>3, <3>1, VerdictIsRuling DEF IInv, Ruled, WrittenBy
    <3> QED BY <2>3, <3>1, <3>2, <3>3, JudgedLedger
  <2>5. CASE ForeignKeyFails(r)
    BY <2>5, EndLedger DEF ForeignKeyFails
  <2>6. CASE Reject(r)
    <3>1. PICK v \in {"invalid", "own_flag", "nop_target", "expired", "future_flag", "round_limit"} :
            /\ Judging(r, v)
            /\ Insert(r, Row(r, f, v, RoundOf(f), FALSE))
            /\ UNCHANGED <<game, subs, teamLock, bloodLock>>
      BY <2>6 DEF Reject
    <3>2. v \in Results /\ RoundOf(f) \in Nat \cup {None} /\ v \notin {"garbage", "duplicate"}
      BY DEF Results, RoundOf, IInv, TypeOK
    <3>3. \A s : WrittenBy(s, r, f, v) => Ruled(s, req[r].count)
      BY <2>3, <3>1, <3>2, VerdictIsRuling DEF IInv, Ruled, WrittenBy
    <3> QED BY <2>3, <3>1, <3>2, <3>3, JudgedLedger
  <2>7. CASE TryBlood(r)
    BY <2>7, TryBloodLedger
  <2>8. CASE LoseBlood(r)
    <3>1. /\ Judging(r, "accepted") /\ UNCHANGED subs
          /\ Insert(r, Row(r, f, "accepted", RoundOf(f), FALSE))
      BY <2>8 DEF LoseBlood
    <3>2. "accepted" \in Results /\ RoundOf(f) \in Nat \cup {None}
      BY DEF Results, RoundOf, IInv, TypeOK
    <3>3. \A s : WrittenBy(s, r, f, "accepted") => Ruled(s, req[r].count)
      BY <2>3, <3>1, VerdictIsRuling DEF IInv, Ruled, WrittenBy
    <3> QED BY <2>3, <3>1, <3>2, <3>3, JudgedLedger
  <2>9. CASE CheckBlood(r)
    <3> DEFINE first == ~\E s \in Accepted(Visible(r)) : PairOf(s.flag) = PairOf(f)
    <3>1. /\ req[r].pc = "blood" /\ UNCHANGED subs
          /\ Insert(r, Row(r, f, "accepted", RoundOf(f), first))
      BY <2>9 DEF CheckBlood
    <3>2. /\ "accepted" \in Results /\ RoundOf(f) \in Nat \cup {None} /\ first \in BOOLEAN
      BY DEF Results, RoundOf, IInv, TypeOK
    <3>3. Open(r) /\ Fresh(r)
      BY <3>1 DEF IInv, RequestInv, RequestOK, Open
    <3>4. \A s : WrittenBy(s, r, f, "accepted") => Ruled(s, req[r].count)
      <4>1. Ledger!Ruling(Row(r, f, "accepted", None, FALSE)) = "accepted"
        BY <3>1 DEF LedgerInv, LedgerOK
      <4>2. PICK x : x = Row(r, f, "accepted", None, FALSE)
        OBVIOUS
      <4>3. x.by = req[r].by /\ x.flag = f /\ x.at = req[r].now
        BY <4>2 DEF Row
      <4> QED BY <4>1, <4>2, <4>3, RulingSame DEF Ruled, WrittenBy
    <3> HIDE DEF first
    <3> QED BY <3>1, <3>2, <3>3, <3>4, JudgedLedger DEF Fresh
  <2>10. CASE Commit(r)
    BY <2>10, EndLedger DEF Commit, Open
  <2>11. CASE Abort(r)
    BY <2>11, EndLedger DEF Abort
  <2> QED BY <1>2, <2>1, <2>2, <2>4, <2>5, <2>6, <2>7, <2>8, <2>9, <2>10, <2>11
          DEF RequestStep
<1>3. CASE NextTick \/ OpenRound \/ StopGame \/ StartGame \/ UNCHANGED vars
  <2>1. req' = req /\ subs' = subs
    BY <1>3 DEF NextTick, OpenRound, StopGame, StartGame, vars
  <2> QED BY <2>1, OthersLedger DEF LedgerInv
<1> QED BY <1>1, <1>2, <1>3 DEF Next

LEMMA InitLedgerInv == Init => LedgerInv
<1> SUFFICES ASSUME Init, NEW r \in Reqs PROVE LedgerOK(r)
  BY DEF LedgerInv
<1>1. req[r].pc = "idle"
  BY DEF Init, Idle
<1> QED BY <1>1 DEF LedgerOK, Open

\* A step that stores rows posts one batch; all others leave the table alone.
LEMMA CommitPosts ==
  ASSUME IInv, LedgerInv, NEW r \in Reqs, Commit(r)
  PROVE  Ledger!Post(req[r].by)
<1> DEFINE by == req[r].by
           now == req[r].now
           new == subs' \ subs
<1>1. /\ Open(r) /\ by \in Teams /\ now \in Nat /\ req[r].count \in Nat
      /\ RequestOK(r) /\ SeenOK(r) /\ LedgerOK(r)
      /\ subs' = subs \cup req[r].rows /\ subs' = Visible(r)
  BY RequestShape DEF Commit, Open, IInv, RequestInv, SeenInv, RequestOK, LedgerInv, Visible
<1>2. new = req[r].rows
  BY <1>1 DEF LedgerOK
<1>3. \A s \in new : /\ s.by = by /\ s.at = now /\ RowOK(s) /\ Ruled(s, req[r].count)
  BY <1>1, <1>2 DEF RequestOK, LedgerOK
<1>4. req[r].count = Cardinality(Ledger!Spent(by, now, new))
  <2> DEFINE A == InRound(subs, by, now)
             B == Accepted(new)
  <2>1. Ledger!Spent(by, now, new) = A \cup B
    BY DEF Ledger!Spent, Ledger!Captures, InRound, Accepted
  <2>2. IsFiniteSet(A) /\ IsFiniteSet(B)
    <3>1. A \in SUBSET subs /\ B \in SUBSET new
      BY DEF InRound, Accepted
    <3>2. IsFiniteSet(subs) /\ IsFiniteSet(new)
      BY <1>1, <1>2 DEF IInv, StoredInv, RequestOK
    <3> QED BY <3>1, <3>2, FS_Subset
  <2>3. A \cap B = {}
    BY DEF InRound, Accepted
  <2>4. req[r].count = Cardinality(A) + Cardinality(B)
    BY <1>1, <1>2 DEF LedgerOK
  <2> HIDE DEF A, B
  <2>5. Cardinality(A \cup B) = Cardinality(A) + Cardinality(B)
    <3>1. Cardinality(A \cup B) = Cardinality(A) + Cardinality(B) - Cardinality(A \cap B)
      BY <2>2, FS_Union
    <3>2. Cardinality(A \cap B) = 0
      BY <2>3, FS_EmptySet
    <3>3. Cardinality(A) \in Nat /\ Cardinality(B) \in Nat
      BY <2>2, FS_CardinalityType
    <3> QED BY <3>1, <3>2, <3>3
  <2> QED BY <2>1, <2>4, <2>5
<1>5. ASSUME NEW s \in new PROVE Ledger!Honest(s, new)
  <2>1. s.by = by /\ s.at = now /\ RowOK(s) /\ Ruled(s, Cardinality(Ledger!Spent(s.by, s.at, new)))
    BY <1>3, <1>4
  <2> QED BY <2>1, SameCount DEF Ledger!Honest, Ruled, RowOK
<1>6. \A s \in new, u \in subs' : u.by = by /\ u.flag = s.flag => u = s
  <2>1. new \subseteq subs'
    BY <1>1, <1>2
  <2> QED BY <1>1, <1>3, <2>1 DEF SeenOK
<1>7. \A s \in new, u \in subs' : s.blood /\ u.blood /\ Ledger!SamePair(s, u) => u = s
  <2>1. \A s \in new, u \in subs' : s \in AllRows /\ u \in AllRows
    BY <1>1, <1>2 DEF AllRows
  <2> QED BY <2>1 DEF IInv, BloodInv, Ledger!SamePair, PairOf
<1>8. Cap > 0 => \A s \in new : Cardinality(Ledger!OfTick(subs', by, s.at)) <= Cap
  <2>1. \A k : Ledger!OfTick(subs', by, k) = Current(subs', by, k)
    BY DEF Ledger!OfTick, Ledger!Captures, Current, Accepted
  <2>2. Cap > 0 => \A k \in Nat : Cardinality(Current(subs', by, k)) <= Cap
    BY <1>1 DEF SeenOK
  <2> QED BY <1>1, <1>3, <2>1, <2>2
<1>9. /\ by # Nop /\ subs \subseteq subs'
      /\ \A s \in new : s.by = by
      /\ \A s, u \in new : s.at = u.at
  BY <1>1, <1>3 DEF LedgerOK, Open
<1> QED BY <1>5, <1>6, <1>7, <1>8, <1>9, SameCount DEF Ledger!Post

LEMMA StepIsLedger == IInv /\ LedgerInv /\ [Next]_vars => [Ledger!Next]_subs
<1> SUFFICES ASSUME IInv, LedgerInv, [Next]_vars, subs' # subs PROVE Ledger!Next
  OBVIOUS
<1>1. PICK r \in Reqs : Commit(r)
  BY DEF Next, vars, game, Begin, RequestStep, Enter, Duplicate, Undecodable, ForeignKeyFails,
         Reject, TryBlood, LoseBlood, CheckBlood, Abort, NextTick, OpenRound, StopGame, StartGame
<1>2. req[r].by \in Teams
  BY <1>1 DEF Commit, IInv, RequestInv, RequestOK
<1> QED BY <1>1, <1>2, CommitPosts DEF Ledger!Next

\* Whatever runs at once, the table of submissions grows by whole batches, each judged
\* by the rules at one tick, within the cap, a flag once a team and a mark once a
\* pair: the transactions implement FlagLedger (flag_submit.py:112-320).
THEOREM ImplementsLedger == Spec => LedgerKept
<1>1. Init => Ledger!Init
  BY DEF Init, Ledger!Init
<1> QED BY <1>1, InitIInv, IInvNext, InitLedgerInv, LedgerNext, StepIsLedger, PTL
        DEF Spec, LedgerKept, Ledger!Spec

-----------------------------------------------------------------------------
(* Who waits for whom.                                                     *)

\* A lock is held by a transaction that is at work, a team's by one of its own.
LockInv ==
  /\ \A t \in Teams, q \in Reqs : teamLock[t] = q => Open(q) /\ req[q].by = t
  /\ \A p \in Pairs, q \in Reqs : bloodLock[p] = q => Open(q)

\* The guards of RequestStep's actions: of each verdict one of them says what to do.
Verdicts == {"duplicate", "garbage", "invalid", "own_flag", "nop_target", "expired",
             "future_flag", "round_limit", "accepted"}
CanGoOn(r) ==
  \/ req[r].pc = "lock" /\ teamLock[req[r].by] = None
  \/ req[r].pc = "flags" /\ req[r].todo = <<>>
  \/ \E v \in Verdicts : Judging(r, v)
  \/ req[r].pc = "blood"

\* A submission that cannot go on waits for one of its own team, and that one can.
WaitsForOne ==
  \A r \in Reqs : req[r].pc # "idle" =>
    \/ CanGoOn(r)
    \/ /\ req[r].pc = "lock"
       /\ \E q \in Reqs \ {r} : /\ teamLock[req[r].by] = q /\ req[q].by = req[r].by
                                /\ CanGoOn(q)

\* Locks after a step of transaction r.
LEMMA LocksAfter ==
  ASSUME LockInv, NEW r \in Reqs, \A q \in Reqs \ {r} : req'[q] = req[q],
         \/ Open(r)' /\ req'[r].by = req[r].by
         \/ /\ \A t \in Teams : teamLock'[t] # r
            /\ \A p \in Pairs : bloodLock'[p] # r,
         \A t \in Teams, q \in Reqs :
           teamLock'[t] = q => teamLock[t] = q \/ (q = r /\ t = req[r].by),
         \A p \in Pairs, q \in Reqs : bloodLock'[p] = q => bloodLock[p] = q \/ q = r
  PROVE  LockInv'
<1>1. \A q \in Reqs \ {r} : Open(q)' <=> Open(q)
  BY DEF Open
<1>2. ASSUME NEW t \in Teams, NEW q \in Reqs, teamLock'[t] = q
      PROVE  Open(q)' /\ req'[q].by = t
  <2>1. CASE q = r
    <3>1. t = req[r].by
      BY <1>2, <2>1 DEF LockInv
    <3> QED BY <1>2, <2>1, <3>1
  <2>2. CASE q # r
    BY <1>1, <1>2, <2>2 DEF LockInv
  <2> QED BY <2>1, <2>2
<1>3. ASSUME NEW p \in Pairs, NEW q \in Reqs, bloodLock'[p] = q PROVE Open(q)'
  <2>1. CASE q = r
    BY <1>3, <2>1
  <2>2. CASE q # r
    BY <1>1, <1>3, <2>2 DEF LockInv
  <2> QED BY <2>1, <2>2
<1> QED BY <1>2, <1>3 DEF LockInv

\* Whose step it is, and where it leaves the transaction.
LEMMA StepLocals ==
  ASSUME IInv, NEW r \in Reqs,
         Duplicate(r) \/ TryBlood(r) \/ Enter(r)
           \/ \E row : Open(r) /\ Insert(r, row)
  PROVE  /\ \A q \in Reqs \ {r} : req'[q] = req[q]
         /\ Open(r)' /\ req'[r].by = req[r].by
<1>1. req \in [Reqs -> Request] /\ req[r] \in Request
  BY RequestShape DEF IInv
<1>2. CASE Duplicate(r)
  <2>1. req' = [req EXCEPT ![r] = [req[r] EXCEPT !.todo = Tail(@)]] /\ req[r].pc = "flags"
    BY <1>1, <1>2 DEF Duplicate, Judging
  <2>2. PICK x : x = [req[r] EXCEPT !.todo = Tail(@)]
    OBVIOUS
  <2>3. x.pc = "flags" /\ x.by = req[r].by
    BY <1>1, <2>1, <2>2 DEF Request
  <2> QED BY <1>1, <2>1, <2>2, <2>3 DEF Open
<1>3. CASE TryBlood(r)
  <2>1. req' = [req EXCEPT ![r] = [req[r] EXCEPT !.pc = "blood"]]
    BY <1>1, <1>3 DEF TryBlood
  <2>2. PICK x : x = [req[r] EXCEPT !.pc = "blood"]
    OBVIOUS
  <2>3. x.pc = "blood" /\ x.by = req[r].by
    BY <1>1, <2>2 DEF Request
  <2> QED BY <1>1, <2>1, <2>2, <2>3 DEF Open
<1>4. CASE Enter(r)
  <2> DEFINE n == Cardinality({s \in Accepted(subs) : s.by = req[r].by /\ s.round = CurrentTick})
             e == [req[r] EXCEPT !.pc = "flags", !.now = CurrentTick, !.count = n]
  <2>1. req' = [req EXCEPT ![r] = e]
    BY <1>1, <1>4 DEF Enter
  <2> HIDE DEF n
  <2>2. PICK x : x = e
    OBVIOUS
  <2>3. x.pc = "flags" /\ x.by = req[r].by
    BY <1>1, <2>2 DEF Request
  <2> HIDE DEF e
  <2> QED BY <1>1, <2>1, <2>2, <2>3 DEF Open
<1>5. ASSUME NEW row, Insert(r, row)
      PROVE  /\ \A q \in Reqs \ {r} : req'[q] = req[q]
             /\ Open(r)' /\ req'[r].by = req[r].by
  <2> DEFINE e == [req[r] EXCEPT !.pc = "flags", !.todo = Tail(@), !.rows = @ \cup {row},
                                 !.count = IF row.result = "accepted" THEN @ + 1 ELSE @]
  <2>1. req' = [req EXCEPT ![r] = e]
    BY <1>1, <1>5 DEF Insert
  <2>2. PICK x : x = [pc |-> "flags", by |-> req[r].by, todo |-> Tail(req[r].todo),
                     now |-> req[r].now,
                     count |-> IF row.result = "accepted" THEN req[r].count + 1 ELSE req[r].count,
                     rows |-> req[r].rows \cup {row}]
    OBVIOUS
  <2>3. x = e /\ x.pc = "flags" /\ x.by = req[r].by
    BY <1>1, <2>2, InsertRecord
  <2> HIDE DEF e
  <2> QED BY <1>1, <2>1, <2>2, <2>3 DEF Open
<1> QED BY <1>2, <1>3, <1>4, <1>5

\* Locks go with the transaction that took them (flag_submit.py:70-98).
LEMMA LockNext == IInv /\ LockInv /\ [Next]_vars => LockInv'
<1> SUFFICES ASSUME IInv, LockInv, [Next]_vars PROVE LockInv'
  OBVIOUS
<1>1. /\ teamLock \in [Teams -> Reqs \cup {None}] /\ bloodLock \in [Pairs -> Reqs \cup {None}]
      /\ None \notin Reqs
  BY TeamsAssumption DEF IInv, TypeOK
<1>2. ASSUME NEW r \in Reqs, NEW o \in Offers, Begin(r, o) PROVE LockInv'
  <2>1. /\ \A q \in Reqs \ {r} : req'[q] = req[q] /\ teamLock' = teamLock /\ bloodLock' = bloodLock
    BY <1>2 DEF Begin, IInv, TypeOK
  <2>2. ~Open(r)
    BY <1>2 DEF Begin, Open
  <2>3. ASSUME NEW q \in Reqs, Open(q) PROVE Open(q)' /\ req'[q].by = req[q].by
    BY <1>2, <2>2, <2>3 DEF Begin, Open, IInv, TypeOK
  <2>4. teamLock' = teamLock /\ bloodLock' = bloodLock
    BY <1>2 DEF Begin
  <2> QED BY <2>3, <2>4 DEF LockInv
<1>3. ASSUME NEW r \in Reqs, Release(r) PROVE LockInv'
  <2>1. \A q \in Reqs \ {r} : req'[q] = req[q]
    BY <1>3, ReleaseShape DEF IInv
  <2>2. /\ teamLock' = [t \in Teams |-> IF teamLock[t] = r THEN None ELSE teamLock[t]]
        /\ bloodLock' = [p \in Pairs |-> IF bloodLock[p] = r THEN None ELSE bloodLock[p]]
    BY <1>3 DEF Release
  <2>3. /\ \A t \in Teams : teamLock'[t] # r /\ teamLock'[t] \in {teamLock[t], None}
        /\ \A p \in Pairs : bloodLock'[p] # r /\ bloodLock'[p] \in {bloodLock[p], None}
    BY <1>1, <2>2
  <2>4. \A t \in Teams, q \in Reqs : teamLock'[t] = q => teamLock[t] = q
    BY <1>1, <2>3
  <2>5. \A p \in Pairs, q \in Reqs : bloodLock'[p] = q => bloodLock[p] = q
    BY <1>1, <2>3
  <2> QED BY <2>1, <2>3, <2>4, <2>5, LocksAfter
<1>4. ASSUME NEW r \in Reqs, RequestStep(r) PROVE LockInv'
  <2>1. CASE Enter(r)
    <3>1. bloodLock' = bloodLock /\ teamLock' = [teamLock EXCEPT ![req[r].by] = r]
      BY <2>1 DEF Enter
    <3>2. /\ \A t \in Teams, q \in Reqs :
               teamLock'[t] = q => teamLock[t] = q \/ (q = r /\ t = req[r].by)
          /\ \A p \in Pairs, q \in Reqs : bloodLock'[p] = q => bloodLock[p] = q \/ q = r
      BY <1>1, <3>1
    <3> QED BY <2>1, <3>2, StepLocals, LocksAfter
  <2>2. CASE TryBlood(r)
    <3>1. teamLock' = teamLock
          /\ bloodLock' = [bloodLock EXCEPT ![PairOf(Head(req[r].todo))] = r]
      BY <2>2 DEF TryBlood
    <3>2. /\ \A t \in Teams, q \in Reqs :
               teamLock'[t] = q => teamLock[t] = q \/ (q = r /\ t = req[r].by)
          /\ \A p \in Pairs, q \in Reqs : bloodLock'[p] = q => bloodLock[p] = q \/ q = r
      BY <1>1, <3>1
    <3> QED BY <2>2, <3>2, StepLocals, LocksAfter
  <2>3. CASE Duplicate(r) \/ Undecodable(r) \/ Reject(r) \/ LoseBlood(r) \/ CheckBlood(r)
    <3>1. Duplicate(r) \/ \E row : Open(r) /\ Insert(r, row)
      <4> DEFINE f == Head(req[r].todo)
      <4>1. CASE Duplicate(r)
        BY <4>1
      <4>2. ASSUME NEW result, NEW round, NEW b, req[r].pc \in {"flags", "blood"},
                   Insert(r, Row(r, f, result, round, b))
            PROVE  \E row : Open(r) /\ Insert(r, row)
        <5>1. PICK row : row = Row(r, f, result, round, b)
          OBVIOUS
        <5> QED BY <4>2, <5>1 DEF Open
      <4>3. CASE Undecodable(r)
        <5>1. PICK b : b = FALSE
          OBVIOUS
        <5>2. req[r].pc = "flags" /\ Insert(r, Row(r, f, "invalid", req[r].now, b))
          BY <4>3, <5>1 DEF Undecodable, Judging
        <5> QED BY <4>2, <5>2
      <4>4. CASE Reject(r)
        <5>1. PICK v \in {"invalid", "own_flag", "nop_target", "expired", "future_flag",
                          "round_limit"} :
                /\ Judging(r, v)
                /\ Insert(r, Row(r, f, v, RoundOf(f), FALSE))
                /\ UNCHANGED <<game, subs, teamLock, bloodLock>>
          BY <4>4 DEF Reject
        <5>2. PICK b : b = FALSE
          OBVIOUS
        <5>3. req[r].pc = "flags" /\ Insert(r, Row(r, f, v, RoundOf(f), b))
          BY <5>1, <5>2 DEF Judging
        <5> QED BY <4>2, <5>3
      <4>5. CASE LoseBlood(r)
        <5>1. PICK b : b = FALSE
          OBVIOUS
        <5>2. req[r].pc = "flags" /\ Insert(r, Row(r, f, "accepted", RoundOf(f), b))
          BY <4>5, <5>1 DEF LoseBlood, Judging
        <5> QED BY <4>2, <5>2
      <4>6. CASE CheckBlood(r)
        <5>1. PICK b : req[r].pc = "blood" /\ Insert(r, Row(r, f, "accepted", RoundOf(f), b))
          BY <4>6 DEF CheckBlood
        <5> QED BY <4>2, <5>1
      <4> QED BY <2>3, <4>1, <4>3, <4>4, <4>5, <4>6
    <3>2. teamLock' = teamLock /\ bloodLock' = bloodLock
      BY <2>3 DEF Duplicate, Undecodable, Reject, LoseBlood, CheckBlood
    <3>3. /\ \A t \in Teams, q \in Reqs :
               teamLock'[t] = q => teamLock[t] = q \/ (q = r /\ t = req[r].by)
          /\ \A p \in Pairs, q \in Reqs : bloodLock'[p] = q => bloodLock[p] = q \/ q = r
      BY <3>2
    <3> QED BY <3>1, <3>3, StepLocals, LocksAfter
  <2>4. CASE ForeignKeyFails(r) \/ Commit(r)
    BY <1>3, <2>4 DEF ForeignKeyFails, Commit
  <2> QED BY <1>4, <2>1, <2>2, <2>3, <2>4 DEF RequestStep
<1>5. ASSUME NEW r \in Reqs, Abort(r) PROVE LockInv'
  BY <1>3, <1>5 DEF Abort
<1>6. CASE NextTick \/ OpenRound \/ StopGame \/ StartGame \/ UNCHANGED vars
  <2>1. req' = req /\ teamLock' = teamLock /\ bloodLock' = bloodLock
    BY <1>6 DEF NextTick, OpenRound, StopGame, StartGame, vars
  <2> QED BY <2>1 DEF LockInv, Open
<1> QED BY <1>2, <1>4, <1>5, <1>6 DEF Next

\* Of every flag there is a verdict, so a transaction that is at work can go on.
LEMMA OpenGoesOn ==
  ASSUME NEW r \in Reqs, Open(r)
  PROVE  CanGoOn(r)
<1>1. CASE req[r].pc = "flags" /\ req[r].todo # <<>>
  <2>1. Verdict(r, Head(req[r].todo)) \in Verdicts
    BY DEF Verdict, Verdicts
  <2> QED BY <1>1, <2>1 DEF CanGoOn, Judging
<1> QED BY <1>1 DEF CanGoOn, Open

\* Submissions do not wait for each other in a circle, nor in a row: one that cannot
\* go on waits for the lock of its team, and the one that holds it can.  The lock
\* of a pair is never waited for (flag_submit.py:70-98).
THEOREM NoWaitingInARow == Spec => []WaitsForOne
<1>1. Init => LockInv
  BY TeamsAssumption DEF Init, LockInv
<1>2. IInv /\ LockInv => WaitsForOne
  <2> SUFFICES ASSUME IInv, LockInv, NEW r \in Reqs, req[r].pc # "idle", ~CanGoOn(r)
               PROVE  /\ req[r].pc = "lock"
                      /\ \E q \in Reqs \ {r} : /\ teamLock[req[r].by] = q
                                               /\ req[q].by = req[r].by /\ CanGoOn(q)
    BY DEF WaitsForOne
  <2>1. ~Open(r) /\ req[r].pc = "lock" /\ req[r].by \in Teams
    BY OpenGoesOn, RequestShape DEF IInv, RequestInv, RequestOK, Open
  <2>2. teamLock[req[r].by] \in Reqs
    BY <2>1 DEF CanGoOn, IInv, TypeOK
  <2>3. PICK q \in Reqs : teamLock[req[r].by] = q
    BY <2>2
  <2>4. Open(q) /\ req[q].by = req[r].by
    BY <2>1, <2>3 DEF LockInv
  <2> QED BY <2>1, <2>3, <2>4, OpenGoesOn
<1> QED BY <1>1, <1>2, InitIInv, IInvNext, LockNext, PTL DEF Spec

\* With nobody at work, no lock is held.
LocksEnd == (\A r \in Reqs : req[r].pc = "idle") =>
              /\ \A t \in Teams : teamLock[t] = None
              /\ \A p \in Pairs : bloodLock[p] = None

\* No lock outlives its transaction, after commits, failed foreign keys and lost
\* connections alike (flag_submit.py:70-98, database.py).
THEOREM LocksAreReleased == Spec => []LocksEnd
<1>1. Init => LockInv
  BY TeamsAssumption DEF Init, LockInv
<1>2. IInv /\ LockInv => LocksEnd
  BY DEF IInv, TypeOK, LockInv, LocksEnd, Open
<1> QED BY <1>1, <1>2, InitIInv, IInvNext, LockNext, PTL DEF Spec
=============================================================================

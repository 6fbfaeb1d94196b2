-------------------------- MODULE FlagServerProofs --------------------------
(***************************************************************************)
(* Proofs about FlagServer: no submission is acknowledged twice for one    *)
(* row, whatever races and crashes; and the cache of FlagCache answers for *)
(* no submission it has not seen, as long as its size is one that 32 bits  *)
(* can hold.                                                               *)
(***************************************************************************)
EXTENDS FlagServer, FiniteSetTheorems, TLAPS

-----------------------------------------------------------------------------
(* The cache: a number in mixed radix.                                     *)

\* A digit below n after a number below m gives a number below m times n.
LEMMA DigitBounds ==
  ASSUME NEW m \in Nat, NEW n \in Nat, NEW a \in 0..m - 1, NEW b \in 0..n - 1
  PROVE  a * n + b \in 0..m * n - 1
<1>1. a * n \in Nat /\ m * n \in Nat
  OBVIOUS
<1>2. m * n = a * n + (m - a) * n
  OBVIOUS
<1>3. (m - a) * n >= n
  <2>1. PICK k \in Nat : m - a = k + 1
    <3>1. m - a - 1 \in Nat /\ m - a = (m - a - 1) + 1
      OBVIOUS
    <3> QED BY <3>1
  <2>2. (k + 1) * n = k * n + n /\ k * n \in Nat
    OBVIOUS
  <2> QED BY <2>1, <2>2
<1> QED BY <1>1, <1>2, <1>3

\* Only one digit and one number before it give the same number.
LEMMA DigitUnique ==
  ASSUME NEW n \in Nat, NEW a \in Nat, NEW c \in Nat, NEW b \in 0..n - 1, NEW d \in 0..n - 1,
         a * n + b = c * n + d
  PROVE  a = c /\ b = d
<1>1. ASSUME NEW x \in Nat, NEW y \in Nat, NEW u \in 0..n - 1, NEW v \in 0..n - 1,
             x * n + u = y * n + v, x < y
      PROVE  FALSE
  <2>1. PICK k \in Nat : y = x + k + 1
    <3>1. y - x - 1 \in Nat /\ y = x + (y - x - 1) + 1
      BY <1>1
    <3> QED BY <3>1
  <2>2. y * n = x * n + k * n + n /\ k * n \in Nat /\ x * n \in Nat
    <3>1. (x + k + 1) * n = x * n + k * n + n /\ k * n \in Nat /\ x * n \in Nat
      OBVIOUS
    <3> QED BY <2>1, <3>1
  <2> QED BY <1>1, <2>2
<1>2. a = c
  BY <1>1
<1> QED BY <1>2

\* What SlotCount counts, before it is cut to 32 bits.
Volume(tc) == tc * tc * Services * RoundBuckets * PayloadBuckets

Pair(tc, s) == ((s.by - 1) * Services + (s.service - 1)) * tc + (s.team - 1)

\* The first digits of a slot, and the number of a pair, are in range (flagcache.cpp:49-55).
LEMMA PairBounds ==
  ASSUME NEW tc \in Nat, NEW s \in Submissions, Covered(tc, Services, s)
  PROVE  /\ (s.by - 1) * Services + (s.service - 1) \in 0..tc * Services - 1
         /\ Pair(tc, s) \in 0..tc * Services * tc - 1
<1>1. s.by - 1 \in 0..tc - 1 /\ s.service - 1 \in 0..Services - 1 /\ s.team - 1 \in 0..tc - 1
      /\ Services \in Nat
  BY ServerAssumption DEF Covered
<1>2. (s.by - 1) * Services + (s.service - 1) \in 0..tc * Services - 1
  BY <1>1, DigitBounds
<1>3. tc * Services \in Nat
  BY <1>1
<1>4. Pair(tc, s) \in 0..(tc * Services) * tc - 1
  BY <1>1, <1>2, <1>3, DigitBounds DEF Pair
<1> QED BY <1>2, <1>4

\* A slot is a mixed-radix number of the buckets and the pair.
LEMMA SlotIsDigits ==
  ASSUME NEW tc \in Nat, NEW s \in Submissions
  PROVE  /\ Slot(tc, Services, s) = (Pair(tc, s) * RoundBuckets + (s.round % RoundBuckets))
                                       * PayloadBuckets + (s.payload % PayloadBuckets)
         /\ s.round % RoundBuckets \in 0..RoundBuckets - 1
         /\ s.payload % PayloadBuckets \in 0..PayloadBuckets - 1
<1>1. s.round \in Nat /\ s.payload \in Nat
  BY ServerAssumption
<1> QED BY <1>1, BucketsAssumption DEF Slot, Pair

\* The index of a submission that the table covers is below its size.
LEMMA SlotBounds ==
  ASSUME NEW tc \in Nat, NEW s \in Submissions, Covered(tc, Services, s)
  PROVE  Slot(tc, Services, s) \in 0..Volume(tc) - 1
<1> DEFINE r == s.round % RoundBuckets
           p == s.payload % PayloadBuckets
           m == tc * Services * tc
<1>1. Services \in Nat /\ RoundBuckets \in Nat /\ PayloadBuckets \in Nat /\ m \in Nat
      /\ r \in 0..RoundBuckets - 1 /\ p \in 0..PayloadBuckets - 1
  <2>1. m \in Nat
    BY ServerAssumption
  <2>2. Services \in Nat /\ RoundBuckets \in Nat /\ PayloadBuckets \in Nat
    BY ServerAssumption, BucketsAssumption
  <2>3. r \in 0..RoundBuckets - 1 /\ p \in 0..PayloadBuckets - 1
    BY SlotIsDigits
  <2> QED BY <2>1, <2>2, <2>3
<1>2. Pair(tc, s) \in 0..m - 1
  BY PairBounds
<1> HIDE DEF r, p, m
<1>3. Pair(tc, s) * RoundBuckets + r \in 0..m * RoundBuckets - 1 /\ m * RoundBuckets \in Nat
  BY <1>1, <1>2, DigitBounds
<1>4. (Pair(tc, s) * RoundBuckets + r) * PayloadBuckets + p \in 0..m * RoundBuckets * PayloadBuckets - 1
  BY <1>1, <1>3, DigitBounds
<1>5. m = tc * tc * Services
  BY <1>1 DEF m
<1> QED BY <1>4, <1>5, SlotIsDigits DEF Volume, r, p

\* Two submissions that share a slot are one team's of one team's flags of one
\* service.
LEMMA SlotUnique ==
  ASSUME NEW tc \in Nat, NEW s \in Submissions, NEW t \in Submissions,
         Covered(tc, Services, s), Covered(tc, Services, t),
         Slot(tc, Services, s) = Slot(tc, Services, t)
  PROVE  s.by = t.by /\ s.team = t.team /\ s.service = t.service
<1>1. Services \in Nat /\ RoundBuckets \in Nat /\ PayloadBuckets \in Nat
  BY ServerAssumption, BucketsAssumption
<1>2. Pair(tc, s) \in Nat /\ Pair(tc, t) \in Nat
  BY PairBounds
<1> DEFINE rs == s.round % RoundBuckets
           rt == t.round % RoundBuckets
           ps == s.payload % PayloadBuckets
           pt == t.payload % PayloadBuckets
           us == Pair(tc, s)
           ut == Pair(tc, t)
           xs == us * RoundBuckets + rs
           xt == ut * RoundBuckets + rt
<1>3. /\ rs \in 0..RoundBuckets - 1 /\ rt \in 0..RoundBuckets - 1
      /\ ps \in 0..PayloadBuckets - 1 /\ pt \in 0..PayloadBuckets - 1
      /\ xs * PayloadBuckets + ps = xt * PayloadBuckets + pt
  BY SlotIsDigits
<1> HIDE DEF rs, rt, ps, pt, us, ut
<1>4. xs \in Nat /\ xt \in Nat
  BY <1>1, <1>2, <1>3 DEF us, ut
<1>5. us = ut
  <2>1. xs = xt
    <3> HIDE DEF xs, xt
    <3> QED BY <1>1, <1>3, <1>4, DigitUnique
  <2>2. us * RoundBuckets + rs = ut * RoundBuckets + rt /\ us \in Nat /\ ut \in Nat
    BY <1>2, <2>1 DEF us, ut
  <2> QED BY <1>1, <1>3, <2>2, DigitUnique
<1>6. /\ (s.by - 1) * Services + (s.service - 1) \in Nat
      /\ (t.by - 1) * Services + (t.service - 1) \in Nat
      /\ s.team - 1 \in 0..tc - 1 /\ t.team - 1 \in 0..tc - 1
  BY PairBounds, ServerAssumption DEF Covered
<1> DEFINE vs == (s.by - 1) * Services + (s.service - 1)
           vt == (t.by - 1) * Services + (t.service - 1)
           ts == s.team - 1
           tt == t.team - 1
<1>7. vs = vt /\ ts = tt
  <2>1. vs * tc + ts = vt * tc + tt
    BY <1>5 DEF Pair, us, ut
  <2> HIDE DEF vs, vt, ts, tt
  <2>2. vs \in Nat /\ vt \in Nat /\ ts \in 0..tc - 1 /\ tt \in 0..tc - 1
    BY <1>6 DEF vs, vt, ts, tt
  <2> QED BY <2>1, <2>2, DigitUnique
<1> DEFINE bs == s.by - 1
           bt == t.by - 1
           ss == s.service - 1
           st == t.service - 1
<1>8. bs = bt /\ ss = st
  <2>1. bs * Services + ss = bt * Services + st
    BY <1>7
  <2>2. bs \in Nat /\ bt \in Nat /\ ss \in 0..Services - 1 /\ st \in 0..Services - 1
    BY ServerAssumption DEF Covered
  <2> HIDE DEF bs, bt, ss, st
  <2> QED BY <1>1, <2>1, <2>2, DigitUnique
<1>9. /\ s.by \in Nat /\ s.team \in Nat /\ s.service \in Nat
      /\ t.by \in Nat /\ t.team \in Nat /\ t.service \in Nat
  BY ServerAssumption
<1> QED BY <1>7, <1>8, <1>9

\* A slot and a key name one submission: what the cache holds is one flag of one
\* submitter (cache_key keeps the whole round and payload).
Passed == {s \in Submissions : s.mac /\ s.round <= TestRound}

\* Slot and key together tell any two submissions apart that have passed the
\* checks before the cache: what the slot folds, the key keeps.
LEMMA SlotAndKeyUnique ==
  ASSUME NEW tc \in Nat, NEW s \in Passed, NEW t \in Passed,
         Covered(tc, Services, s), Covered(tc, Services, t),
         Slot(tc, Services, s) = Slot(tc, Services, t), Key(s) = Key(t)
  PROVE  s = t
<1>1. s \in Submissions /\ t \in Submissions /\ s.mac /\ t.mac
      /\ s.round <= TestRound /\ t.round <= TestRound
  BY DEF Passed
<1>2. s.by = t.by /\ s.team = t.team /\ s.service = t.service
  BY <1>1, SlotUnique
<1>3. s.round = t.round /\ s.payload = t.payload
  <2> DEFINE rs == s.round
             rt == t.round
             ps == s.payload
             pt == t.payload
  <2>1. rs + 65536 * ps = rt + 65536 * pt
    BY DEF Key
  <2>2. rs \in Nat /\ rt \in Nat /\ ps \in Nat /\ pt \in Nat
    BY <1>1, ServerAssumption
  <2>3. rs <= TestRound /\ rt <= TestRound /\ TestRound \in Nat /\ TestRound < 65536
    BY <1>1, ServerAssumption
  <2> HIDE DEF rs, rt, ps, pt
  <2>4. rs < 65536 /\ rt < 65536
    BY <2>2, <2>3
  <2>6. rs = rt /\ ps = pt
    BY <2>1, <2>2, <2>4
  <2> QED BY <2>6 DEF rs, rt, ps, pt
<1> QED BY <1>1, <1>2, <1>3, ServerAssumption

-----------------------------------------------------------------------------
(* The inductive invariant.                                                *)

\* What max_team_id can be set to, and that the cache's size for it fits in 32 bits.
TeamNumbers == {MinTeams} \cup {n + 1 : n \in TeamCounts} \cup {n + 2 : n \in TeamCounts}
NoOverflow == \A n \in TeamNumbers : Volume(n) < UIntRange

GameInv ==
  /\ game \in [state : {"RUNNING", "STOPPED"} \cup Halts, round : 0..MaxRound]
  /\ game.state = "RUNNING" => game.round > 0
  /\ view \in [state : {"RUNNING", "STOPPED"} \cup Halts, round : -1..MaxRound]
  /\ view.round <= game.round
  /\ alive \in BOOLEAN /\ due \subseteq 1..MaxRound /\ scored \subseteq Submissions

\* A worker that has a submission has checked it, and belongs to a process.
WorkInv ==
  /\ pc \in [Workers -> {"idle", "cache", "insert", "exec", "result"}]
  /\ job \in [Workers -> Submissions \cup {NoVal}]
  /\ slot \in [Workers -> Nat \cup {NoVal}] /\ tick \in [Workers -> Int \cup {NoVal}]
  /\ tried \subseteq Passed
  /\ \A w \in Workers :
       /\ pc[w] = "idle" => job[w] = NoVal
       /\ pc[w] # "idle" => alive /\ job[w] \in Passed
       /\ pc[w] \in {"insert", "exec", "result"} => job[w] \in tried
       /\ tick[w] = NoVal <=> pc[w] \notin {"exec", "result"}

ConnInv ==
  /\ conn \in [Threads -> {"none", "ok", "bad"}] /\ dbUp \in BOOLEAN
  /\ \A t \in Threads : conn[t] = "ok" => dbUp
  /\ ~alive => \A t \in Threads : conn[t] = "none"

\* Has inserted the row of s, and will be told so.
Waiting(w, s) == pc[w] = "result" /\ conn[w] = "ok" /\ job[w] = s

Row == [sub : Submissions, tick : Int]

\* A row that is there is acknowledged once, or its one worker waits for that.
AckInv ==
  /\ rows \in Seq(Row) /\ synced \in 0..Len(rows)
  /\ oks \in [Submissions -> Nat] /\ losses \in [Submissions -> Nat]
  /\ \A i, j \in 1..Len(rows) : rows[i].sub = rows[j].sub => i = j
  /\ \A s \in Submissions :
       /\ oks[s] <= losses[s] + 1
       /\ oks[s] > losses[s] => Stored(s)
       /\ \A w \in Workers : Waiting(w, s) => Stored(s) /\ oks[s] <= losses[s]
       /\ \A v, w \in Workers : Waiting(v, s) /\ Waiting(w, s) => v = w

\* The index of a submission in an array for tc teams, if it has one.
SlotOf(tc, s) == IF Covered(tc, Services, s) THEN Slot(tc, Services, s) ELSE NoVal

\* The array is one for the teams of this moment, but while it is replaced.
SizeInv ==
  /\ dbTeams \in TeamCounts /\ teams \in Nat /\ (alive => teams \in TeamNumbers)
  /\ size \in Nat /\ resizing \in {"no", "counts", "array"}
  /\ alive /\ resizing # "counts" => size = SlotCount(teams, Services)
  /\ \A w \in Workers : pc[w] = "cache" /\ slot[w] # NoVal => slot[w] \in 0..Volume(teams) - 1

\* Until a resize, what the array holds is the key of a submission that was tried.
MarkOf(s, i, k) == SlotOf(teams, s) = i /\ Key(s) = k
MarksInv ==
  /\ resized \in BOOLEAN
  /\ ~resized =>
       /\ resizing = "no"
       /\ \A w \in Workers : pc[w] = "cache" => slot[w] = SlotOf(teams, job[w])
       /\ alive => \A i \in DOMAIN cache : \E s \in tried : MarkOf(s, i, cache[i])
       /\ NoOverflow => old \subseteq tried

IInv == GameInv /\ WorkInv /\ ConnInv /\ AckInv /\ SizeInv /\ MarksInv

\* What a part of the invariant does not mention may change.
LEMMA GameSame == GameInv /\ UNCHANGED <<game, view, alive, due, scored>> => GameInv'
  BY DEF GameInv
\* A step that leaves a part's variables alone keeps the part.
LEMMA WorkSame == WorkInv /\ UNCHANGED <<pc, job, slot, tick, tried, alive>> => WorkInv'
  BY DEF WorkInv
\* Of the connection.
LEMMA ConnSame == ConnInv /\ UNCHANGED <<conn, dbUp, alive>> => ConnInv'
  BY DEF ConnInv
\* Of the acknowledgements.
LEMMA AckSame == AckInv /\ UNCHANGED <<rows, synced, oks, losses, pc, job, conn>> => AckInv'
  BY DEF AckInv, Stored, Waiting
\* Of the sizes of the array.
LEMMA SizeSame == SizeInv /\ UNCHANGED <<dbTeams, teams, alive, size, resizing, pc, slot>> => SizeInv'
  BY DEF SizeInv
\* Of the marks in it.
LEMMA MarksSame ==
  MarksInv /\ UNCHANGED <<resized, resizing, pc, slot, job, teams, alive, cache, tried, old>> => MarksInv'
  BY DEF MarksInv, MarkOf

\* Rows are of submissions.
LEMMA RowTypes == AckInv => \A i \in 1..Len(rows) : rows[i].sub \in Submissions /\ rows[i].tick \in Int
<1> SUFFICES ASSUME AckInv, NEW i \in 1..Len(rows) PROVE rows[i].sub \in Submissions /\ rows[i].tick \in Int
  OBVIOUS
<1>1. rows \in Seq(Row)
  BY DEF AckInv
<1>2. rows[i] \in Row
  BY <1>1
<1> QED BY <1>2 DEF Row

\* At the start there is no process and no row.
LEMMA InitIInv == Init => IInv
<1> SUFFICES ASSUME Init PROVE IInv
  OBVIOUS
<1>1. GameInv
  <2>1. alive \in BOOLEAN
    BY DEF Init, ViewInit
  <2>2. /\ game = [state |-> "STOPPED", round |-> 0]
        /\ view = [state |-> "STOPPED", round |-> -1] /\ due = {} /\ scored = {}
    BY DEF Init, ViewInit, Unknown
  <2> QED BY <2>1, <2>2, ViewAssumption DEF GameInv
<1>2. WorkInv
  BY DEF Init, WorkInv
<1>3. ConnInv
  BY DEF Init, ConnInv
<1>4. AckInv
  BY DEF Init, AckInv, Stored, Waiting
<1>5. SizeInv
  BY DEF Init, ViewInit, SizeInv
<1>6. MarksInv
  BY DEF Init, ViewInit, MarksInv, NoMarks
<1> QED BY <1>1, <1>2, <1>3, <1>4, <1>5, <1>6 DEF IInv

-----------------------------------------------------------------------------
(* The process and its main thread.                                        *)

\* The end of the process, which leaves only what the database has.
LEMMA DieKeeps ==
  ASSUME IInv, Die, UNCHANGED <<game, due, scored, teams, size, cache, dbTeams, dbUp, rows, synced,
                                oks, losses, tried, old, resized>>
  PROVE  IInv'
<1>1. /\ alive /\ alive' = FALSE /\ UNCHANGED view /\ resizing' = "no"
      /\ pc' = [w \in Workers |-> "idle"] /\ job' = [w \in Workers |-> NoVal]
      /\ slot' = [w \in Workers |-> NoVal] /\ tick' = [w \in Workers |-> NoVal]
      /\ conn' = [t \in Threads |-> "none"]
  BY DEF Die, Down
<1>2. GameInv'
  BY <1>1 DEF IInv, GameInv
<1>3. WorkInv'
  BY <1>1 DEF IInv, WorkInv
<1>4. ConnInv'
  BY <1>1 DEF IInv, ConnInv
<1>5. AckInv'
  BY <1>1 DEF IInv, AckInv, Stored, Waiting
<1>6. SizeInv'
  BY <1>1 DEF IInv, SizeInv
<1>7. MarksInv'
  BY <1>1 DEF IInv, MarksInv
<1> QED BY <1>2, <1>3, <1>4, <1>5, <1>6, <1>7 DEF IInv

\* The array has a natural number of slots, whatever the product wraps to.
LEMMA SlotCountInNat == \A tc \in Nat : SlotCount(tc, Services) \in Nat
<1> SUFFICES ASSUME NEW tc \in Nat PROVE SlotCount(tc, Services) \in Nat
  OBVIOUS
<1>1. Services \in Nat /\ RoundBuckets \in Nat /\ PayloadBuckets \in Nat /\ UIntRange \in Nat \ {0}
  BY ServerAssumption, BucketsAssumption
<1>2. tc * tc * Services * RoundBuckets * PayloadBuckets \in Nat
  BY <1>1
<1> QED BY <1>1, <1>2 DEF SlotCount

\* A process starts with an empty array for the teams of the database.
LEMMA StartKeeps == IInv /\ Start => IInv'
<1> SUFFICES ASSUME IInv, Start PROVE IInv'
  OBVIOUS
<1>1. /\ ~alive /\ alive' = TRUE /\ view' = [state |-> "STOPPED", round |-> -1] /\ dbUp
      /\ teams' = Larger(MinTeams, dbTeams + 2)
      /\ size' = SlotCount(teams', Services) /\ cache' = NoMarks
      /\ conn' = [conn EXCEPT ![main] = "ok"]
      /\ UNCHANGED <<game, due, scored, resizing, pc, job, slot, tick, dbTeams, dbUp, rows, synced,
                     oks, losses, tried, old, resized>>
  BY DEF Start, Up, Unknown, scoreVars, workVars, dbVars, histVars
<1>2. \A w \in Workers : pc[w] = "idle"
  BY <1>1 DEF IInv, WorkInv
<1>3. GameInv'
  BY <1>1, ViewAssumption DEF IInv, GameInv
<1>4. WorkInv'
  BY <1>1, <1>2 DEF IInv, WorkInv
<1>5. ConnInv'
  BY <1>1 DEF IInv, ConnInv
<1>6. AckInv'
  BY <1>1, <1>2 DEF IInv, AckInv, Stored, Waiting
<1>7. SizeInv'
  <2>1. dbTeams \in TeamCounts /\ dbTeams \in Nat /\ MinTeams \in Nat
    BY ServerAssumption DEF IInv, SizeInv
  <2>2. teams' \in TeamNumbers /\ teams' \in Nat
    BY <1>1, <2>1 DEF TeamNumbers, Larger
  <2> QED BY <1>1, <1>2, <2>1, <2>2, SlotCountInNat DEF IInv, SizeInv
<1>8. MarksInv'
  BY <1>1, <1>2 DEF IInv, MarksInv, NoMarks
<1> QED BY <1>3, <1>4, <1>5, <1>6, <1>7, <1>8 DEF IInv

\* The process that exits takes its memory with it, nothing else.
LEMMA ExitKeeps == IInv /\ Exit => IInv'
  BY DieKeeps DEF Exit, scoreVars, dbVars, histVars

\* More teams have more slots.
LEMMA VolumeGrows ==
  ASSUME NEW m \in Nat, NEW n \in Nat, m <= n
  PROVE  Volume(m) \in Nat /\ Volume(n) \in Nat /\ Volume(m) <= Volume(n)
<1> DEFINE k == Services * RoundBuckets * PayloadBuckets
<1>1. k \in Nat
  BY ServerAssumption, BucketsAssumption
<1>2. m * m \in Nat /\ n * n \in Nat /\ m * m <= n * n
  OBVIOUS
<1>3. \A i, j, h \in Nat : i <= j => i * h \in Nat /\ j * h \in Nat /\ i * h <= j * h
  OBVIOUS
<1>4. \A i \in Nat : Volume(i) = (i * i) * k
  BY ServerAssumption, BucketsAssumption DEF Volume
<1> HIDE DEF k
<1> QED BY <1>1, <1>2, <1>3, <1>4

\* The look for new teams, and what follows it.
LEMMA CheckDatabaseKeeps == IInv /\ CheckDatabase => IInv'
<1> SUFFICES ASSUME IInv, CheckDatabase PROVE IInv'
  OBVIOUS
<1>1. UNCHANGED <<game, due, scored, size, cache, dbTeams, dbUp, rows, synced, oks, losses, tried, old>>
  BY DEF CheckDatabase, scoreVars, dbVars
<1>2. CASE Die /\ UNCHANGED <<teams, resized>>
  BY <1>1, <1>2, DieKeeps
<1>3. CASE /\ alive /\ teams' = Larger(teams, dbTeams + 1) /\ teams' > teams
           /\ resizing' = "counts" /\ resized' = TRUE
           /\ UNCHANGED <<alive, view, workVars, conn>>
  <2>1. UNCHANGED <<alive, view, pc, job, slot, tick, conn>>
    BY <1>3 DEF workVars
  <2>2. GameInv' /\ WorkInv' /\ ConnInv' /\ AckInv'
    BY <1>1, <2>1, GameSame, WorkSame, ConnSame, AckSame DEF IInv
  <2>3. SizeInv'
    <3>1. dbTeams \in TeamCounts /\ dbTeams \in Nat /\ teams \in Nat
      BY ServerAssumption DEF IInv, SizeInv
    <3>2. teams' \in TeamNumbers /\ teams' \in Nat /\ teams <= teams'
      BY <1>3, <3>1 DEF TeamNumbers, Larger
    <3>3. Volume(teams) \in Nat /\ Volume(teams') \in Nat /\ Volume(teams) <= Volume(teams')
      BY <3>1, <3>2, VolumeGrows
    <3>4. ASSUME NEW w \in Workers, pc[w] = "cache", slot[w] # NoVal
          PROVE  slot[w] \in 0..Volume(teams') - 1
      <4>1. slot[w] \in 0..Volume(teams) - 1
        BY <3>4 DEF IInv, SizeInv
      <4> QED BY <3>3, <4>1
    <3> QED BY <1>1, <1>3, <2>1, <3>1, <3>2, <3>4 DEF IInv, SizeInv
  <2>4. MarksInv'
    BY <1>3 DEF MarksInv
  <2> QED BY <2>2, <2>3, <2>4 DEF IInv
<1> QED BY <1>2, <1>3 DEF CheckDatabase

\* The array for the new teams, and its first use.
LEMMA ResizeKeeps == IInv /\ Resize => IInv'
<1> SUFFICES ASSUME IInv, Resize PROVE IInv'
  OBVIOUS
<1>1. /\ UNCHANGED <<game, view, alive, due, scored, teams, pc, job, slot, tick, dbTeams, dbUp, rows,
                     synced, oks, losses, tried, old, resized, conn>>
      /\ resizing \in {"counts", "array"} /\ resizing' \in {"array", "no"}
      /\ size' = SlotCount(teams, Services) \/ (resizing = "array" /\ size' = size)
  BY DEF Resize, NewArray, ClearArray, viewVars, scoreVars, workVars, dbVars, histVars
<1>2. GameInv' /\ WorkInv' /\ ConnInv' /\ AckInv'
  BY <1>1, GameSame, WorkSame, ConnSame, AckSame DEF IInv
<1>3. SizeInv'
  <2>1. SlotCount(teams, Services) \in Nat
    BY SlotCountInNat DEF IInv, SizeInv
  <2> QED BY <1>1, <2>1 DEF IInv, SizeInv
<1>4. MarksInv'
  BY <1>1 DEF IInv, MarksInv
<1> QED BY <1>2, <1>3, <1>4 DEF IInv

-----------------------------------------------------------------------------
(* The game.                                                               *)

\* What LearnState and LearnRound may tell is within the game's bounds.
LEMMA LearnKeeps ==
  ASSUME GameInv, LearnState \/ LearnRound, UNCHANGED <<game, alive, due, scored>>
  PROVE  GameInv'
<1>1. /\ view \in [state : {"RUNNING", "STOPPED"} \cup Halts, round : -1..MaxRound]
      /\ game.state \in {"RUNNING", "STOPPED"} \cup Halts /\ game.round \in 0..MaxRound
      /\ view.round <= game.round
  BY DEF GameInv
<1>2. CASE LearnState
  <2>1. PICK st \in {"RUNNING", game.state} \cup Halts : view' = [view EXCEPT !.state = st]
    BY <1>2 DEF LearnState
  <2> QED BY <1>1, <2>1 DEF GameInv
<1>3. CASE LearnRound
  <2>1. PICK r \in view.round + 1..game.round : r > 0 /\ view' = [view EXCEPT !.round = r]
    BY <1>3 DEF LearnRound
  <2>2. r \in 0..MaxRound /\ r <= game.round
    BY <1>1, <2>1, ViewAssumption
  <2> QED BY <1>1, <2>1, <2>2, ViewAssumption DEF GameInv
<1> QED BY <1>2, <1>3

\* Ticks, their scoring, and what the server hears of them.
LEMMA GameKeeps == IInv /\ Game => IInv'
<1> SUFFICES ASSUME IInv, Game PROVE IInv'
  OBVIOUS
<1>1. UNCHANGED <<alive, teams, size, resizing, cache, pc, job, slot, tick, dbTeams, dbUp, rows, synced,
                  oks, losses, tried, old, resized, conn>>
  BY DEF Game, memVars, workVars, dbVars, histVars
<1>2. WorkInv' /\ ConnInv' /\ AckInv' /\ SizeInv' /\ MarksInv'
  BY <1>1, WorkSame, ConnSame, AckSame, SizeSame, MarksSame DEF IInv
<1>3. /\ game \in [state : {"RUNNING", "STOPPED"} \cup Halts, round : 0..MaxRound]
      /\ MaxRound \in Nat
  BY ViewAssumption DEF IInv, GameInv
<1>4. GameInv'
  <2>1. CASE StartGame /\ UNCHANGED <<view, scoreVars>>
    <3>1. game' \in [state : {"RUNNING", "STOPPED"} \cup Halts, round : 0..MaxRound]
          /\ game'.round = game.round + 1
      BY <1>3, <2>1 DEF StartGame
    <3> QED BY <1>1, <1>3, <2>1, <3>1 DEF IInv, GameInv, scoreVars
  <2>2. CASE (NextTick \/ Halt) /\ due' = due \cup {game.round} /\ UNCHANGED <<view, scored>>
    <3>1. /\ game.round \in 1..MaxRound
          /\ game' \in [state : {"RUNNING", "STOPPED"} \cup Halts, round : 0..MaxRound]
          /\ game'.round >= game.round
      <4>1. game.state = "RUNNING"
        BY <2>2 DEF NextTick, Halt
      <4>2. CASE NextTick
        BY <1>3, <4>1, <4>2 DEF NextTick, IInv, GameInv
      <4>3. CASE Halt
        <5>1. PICK h \in Halts : game' = [game EXCEPT !.state = h]
          BY <4>3 DEF Halt
        <5> QED BY <1>3, <4>1, <5>1 DEF IInv, GameInv
      <4> QED BY <2>2, <4>2, <4>3
    <3>2. due' \subseteq 1..MaxRound
      BY <1>3, <2>2, <3>1 DEF IInv, GameInv
    <3>3. view.round <= game'.round /\ (game'.state = "RUNNING" => game'.round > 0)
      BY <1>3, <3>1 DEF IInv, GameInv
    <3> QED BY <1>1, <2>2, <3>1, <3>2, <3>3 DEF IInv, GameInv
  <2>3. CASE (\E t \in due : Score(t)) /\ UNCHANGED <<game, view>>
    <3>1. PICK t \in due : Score(t)
      BY <2>3
    <3>2. due' \subseteq due
      BY <3>1 DEF Score
    <3>3. scored' \subseteq Submissions
      <4>1. \A i \in 1..Len(rows) : rows[i].sub \in Submissions
        BY RowTypes DEF IInv
      <4> QED BY <3>1, <4>1 DEF Score, IInv, GameInv
    <3> QED BY <1>1, <2>3, <3>2, <3>3 DEF IInv, GameInv
  <2>4. CASE (LearnState \/ LearnRound) /\ UNCHANGED <<game, scoreVars>>
    BY <1>1, <2>4, LearnKeeps DEF IInv, scoreVars
  <2> QED BY <2>1, <2>2, <2>3, <2>4 DEF Game
<1> QED BY <1>2, <1>4 DEF IInv

-----------------------------------------------------------------------------
(* The workers.                                                            *)

\* What no step of a worker changes.
WorkerFrame == UNCHANGED <<game, view, alive, due, scored, teams, size, resizing, dbTeams, dbUp,
                           synced, losses, resized>>

\* A line that gets past the checks, with its index for the teams of this moment.
LEMMA TakeLineKeeps == ASSUME IInv, NEW w \in Workers, TakeLine(w) PROVE IInv'
<1>1. /\ WorkerFrame /\ UNCHANGED <<tick, conn, rows, cache, oks, tried, old>>
      /\ alive /\ pc[w] = "idle"
  BY DEF TakeLine, Check, WorkerFrame, viewVars, scoreVars
<1>2. PICK s \in Submissions :
        /\ ~Refused(s)
        /\ pc' = [pc EXCEPT ![w] = "cache"] /\ job' = [job EXCEPT ![w] = s]
        /\ slot' = [slot EXCEPT ![w] = SlotOf(teams, s)]
  BY DEF TakeLine, Check, SlotOf
<1>3. s \in Passed
  <2>1. s.round \in Nat /\ TestRound \in Nat /\ s.mac \in BOOLEAN
    BY ServerAssumption
  <2>2. ~(s.round > TestRound) /\ s.mac
    BY <1>2 DEF Refused
  <2> QED BY <2>1, <2>2 DEF Passed
<1>4. teams \in Nat /\ (SlotOf(teams, s) # NoVal => SlotOf(teams, s) \in 0..Volume(teams) - 1)
  BY SlotBounds DEF IInv, SizeInv, SlotOf
<1>5. SlotOf(teams, s) \in Nat \cup {NoVal}
  BY <1>4
<1>6. GameInv' /\ ConnInv'
  BY <1>1, GameSame, ConnSame DEF IInv, WorkerFrame
<1>7. WorkInv'
  <2>1. /\ pc' \in [Workers -> {"idle", "cache", "insert", "exec", "result"}]
        /\ job' \in [Workers -> Submissions \cup {NoVal}] /\ slot' \in [Workers -> Nat \cup {NoVal}]
    BY <1>2, <1>5 DEF IInv, WorkInv
  <2>2. ASSUME NEW v \in Workers
        PROVE  /\ pc'[v] = "idle" => job'[v] = NoVal
               /\ pc'[v] # "idle" => alive' /\ job'[v] \in Passed
               /\ pc'[v] \in {"insert", "exec", "result"} => job'[v] \in tried
               /\ tick'[v] = NoVal <=> pc'[v] \notin {"exec", "result"}
    <3>1. CASE v = w
      BY <1>1, <1>2, <1>3, <3>1 DEF IInv, WorkInv, WorkerFrame
    <3>2. CASE v # w
      BY <1>1, <1>2, <3>2 DEF IInv, WorkInv, WorkerFrame
    <3> QED BY <3>1, <3>2
  <2> QED BY <1>1, <2>1, <2>2 DEF IInv, WorkInv
<1>8. AckInv'
  <2>1. \A v \in Workers, z \in Submissions : Waiting(v, z)' => Waiting(v, z)
    BY <1>1, <1>2 DEF Waiting, IInv, WorkInv
  <2> QED BY <1>1, <2>1 DEF IInv, AckInv, Stored, WorkerFrame
<1>9. SizeInv'
  <2>1. ASSUME NEW v \in Workers, pc'[v] = "cache", slot'[v] # NoVal
        PROVE  slot'[v] \in 0..Volume(teams) - 1
    <3>1. CASE v = w
      BY <1>2, <1>4, <2>1, <3>1 DEF IInv, WorkInv
    <3>2. CASE v # w
      <4>1. pc[v] = "cache" /\ slot'[v] = slot[v] /\ slot[v] # NoVal
        BY <1>2, <2>1, <3>2 DEF IInv, WorkInv
      <4> QED BY <4>1 DEF IInv, SizeInv
    <3> QED BY <3>1, <3>2
  <2> QED BY <1>1, <2>1 DEF IInv, SizeInv, WorkerFrame
<1>10. MarksInv'
  <2>1. ASSUME ~resized, NEW v \in Workers, pc'[v] = "cache" PROVE slot'[v] = SlotOf(teams, job'[v])
    <3>1. CASE v = w
      BY <1>2, <3>1 DEF IInv, WorkInv
    <3>2. CASE v # w
      BY <1>2, <2>1, <3>2 DEF IInv, WorkInv, MarksInv
    <3> QED BY <3>1, <3>2
  <2> QED BY <1>1, <2>1 DEF IInv, MarksInv, MarkOf, WorkerFrame
<1> QED BY <1>6, <1>7, <1>8, <1>9, <1>10 DEF IInv

\* An answer, or the next thing to do, of a worker that has a submission.
LEMMA WorkerMoves ==
  ASSUME IInv, NEW w \in Workers, pc[w] # "idle", UNCHANGED alive, tried' \subseteq Passed,
         tried \subseteq tried',
         \/ Answered(w)
         \/ /\ UNCHANGED <<job, slot>>
            /\ \/ /\ pc' = [pc EXCEPT ![w] = "insert"] /\ UNCHANGED tick /\ pc[w] = "cache"
                  /\ job[w] \in tried'
               \/ /\ pc' = [pc EXCEPT ![w] = "exec"] /\ pc[w] = "insert"
                  /\ \E t \in Int : tick' = [tick EXCEPT ![w] = t]
               \/ pc' = [pc EXCEPT ![w] = "result"] /\ UNCHANGED tick /\ pc[w] = "exec"
  PROVE  /\ WorkInv'
         /\ \A v \in Workers : pc'[v] = "cache" => /\ v # w /\ pc[v] = "cache"
                                                   /\ slot'[v] = slot[v] /\ job'[v] = job[v]
<1>1. CASE Answered(w)
  BY <1>1 DEF Answered, IInv, WorkInv
<1>2. CASE /\ UNCHANGED <<job, slot>>
           /\ pc' = [pc EXCEPT ![w] = "insert"] /\ UNCHANGED tick /\ pc[w] = "cache"
           /\ job[w] \in tried'
  BY <1>2 DEF IInv, WorkInv
<1>3. CASE /\ UNCHANGED <<job, slot>>
           /\ pc' = [pc EXCEPT ![w] = "exec"] /\ pc[w] = "insert"
           /\ \E t \in Int : tick' = [tick EXCEPT ![w] = t]
  <2>1. PICK t \in Int : tick' = [tick EXCEPT ![w] = t]
    BY <1>3
  <2>2. t # NoVal
    BY ServerAssumption
  <2> QED BY <1>3, <2>1, <2>2 DEF IInv, WorkInv
<1>4. CASE /\ UNCHANGED <<job, slot>>
           /\ pc' = [pc EXCEPT ![w] = "result"] /\ UNCHANGED tick /\ pc[w] = "exec"
  BY <1>4 DEF IInv, WorkInv
<1> QED BY <1>1, <1>2, <1>3, <1>4

\* So the bounds of the indexes stay, and the marks do where the array is not used.
LEMMA WorkerSizes ==
  ASSUME IInv, NEW w \in Workers, WorkerFrame,
         \A v \in Workers : pc'[v] = "cache" => /\ v # w /\ pc[v] = "cache"
                                                /\ slot'[v] = slot[v] /\ job'[v] = job[v]
  PROVE  /\ SizeInv'
         /\ UNCHANGED <<cache, tried>> /\ (NoOverflow /\ ~resized => old' \subseteq tried) => MarksInv'
<1>1. SizeInv'
  BY DEF IInv, SizeInv, WorkerFrame
<1>2. ASSUME UNCHANGED <<cache, tried>>, NoOverflow /\ ~resized => old' \subseteq tried
      PROVE  MarksInv'
  BY <1>2 DEF IInv, MarksInv, MarkOf, WorkerFrame
<1> QED BY <1>1, <1>2

\* A size that fits is not cut.
LEMMA SizeIsVolume ==
  ASSUME NoOverflow, NEW tc \in TeamNumbers, tc \in Nat
  PROVE  SlotCount(tc, Services) = Volume(tc)
<1>1. Volume(tc) \in Nat /\ UIntRange \in Nat \ {0} /\ Volume(tc) < UIntRange
  BY VolumeGrows, BucketsAssumption DEF NoOverflow
<1>2. SlotCount(tc, Services) = Volume(tc) % UIntRange
  BY DEF SlotCount, Volume
<1>3. \A x \in Nat, y \in Nat \ {0} : x < y => x % y = x
  OBVIOUS
<1> QED BY <1>1, <1>2, <1>3

\* The cache knows a submission only if it was tried: its mark is its own.
LEMMA HitWasTried ==
  ASSUME IInv, NEW w \in Workers, pc[w] = "cache", ~resized, slot[w] \in Int,
         Holds(cache, slot[w], Key(job[w]))
  PROVE  job[w] \in tried
<1>1. job[w] \in Passed /\ alive /\ teams \in Nat
  BY DEF IInv, WorkInv, SizeInv
<1>2. PICK s \in tried : MarkOf(s, slot[w], Key(job[w]))
  BY <1>1 DEF IInv, MarksInv, Holds
<1>3. s \in Passed /\ SlotOf(teams, s) = slot[w] /\ SlotOf(teams, job[w]) = slot[w]
      /\ Key(s) = Key(job[w])
  BY <1>2 DEF IInv, WorkInv, MarksInv, MarkOf
<1>4. NoVal \notin Int
  BY ServerAssumption
<1>5. /\ Covered(teams, Services, s) /\ Covered(teams, Services, job[w])
      /\ Slot(teams, Services, s) = Slot(teams, Services, job[w])
  BY <1>3, <1>4 DEF SlotOf
<1>6. s = job[w]
  BY <1>1, <1>3, <1>5, SlotAndKeyUnique
<1> QED BY <1>6

\* The worker asks the cache, and is told to insert or that the flag is an old one.
LEMMA AskCacheKeeps ==
  ASSUME IInv, NEW w \in Workers, AskCache(w), WorkerFrame
  PROVE  IInv'
<1> DEFINE i == slot[w]
           k == Key(job[w])
<1>1. /\ pc[w] = "cache" /\ UNCHANGED <<conn, rows, oks>>
      /\ cache' = IF i \in 0..size - 1 THEN Marked(cache, i, k) ELSE cache
  BY DEF AskCache
<1>2. /\ job[w] \in Passed /\ alive /\ teams \in Nat /\ size \in Nat
      /\ slot[w] \in Nat \cup {NoVal} /\ NoVal \notin Int
  BY <1>1, ServerAssumption DEF IInv, WorkInv, SizeInv
<1>3. PICK hit \in CASE i = NoVal -> {FALSE}
                     [] i \in 0..size - 1 -> {Holds(cache, i, k)}
                     [] OTHER -> BOOLEAN :
              IF hit THEN AnswerOld(w) /\ UNCHANGED tried
              ELSE /\ pc' = [pc EXCEPT ![w] = "insert"]
                   /\ tried' = tried \cup {job[w]}
                   /\ UNCHANGED <<job, slot, tick, old>>
  BY Zenon DEF AskCache
<1>4. /\ i = NoVal => ~hit
      /\ i \in 0..size - 1 => (hit <=> Holds(cache, i, k))
  <2>1. CASE i = NoVal
    <3>1. ~(i \in 0..size - 1)
      BY <1>2, <2>1
    <3> QED BY <1>3, <2>1, <3>1
  <2>2. CASE i \in 0..size - 1
    <3>1. i # NoVal
      BY <1>2, <2>2
    <3> QED BY <1>3, <2>2, <3>1
  <2> QED BY <2>1, <2>2
<1> HIDE DEF i, k
<1>5. \/ Answered(w) /\ old' = old \cup {job[w]} /\ tried' = tried /\ hit
      \/ /\ pc' = [pc EXCEPT ![w] = "insert"] /\ UNCHANGED <<job, slot, tick, old>>
         /\ tried' = tried \cup {job[w]} /\ ~hit
  BY <1>3 DEF AnswerOld
<1>6. tried' \subseteq Passed /\ tried \subseteq tried'
  BY <1>2, <1>5 DEF IInv, WorkInv
<1>7. /\ WorkInv'
      /\ \A v \in Workers : pc'[v] = "cache" => /\ v # w /\ pc[v] = "cache"
                                                /\ slot'[v] = slot[v] /\ job'[v] = job[v]
  BY <1>1, <1>5, <1>6, WorkerMoves DEF WorkerFrame
<1>8. GameInv' /\ ConnInv' /\ SizeInv'
  BY <1>1, <1>7, GameSame, ConnSame, WorkerSizes DEF IInv, WorkerFrame
<1>9. AckInv'
  <2>1. \A v \in Workers, z \in Submissions : Waiting(v, z)' => Waiting(v, z)
    BY <1>1, <1>5, ServerAssumption DEF Waiting, IInv, WorkInv, Answered
  <2> QED BY <1>1, <2>1 DEF IInv, AckInv, Stored, WorkerFrame
<1>10. MarksInv'
  <2> SUFFICES ASSUME ~resized PROVE MarksInv'
    BY DEF IInv, MarksInv, WorkerFrame
  <2>1. i = SlotOf(teams, job[w])
    BY <1>1 DEF i, IInv, MarksInv
  <2>2. i \in 0..size - 1 /\ hit => job[w] \in tried
    BY <1>1, <1>4, HitWasTried DEF i, k
  <2>3. i \in 0..size - 1 => job[w] \in tried'
    BY <1>5, <2>2
  <2>4. ASSUME NEW j \in DOMAIN cache'
        PROVE  \E s \in tried' : SlotOf(teams, s) = j /\ Key(s) = cache'[j]
    <3>1. CASE i \in 0..size - 1 /\ j = i
      <4>1. cache'[j] = k
        BY <1>1, <3>1 DEF Marked, i
      <4> QED BY <2>1, <2>3, <3>1, <4>1 DEF k
    <3>2. CASE ~(i \in 0..size - 1 /\ j = i)
      <4>1. j \in DOMAIN cache /\ cache'[j] = cache[j]
        BY <1>1, <3>2 DEF Marked, i
      <4>2. PICK s \in tried : MarkOf(s, j, cache[j])
        BY <1>2, <4>1 DEF IInv, MarksInv
      <4> QED BY <1>6, <4>1, <4>2 DEF MarkOf
    <3> QED BY <3>1, <3>2
  <2>5. NoOverflow => old' \subseteq tried'
    <3> SUFFICES ASSUME NoOverflow, hit PROVE job[w] \in tried
      BY <1>5, <1>6 DEF IInv, MarksInv
    <3>1. size = Volume(teams)
      BY <1>2, SizeIsVolume DEF IInv, SizeInv, MarksInv
    <3>2. i # NoVal
      BY <1>4
    <3>3. i \in 0..size - 1
      BY <1>1, <3>1, <3>2 DEF i, IInv, SizeInv
    <3> QED BY <2>2, <3>3
  <2> QED BY <1>1, <1>7, <2>4, <2>5 DEF IInv, MarksInv, MarkOf, WorkerFrame
<1> QED BY <1>7, <1>8, <1>9, <1>10 DEF IInv

\* The worker connects, if it knows that it has to, and reads the round.
LEMMA PrepareKeeps == ASSUME IInv, NEW w \in Workers, Prepare(w), WorkerFrame PROVE IInv'
<1>1. /\ pc[w] = "insert" /\ UNCHANGED <<rows, cache, oks, tried, old>>
      /\ \/ /\ conn[w] # "none" \/ dbUp
            /\ conn' = [conn EXCEPT ![w] = IF @ = "none" THEN "ok" ELSE @]
            /\ tick' = [tick EXCEPT ![w] = view.round]
            /\ pc' = [pc EXCEPT ![w] = "exec"] /\ UNCHANGED <<job, slot>>
         \/ Answered(w) /\ UNCHANGED conn
  BY DEF Prepare
<1>2. view.round \in Int
  BY ViewAssumption DEF IInv, GameInv
<1>3. tried' \subseteq Passed /\ tried \subseteq tried' /\ UNCHANGED alive
  BY <1>1 DEF IInv, WorkInv, WorkerFrame
<1>4. /\ WorkInv'
      /\ \A v \in Workers : pc'[v] = "cache" => /\ v # w /\ pc[v] = "cache"
                                                /\ slot'[v] = slot[v] /\ job'[v] = job[v]
  BY <1>1, <1>2, <1>3, WorkerMoves
<1>5. GameInv' /\ SizeInv' /\ MarksInv'
  BY <1>1, <1>4, GameSame, WorkerSizes DEF IInv, MarksInv, WorkerFrame
<1>6. ConnInv'
  <2>1. w \in Threads /\ alive
    BY <1>1 DEF Threads, IInv, WorkInv
  <2> QED BY <1>1, <2>1 DEF IInv, ConnInv, WorkerFrame
<1>7. AckInv'
  <2>1. ASSUME NEW v \in Workers, NEW z \in Submissions, Waiting(v, z)' PROVE Waiting(v, z)
    <3>1. v # w
      BY <1>1, <2>1 DEF Waiting, Answered, IInv, WorkInv
    <3>2. v \in Threads
      BY DEF Threads
    <3> QED BY <1>1, <2>1, <3>1, <3>2 DEF Waiting, Answered, IInv, WorkInv, ConnInv
  <2> QED BY <1>1, <2>1 DEF IInv, AckInv, Stored, WorkerFrame
<1> QED BY <1>4, <1>5, <1>6, <1>7 DEF IInv

\* A use of a connection finds out that it is broken.
LEMMA NoticedKeeps ==
  ASSUME IInv, NEW w \in Workers, pc[w] # "idle", Noticed(w), WorkerFrame
  PROVE  /\ ConnInv'
         /\ \A v \in Workers : conn'[v] = "ok" <=> conn[v] = "ok"
<1>1. w \in Threads /\ Workers \subseteq Threads /\ alive
  BY DEF Threads, IInv, WorkInv
<1> QED BY <1>1 DEF Noticed, IInv, ConnInv, WorkerFrame

\* A row more, unless it is there.
LEMMA InsertKeeps == ASSUME IInv, NEW w \in Workers, Insert(w), WorkerFrame PROVE IInv'
<1>1. /\ pc[w] = "exec" /\ Noticed(w) /\ UNCHANGED <<cache, oks, tried>>
      /\ \/ Answered(w) /\ UNCHANGED rows /\ old' \subseteq old \cup {job[w]}
         \/ /\ conn[w] = "ok" /\ ~Stored(job[w])
            /\ rows' = Append(rows, [sub |-> job[w], tick |-> tick[w]])
            /\ pc' = [pc EXCEPT ![w] = "result"] /\ UNCHANGED <<job, slot, tick, old>>
  BY Zenon DEF Insert, AnswerOld
<1>2. tried' \subseteq Passed /\ tried \subseteq tried' /\ UNCHANGED alive
  BY <1>1 DEF IInv, WorkInv, WorkerFrame
<1>3. /\ WorkInv'
      /\ \A v \in Workers : pc'[v] = "cache" => /\ v # w /\ pc[v] = "cache"
                                                /\ slot'[v] = slot[v] /\ job'[v] = job[v]
  BY <1>1, <1>2, WorkerMoves
<1>4. ConnInv' /\ \A v \in Workers : conn'[v] = "ok" <=> conn[v] = "ok"
  BY <1>1, NoticedKeeps
<1>5. NoOverflow /\ ~resized => old' \subseteq tried
  <2>1. job[w] \in tried
    BY <1>1 DEF IInv, WorkInv
  <2> QED BY <1>1, <2>1 DEF IInv, MarksInv
<1>6. GameInv' /\ SizeInv' /\ MarksInv'
  BY <1>1, <1>3, <1>5, GameSame, WorkerSizes DEF IInv, WorkerFrame
<1>7. AckInv'
  <2>1. CASE Answered(w) /\ UNCHANGED rows
    <3>1. \A v \in Workers, z \in Submissions : Waiting(v, z)' => Waiting(v, z)
      BY <1>1, <1>4, <2>1, ServerAssumption DEF Waiting, Answered, IInv, WorkInv
    <3> QED BY <1>1, <2>1, <3>1 DEF IInv, AckInv, Stored, WorkerFrame
  <2>2. CASE /\ conn[w] = "ok" /\ ~Stored(job[w])
             /\ rows' = Append(rows, [sub |-> job[w], tick |-> tick[w]])
             /\ pc' = [pc EXCEPT ![w] = "result"] /\ UNCHANGED <<job, slot, tick, old>>
    <3> DEFINE s == job[w]
    <3>1. s \in Submissions /\ tick[w] \in Int
      BY <1>1 DEF IInv, WorkInv, Passed
    <3>2. PICK r : r = [sub |-> s, tick |-> tick[w]]
      OBVIOUS
    <3>3. r \in Row /\ r.sub = s
      BY <3>1, <3>2 DEF Row
    <3> HIDE DEF s
    <3>4. rows \in Seq(Row) /\ rows' = Append(rows, r)
      BY <2>2, <3>2 DEF IInv, AckInv, s
    <3>5. /\ rows' \in Seq(Row) /\ Len(rows') = Len(rows) + 1 /\ Len(rows) \in Nat
          /\ rows'[Len(rows) + 1] = r /\ \A i \in 1..Len(rows) : rows'[i] = rows[i]
      BY <3>3, <3>4
    <3>6. /\ \A i \in 1..Len(rows) : rows[i].sub # s
          /\ \A z \in Submissions : Stored(z)' <=> Stored(z) \/ z = s
      <4>1. \A i \in 1..Len(rows) : rows[i].sub # s
        BY <2>2 DEF Stored, s
      <4>2. ASSUME NEW z \in Submissions, Stored(z) \/ z = s PROVE Stored(z)'
        BY <3>3, <3>5, <4>2 DEF Stored
      <4>3. ASSUME NEW z \in Submissions, Stored(z)' PROVE Stored(z) \/ z = s
        BY <3>3, <3>5, <4>3 DEF Stored
      <4> QED BY <4>1, <4>2, <4>3
    <3>7. \A i, j \in 1..Len(rows') : rows'[i].sub = rows'[j].sub => i = j
      <4>1. \A i \in 1..Len(rows') : i \in 1..Len(rows) \/ i = Len(rows) + 1
        BY <3>5
      <4>2. \A i, j \in 1..Len(rows) : rows[i].sub = rows[j].sub => i = j
        BY DEF IInv, AckInv
      <4> QED BY <3>3, <3>5, <3>6, <4>1, <4>2
    <3>8. \A v \in Workers, z \in Submissions :
            Waiting(v, z)' => Waiting(v, z) \/ (v = w /\ z = s)
      BY <1>4, <2>2 DEF Waiting, IInv, WorkInv, s
    <3>9. ~Stored(s) /\ oks[s] <= losses[s] /\ \A v \in Workers : ~Waiting(v, s)
      <4>1. ~Stored(s)
        BY <2>2 DEF s
      <4> QED BY <3>1, <4>1 DEF IInv, AckInv
    <3>10. ASSUME NEW z \in Submissions
           PROVE  /\ oks[z] <= losses[z] + 1
                  /\ oks[z] > losses[z] => Stored(z)'
                  /\ \A v \in Workers : Waiting(v, z)' => Stored(z)' /\ oks[z] <= losses[z]
                  /\ \A u, v \in Workers : Waiting(u, z)' /\ Waiting(v, z)' => u = v
      BY <3>6, <3>8, <3>9 DEF IInv, AckInv
    <3>11. synced \in 0..Len(rows')
      BY <3>5 DEF IInv, AckInv
    <3> QED BY <1>1, <3>5, <3>7, <3>10, <3>11 DEF IInv, AckInv, WorkerFrame
  <2> QED BY <1>1, <2>1, <2>2
<1> QED BY <1>3, <1>4, <1>6, <1>7 DEF IInv

\* The result of the commit, if the connection holds.
LEMMA ResultKeeps == ASSUME IInv, NEW w \in Workers, Result(w), WorkerFrame PROVE IInv'
<1>1. /\ pc[w] = "result" /\ Answered(w) /\ Noticed(w) /\ UNCHANGED <<rows, cache, tried, old>>
      /\ oks' = IF conn[w] = "ok" THEN [oks EXCEPT ![job[w]] = @ + 1] ELSE oks
  BY DEF Result
<1>2. tried' \subseteq Passed /\ tried \subseteq tried' /\ UNCHANGED alive
  BY <1>1 DEF IInv, WorkInv, WorkerFrame
<1>3. /\ WorkInv'
      /\ \A v \in Workers : pc'[v] = "cache" => /\ v # w /\ pc[v] = "cache"
                                                /\ slot'[v] = slot[v] /\ job'[v] = job[v]
  BY <1>1, <1>2, WorkerMoves
<1>4. ConnInv' /\ \A v \in Workers : conn'[v] = "ok" <=> conn[v] = "ok"
  BY <1>1, NoticedKeeps
<1>5. GameInv' /\ SizeInv' /\ MarksInv'
  BY <1>1, <1>3, GameSame, WorkerSizes DEF IInv, MarksInv, WorkerFrame
<1>6. AckInv'
  <2>1. \A v \in Workers, z \in Submissions : Waiting(v, z)' => Waiting(v, z) /\ v # w
    BY <1>1, <1>4, ServerAssumption DEF Waiting, Answered, IInv, WorkInv
  <2>2. CASE conn[w] # "ok"
    BY <1>1, <2>1, <2>2 DEF IInv, AckInv, Stored, WorkerFrame
  <2>3. CASE conn[w] = "ok"
    <3> DEFINE s == job[w]
    <3>1. s \in Submissions /\ Waiting(w, s)
      BY <1>1, <2>3 DEF Waiting, IInv, WorkInv, Passed
    <3>2. Stored(s) /\ oks[s] <= losses[s] /\ \A v \in Workers : Waiting(v, s) => v = w
      BY <3>1 DEF IInv, AckInv
    <3>3. oks' = [oks EXCEPT ![s] = @ + 1] /\ oks \in [Submissions -> Nat] /\ losses \in [Submissions -> Nat]
      BY <1>1, <2>3 DEF IInv, AckInv
    <3> HIDE DEF s
    <3>4. ASSUME NEW z \in Submissions
          PROVE  /\ oks'[z] <= losses[z] + 1
                 /\ oks'[z] > losses[z] => Stored(z)
                 /\ \A v \in Workers : Waiting(v, z)' => Stored(z) /\ oks'[z] <= losses[z]
                 /\ \A u, v \in Workers : Waiting(u, z)' /\ Waiting(v, z)' => u = v
      <4>1. CASE z = s
        BY <2>1, <3>1, <3>2, <3>3, <4>1
      <4>2. CASE z # s
        BY <2>1, <3>1, <3>3, <4>2 DEF IInv, AckInv
      <4> QED BY <4>1, <4>2
    <3>5. oks' \in [Submissions -> Nat]
      BY <3>1, <3>3
    <3> QED BY <1>1, <3>4, <3>5 DEF IInv, AckInv, Stored, WorkerFrame
  <2> QED BY <2>2, <2>3
<1> QED BY <1>3, <1>4, <1>5, <1>6 DEF IInv

-----------------------------------------------------------------------------
(* The database.                                                           *)

\* One submission has one row at most, in any part of the table.
LEMMA OneRow ==
  ASSUME AckInv, NEW s \in Submissions, NEW I \in SUBSET (1..Len(rows))
  PROVE  Cardinality({i \in I : rows[i].sub = s}) = IF \E i \in I : rows[i].sub = s THEN 1 ELSE 0
<1> DEFINE S == {i \in I : rows[i].sub = s}
<1>1. Len(rows) \in Nat
  BY DEF AckInv
<1>2. CASE \E i \in I : rows[i].sub = s
  <2>1. PICK i \in I : rows[i].sub = s
    BY <1>2
  <2>2. ASSUME NEW j \in S PROVE j = i
    <3>1. i \in 1..Len(rows) /\ j \in 1..Len(rows) /\ rows[i].sub = rows[j].sub
      BY <1>1, <2>1
    <3> QED BY <3>1 DEF AckInv
  <2>3. S = {i}
    BY <2>1, <2>2
  <2> QED BY <1>2, <2>3, FS_Singleton
<1>3. CASE ~(\E i \in I : rows[i].sub = s)
  <2>1. S = {}
    BY <1>3
  <2> QED BY <1>3, <2>1, FS_EmptySet
<1> QED BY <1>2, <1>3

\* A crash takes rows back, and with them every connection.
LEMMA CrashKeeps ==
  ASSUME IInv, Crash, UNCHANGED <<game, view, alive, due, scored, teams, size, resizing, cache, pc, job,
                                  slot, tick, oks, tried, old, resized>>
  PROVE  IInv'
<1>1. PICK n \in synced..Len(rows) :
         /\ rows' = SubSeq(rows, 1, n)
         /\ losses' = [s \in Submissions |-> losses[s] +
                         Cardinality({i \in n + 1..Len(rows) : rows[i].sub = s})]
  BY DEF Crash
<1>2. /\ dbUp' = FALSE /\ UNCHANGED <<dbTeams, synced>>
      /\ conn' = [t \in Threads |-> IF conn[t] = "ok" THEN "bad" ELSE conn[t]]
  BY DEF Crash
<1>3. GameInv' /\ WorkInv' /\ SizeInv' /\ MarksInv'
  BY <1>2, GameSame, WorkSame, SizeSame, MarksSame DEF IInv
<1>4. ConnInv'
  <2>1. dbUp' \in BOOLEAN
    BY <1>2
  <2> QED BY <1>2, <2>1 DEF IInv, ConnInv
<1>5. AckInv'
  <2>1. rows \in Seq(Row) /\ Len(rows) \in Nat /\ synced \in Nat /\ n \in Nat /\ n <= Len(rows) /\ synced <= n
    BY <1>1 DEF IInv, AckInv
  <2>2. /\ rows' \in Seq(Row) /\ Len(rows') = n /\ \A i \in 1..n : rows'[i] = rows[i]
    BY <1>1, <2>1
  <2>3. \A v \in Workers, z \in Submissions : ~Waiting(v, z)'
    <3>1. Workers \subseteq Threads
      BY DEF Threads
    <3> QED BY <1>2, <3>1 DEF Waiting
  <2>4. ASSUME NEW z \in Submissions
        PROVE  losses'[z] = losses[z] + IF \E i \in n + 1..Len(rows) : rows[i].sub = z THEN 1 ELSE 0
    <3>1. n + 1..Len(rows) \in SUBSET (1..Len(rows))
      BY <2>1
    <3>2. Cardinality({i \in n + 1..Len(rows) : rows[i].sub = z})
            = IF \E i \in n + 1..Len(rows) : rows[i].sub = z THEN 1 ELSE 0
      BY <3>1, OneRow DEF IInv
    <3> QED BY <1>1, <3>2
  <2>5. losses' \in [Submissions -> Nat]
    <3>1. losses \in [Submissions -> Nat]
      BY DEF IInv, AckInv
    <3> DEFINE lost(z) == losses[z] + Cardinality({i \in n + 1..Len(rows) : rows[i].sub = z})
    <3>2. losses' = [z \in Submissions |-> lost(z)]
      BY <1>1
    <3>3. \A z \in Submissions : losses'[z] \in Nat
      BY <2>4, <3>1
    <3> HIDE DEF lost
    <3> QED BY <3>2, <3>3
  <2>6. ASSUME NEW z \in Submissions, Stored(z)
        PROVE  Stored(z)' \/ \E i \in n + 1..Len(rows) : rows[i].sub = z
    <3>1. PICK i \in 1..Len(rows) : rows[i].sub = z
      BY <2>6 DEF Stored
    <3>2. CASE i <= n
      BY <2>1, <2>2, <3>1, <3>2 DEF Stored
    <3>3. CASE i > n
      BY <2>1, <3>1, <3>3
    <3> QED BY <2>1, <3>1, <3>2, <3>3
  <2>7. ASSUME NEW z \in Submissions
        PROVE  oks[z] <= losses'[z] + 1 /\ (oks[z] > losses'[z] => Stored(z)')
    <3>1. /\ oks[z] \in Nat /\ losses[z] \in Nat /\ oks[z] <= losses[z] + 1
          /\ oks[z] > losses[z] => Stored(z)
      BY DEF IInv, AckInv
    <3>2. losses'[z] = losses[z] \/ losses'[z] = losses[z] + 1
      BY <2>4, <3>1
    <3> QED BY <2>4, <2>6, <3>1, <3>2
  <2>8. \A i, j \in 1..Len(rows') : rows'[i].sub = rows'[j].sub => i = j
    <3>1. \A i \in 1..n : i \in 1..Len(rows)
      BY <2>1
    <3> QED BY <2>2, <3>1 DEF IInv, AckInv
  <2>9. synced' \in 0..Len(rows')
    BY <1>2, <2>1, <2>2
  <2> QED BY <2>2, <2>3, <2>5, <2>7, <2>8, <2>9 DEF IInv, AckInv
<1> QED BY <1>3, <1>4, <1>5 DEF IInv

\* The database takes new teams, crashes and loses its unsynced tail, recovers.
LEMMA DatabaseKeeps == IInv /\ Database => IInv'
<1> SUFFICES ASSUME IInv, Database PROVE IInv'
  OBVIOUS
<1>1. UNCHANGED <<game, view, alive, due, scored, teams, size, resizing, cache, pc, job, slot, tick,
                  oks, tried, old, resized>>
  BY DEF Database, viewVars, scoreVars, memVars, workVars
<1>2. CASE Crash
  BY <1>1, <1>2, CrashKeeps
<1>3. CASE Recover
  <2>1. dbUp' = TRUE /\ ~dbUp /\ synced' = Len(rows) /\ UNCHANGED <<dbTeams, rows, losses, conn>>
    BY <1>3 DEF Recover
  <2>2. GameInv' /\ WorkInv' /\ SizeInv' /\ MarksInv'
    BY <1>1, <2>1, GameSame, WorkSame, SizeSame, MarksSame DEF IInv
  <2>3. ConnInv'
    <3>1. dbUp' \in BOOLEAN
      BY <2>1
    <3> QED BY <1>1, <2>1, <3>1 DEF IInv, ConnInv
  <2>4. AckInv'
    <3>1. synced' \in 0..Len(rows')
      BY <2>1 DEF IInv, AckInv
    <3> QED BY <1>1, <2>1, <3>1 DEF IInv, AckInv, Stored, Waiting
  <2> QED BY <2>2, <2>3, <2>4 DEF IInv
<1>4. CASE AddTeams
  <2>1. dbTeams' \in TeamCounts /\ UNCHANGED <<dbUp, rows, synced, losses, conn>>
    BY <1>4 DEF AddTeams
  <2>2. GameInv' /\ WorkInv' /\ ConnInv' /\ AckInv' /\ MarksInv'
    BY <1>1, <2>1, GameSame, WorkSame, ConnSame, AckSame, MarksSame DEF IInv
  <2>3. SizeInv'
    BY <1>1, <2>1 DEF IInv, SizeInv
  <2> QED BY <2>2, <2>3 DEF IInv
<1> QED BY <1>2, <1>3, <1>4 DEF Database

\* Every step keeps the invariant.
LEMMA IInvNext == IInv /\ [Next]_vars => IInv'
<1> SUFFICES ASSUME IInv, [Next]_vars PROVE IInv'
  OBVIOUS
<1>1. ASSUME NEW w \in Workers, WorkerStep(w) PROVE IInv'
  <2>1. WorkerFrame
    BY <1>1 DEF WorkerStep, WorkerFrame, viewVars, scoreVars
  <2> QED BY <1>1, <2>1, AskCacheKeeps, PrepareKeeps, InsertKeeps, ResultKeeps DEF WorkerStep
<1>2. ASSUME NEW w \in Workers, TakeLine(w) PROVE IInv'
  BY <1>2, TakeLineKeeps
<1>3. CASE UNCHANGED vars
  <2>1. UNCHANGED <<game, view, alive, due, scored, teams, size, resizing, cache, pc, job, slot, tick,
                    dbTeams, dbUp, rows, synced, oks, losses, tried, old, resized, conn>>
    BY <1>3 DEF vars, viewVars, scoreVars, memVars, workVars, dbVars, histVars
  <2> QED BY <2>1, GameSame, WorkSame, ConnSame, AckSame, SizeSame, MarksSame DEF IInv
<1> QED BY <1>1, <1>2, <1>3, StartKeeps, ExitKeeps, GameKeeps, CheckDatabaseKeeps, ResizeKeeps,
           DatabaseKeeps DEF Next

\* The inductive invariant holds.
LEMMA InductiveInvariant == Spec => []IInv
  BY InitIInv, IInvNext, PTL DEF Spec

-----------------------------------------------------------------------------
(* The theorems.                                                           *)

\* The types of the server's state, and what its parts always agree on.
THEOREM TypesKept == Spec => []TypeOK
<1>1. IInv => TypeOK
  <2> SUFFICES ASSUME IInv PROVE TypeOK
    OBVIOUS
  <2>1. due \subseteq 1..MaxRound /\ scored \subseteq Submissions /\ view.round \in -1..MaxRound
    BY DEF IInv, GameInv
  <2>2. ASSUME NEW w \in Workers
        PROVE  /\ pc[w] \in {"idle", "cache", "insert", "exec", "result"}
               /\ job[w] = NoVal <=> pc[w] = "idle"
               /\ tick[w] = NoVal <=> pc[w] \notin {"exec", "result"}
    BY ServerAssumption DEF IInv, WorkInv, Passed
  <2>3. synced \in 0..Len(rows)
    BY DEF IInv, AckInv
  <2>4. (\A t \in Threads : conn[t] = "ok" => dbUp) /\ (~alive => \A t \in Threads : conn[t] = "none")
    BY DEF IInv, ConnInv
  <2> QED BY <2>1, <2>2, <2>3, <2>4 DEF TypeOK
<1> QED BY InductiveInvariant, <1>1, PTL

\* No [OK] without a row of its own that is there, or was until a crash of the
\* database: two workers cannot both acknowledge one row, and a broken connection
\* acknowledges none (progress_flag, insertFlag).
THEOREM RowsAcknowledgedOnce == Spec => []AcknowledgedOnce
<1>1. IInv => AcknowledgedOnce
  <2> SUFFICES ASSUME IInv, NEW s \in Submissions
               PROVE  oks[s] <= Cardinality({i \in 1..Len(rows) : rows[i].sub = s}) + losses[s]
    BY DEF AcknowledgedOnce
  <2>1. Len(rows) \in Nat /\ AckInv
    BY DEF IInv, AckInv
  <2>2. Cardinality({i \in 1..Len(rows) : rows[i].sub = s}) = IF Stored(s) THEN 1 ELSE 0
    <3>1. Cardinality({i \in 1..Len(rows) : rows[i].sub = s})
            = IF \E i \in 1..Len(rows) : rows[i].sub = s THEN 1 ELSE 0
      BY <2>1, OneRow
    <3> QED BY <3>1 DEF Stored
  <2>3. /\ oks[s] \in Nat /\ losses[s] \in Nat /\ oks[s] <= losses[s] + 1
        /\ oks[s] > losses[s] => Stored(s)
    BY <2>1 DEF AckInv
  <2> QED BY <2>2, <2>3
<1> QED BY InductiveInvariant, <1>1, PTL

\* As long as no array's size exceeds 32 bits, an index computed for the cache is
\* within the array it is used on, though teams join and the array is replaced
\* meanwhile (checkFlag, resize).
THEOREM IndexInArray == ASSUME NoOverflow PROVE Spec => []SlotInArray
<1>1. IInv => SlotInArray
  <2> SUFFICES ASSUME IInv, NEW w \in Workers, pc[w] = "cache", slot[w] # NoVal, resizing = "no"
               PROVE  slot[w] \in 0..size - 1
    BY DEF SlotInArray
  <2>1. alive
    BY DEF IInv, WorkInv
  <2>2. size = Volume(teams) /\ slot[w] \in 0..Volume(teams) - 1
    BY <2>1, SizeIsVolume DEF IInv, SizeInv
  <2> QED BY <2>2
<1> QED BY InductiveInvariant, <1>1, PTL

\* Under the same condition, and until the array is replaced, no submission is
\* answered "already submitted" before it, itself, was tried: no two of them share a
\* slot and a key (checkFlag, cache_key).
THEOREM OldFlagsWereTried == ASSUME NoOverflow PROVE Spec => []OldWasTried
<1>1. IInv => OldWasTried
  BY DEF IInv, MarksInv, OldWasTried
<1> QED BY InductiveInvariant, <1>1, PTL

-----------------------------------------------------------------------------
(* The server and the game.                                                *)

\* The game and the process do in FlagServer what GameView lets them do.
LEMMA StepIsView == [Next]_vars => [ViewNext]_viewVars
<1> SUFFICES ASSUME [Next]_vars PROVE [ViewNext]_viewVars
  OBVIOUS
<1>1. CASE Start
  BY <1>1 DEF Start, ViewNext, Up
<1>2. CASE Exit
  BY <1>2 DEF Exit, Die, ViewNext, Down
<1>3. CASE Game
  <2>1. CASE StartGame /\ UNCHANGED view
    BY <1>3, <2>1 DEF Game, ViewNext
  <2>2. CASE (NextTick \/ Halt) /\ UNCHANGED view
    BY <1>3, <2>2 DEF Game, ViewNext
  <2>3. CASE UNCHANGED <<game, view>>
    BY <1>3, <2>3 DEF Game, viewVars
  <2>4. CASE (LearnState \/ LearnRound) /\ UNCHANGED game
    BY <1>3, <2>4 DEF Game, ViewNext
  <2> QED BY <1>3, <2>1, <2>2, <2>3, <2>4 DEF Game
<1>4. CASE CheckDatabase
  BY <1>4 DEF CheckDatabase, Die, ViewNext, Down, viewVars
<1>5. ASSUME NEW w \in Workers, TakeLine(w) \/ WorkerStep(w) PROVE UNCHANGED viewVars
  BY <1>5 DEF TakeLine, WorkerStep
<1>6. CASE Resize \/ Database \/ UNCHANGED vars
  BY <1>6 DEF Resize, Database, vars
<1> QED BY <1>1, <1>2, <1>3, <1>4, <1>5, <1>6 DEF Next

\* What the flag server lets happen between it and the game is GameView, which the
\* feed through Redis implements (GameFeedProofs): its assumption on the rest of the
\* gameserver is one that the rest of the gameserver keeps (redis.cpp, main.cpp).
THEOREM AssumesOnlyView == Spec => ViewSpec
<1>1. Init => ViewInit
  BY DEF Init
<1> QED BY <1>1, StepIsView, PTL DEF Spec, ViewSpec

\* Of ticks that have not begun nobody has read the round, and nothing is stored.
RowsOfBegunTicks == \A i \in 1..Len(rows) : rows[i].tick <= game.round
ReadOfBegunTicks == \A w \in Workers : tick[w] # NoVal => tick[w] <= game.round

\* Rounds only rise, whatever the game, the process and the view do.
LEMMA RoundRises == IInv /\ [Next]_vars => game'.round \in Nat /\ game.round <= game'.round
<1> SUFFICES ASSUME IInv, [ViewNext]_viewVars
             PROVE  game'.round \in Nat /\ game.round <= game'.round
  BY StepIsView
<1>1. /\ game \in [state : {"RUNNING", "STOPPED"} \cup Halts, round : 0..MaxRound]
      /\ game.round \in Nat
  BY ViewAssumption DEF IInv, GameInv
<1>2. CASE StartGame \/ NextTick
  BY <1>1, <1>2 DEF StartGame, NextTick
<1>3. CASE Halt
  BY <1>1, <1>3 DEF Halt
<1>4. CASE UNCHANGED game
  BY <1>1, <1>4
<1> QED BY <1>2, <1>3, <1>4 DEF ViewNext, viewVars

\* What a step may store or remember of a round is of the view, or there already.
LEMMA TicksAfter ==
  ASSUME IInv, [Next]_vars
  PROVE  /\ \A w \in Workers : tick'[w] \in {NoVal, tick[w], view.round}
         /\ \A i \in 1..Len(rows') :
              \/ i \in 1..Len(rows) /\ rows'[i] = rows[i]
              \/ \E w \in Workers : tick[w] # NoVal /\ rows'[i].tick = tick[w]
<1>1. /\ tick \in [Workers -> Int \cup {NoVal}] /\ rows \in Seq(Row)
      /\ \A w \in Workers : tick[w] = NoVal <=> pc[w] \notin {"exec", "result"}
  BY DEF IInv, WorkInv, AckInv
<1>2. CASE UNCHANGED <<tick, rows>>
  BY <1>1, <1>2
<1>3. CASE (\A w \in Workers : tick'[w] = NoVal) /\ UNCHANGED rows
  BY <1>1, <1>3
<1>4. CASE Crash /\ UNCHANGED tick
  <2>1. PICK n \in synced..Len(rows) : rows' = SubSeq(rows, 1, n)
    BY <1>4 DEF Crash
  <2>2. synced \in Nat /\ Len(rows) \in Nat
    BY DEF IInv, AckInv
  <2>3. Len(rows') = n /\ n \in 0..Len(rows) /\ \A i \in 1..n : rows'[i] = rows[i]
    BY <1>1, <2>1, <2>2
  <2> QED BY <1>1, <1>4, <2>3
<1>5. ASSUME NEW w \in Workers, AskCache(w) \/ Prepare(w) \/ Insert(w) \/ Result(w)
      PROVE  /\ \A v \in Workers : tick'[v] \in {NoVal, tick[v], view.round}
             /\ \A i \in 1..Len(rows') :
                  \/ i \in 1..Len(rows) /\ rows'[i] = rows[i]
                  \/ \E v \in Workers : tick[v] # NoVal /\ rows'[i].tick = tick[v]
  <2>1. \A v \in Workers : tick'[v] \in {NoVal, tick[v], view.round}
    BY <1>1, <1>5 DEF AskCache, AnswerOld, Answered, Prepare, Insert, Result
  <2>2. CASE UNCHANGED rows
    BY <1>1, <2>1, <2>2
  <2>3. CASE rows' = Append(rows, [sub |-> job[w], tick |-> tick[w]]) /\ pc[w] = "exec"
    <3> DEFINE new == [sub |-> job[w], tick |-> tick[w]]
    <3>1. tick[w] # NoVal
      BY <1>1, <2>3
    <3>2. /\ Len(rows') = Len(rows) + 1 /\ rows'[Len(rows) + 1] = new /\ Len(rows) \in Nat
          /\ \A i \in 1..Len(rows) : rows'[i] = rows[i]
      BY <1>1, <2>3
    <3>3. new.tick = tick[w]
      OBVIOUS
    <3> HIDE DEF new
    <3>4. ASSUME NEW i \in 1..Len(rows')
          PROVE  \/ i \in 1..Len(rows) /\ rows'[i] = rows[i]
                 \/ \E v \in Workers : tick[v] # NoVal /\ rows'[i].tick = tick[v]
      <4>1. CASE i = Len(rows) + 1
        BY <3>1, <3>2, <3>3, <4>1
      <4>2. CASE i # Len(rows) + 1
        <5>1. i \in 1..Len(rows)
          BY <3>2, <4>2
        <5> QED BY <3>2, <5>1
      <4> QED BY <4>1, <4>2
    <3> QED BY <2>1, <3>4
  <2> QED BY <1>5, <2>2, <2>3 DEF AskCache, Prepare, Insert, Result
<1>6. CASE Exit
  BY <1>3, <1>6 DEF Exit, Die, dbVars
<1>7. CASE CheckDatabase
  <2>1. UNCHANGED rows /\ (Die \/ UNCHANGED workVars)
    BY <1>7 DEF CheckDatabase, dbVars
  <2> QED BY <1>2, <1>3, <2>1 DEF Die, workVars
<1>8. CASE Start \/ Game \/ Resize \/ (\E w \in Workers : TakeLine(w)) \/ UNCHANGED vars
  <2>1. UNCHANGED <<tick, rows>>
    BY <1>8 DEF Start, Game, Resize, TakeLine, Check, vars, workVars, dbVars
  <2> QED BY <1>2, <2>1
<1>9. CASE Database
  BY <1>2, <1>4, <1>9 DEF Database, Recover, AddTeams, workVars
<1> QED BY <1>5, <1>6, <1>7, <1>8, <1>9 DEF Next, WorkerStep

\* No flag is filed under a tick that is yet to come, so none waits for a scoring
\* that is not its own: whatever Redis delivers late or twice, and however long a
\* worker takes between reading the round and its INSERT (insertFlag, redis.cpp).
THEOREM RowsAreOfBegunTicks == Spec => []RowsOfBegunTicks
<1> DEFINE TickInv == RowsOfBegunTicks /\ ReadOfBegunTicks
<1>1. Init => TickInv
  BY DEF Init, RowsOfBegunTicks, ReadOfBegunTicks
<1>2. IInv /\ TickInv /\ [Next]_vars => TickInv'
  <2> SUFFICES ASSUME IInv, TickInv, [Next]_vars PROVE TickInv'
    OBVIOUS
  <2>1. /\ game.round \in Nat /\ game'.round \in Nat /\ game.round <= game'.round
        /\ view.round \in Int /\ view.round <= game.round
    BY RoundRises, ViewAssumption DEF IInv, GameInv
  <2>2. /\ \A w \in Workers : tick[w] # NoVal => tick[w] \in Int /\ tick[w] <= game.round
        /\ \A i \in 1..Len(rows) : rows[i].tick \in Int /\ rows[i].tick <= game.round
    BY RowTypes DEF IInv, WorkInv, RowsOfBegunTicks, ReadOfBegunTicks
  <2>3. ReadOfBegunTicks'
    BY <2>1, <2>2, TicksAfter DEF ReadOfBegunTicks
  <2>4. RowsOfBegunTicks'
    BY <2>1, <2>2, TicksAfter DEF RowsOfBegunTicks
  <2> QED BY <2>3, <2>4
<1> QED BY <1>1, <1>2, InitIInv, IInvNext, PTL DEF Spec
=============================================================================

--------------------------- MODULE CheckRunProofs ---------------------------
(***************************************************************************)
(* Proofs about VaultGrid and CheckRun: what the index names is kept, what *)
(* the platform has stored for the vault's own variant is served, and a    *)
(* status is earned, for any number of ticks, variants, threads, runs and  *)
(* faults.                                                                 *)
(***************************************************************************)
EXTENDS CheckRun, FiniteSetTheorems, TLAPS

FlagObject(t) == [kind |-> "flag", tick |-> t, variant |-> 0, n |-> 0]
FlagRecord(t, v, i) == [kind |-> "flag", tick |-> t, variant |-> v, n |-> i]
FlagRecords(t, v) == {r \in records : r.kind = "flag" /\ r.tick = t /\ r.variant = v}

\* The records of a tick's variant are numbered 1, 2, 3, ...: a new one is unlike
\* those before it, and what a thread has just stored is there to be named.
Numbered ==
  \A t \in Ticks, v \in Variants :
    LET R == FlagRecords(t, v) IN
    /\ IsFiniteSet(R)
    /\ \A i \in 1..Cardinality(R) : FlagRecord(t, v, i) \in records
    /\ \A r \in R : r.n \in 1..Cardinality(R)

\* A thread between two commits has left behind what its next one refers to.
ThreadInv ==
  \A s \in Slots :
    /\ thread[s].pc # "free" => alive
    /\ thread[s].pc = "indexing" =>
         /\ thread[s].req.method = "PUTFLAG" /\ thread[s].req.variant = 0
         /\ FlagObject(thread[s].req.tick) \in objectRows \cap objects
    /\ thread[s].pc \in {"asking", "stored"} =>
         thread[s].req.variant # 0 /\ thread[s].req.method # "HAVOC"
    /\ thread[s].pc = "stored" /\ thread[s].req.method = "PUTFLAG" =>
         FlagRecords(thread[s].req.tick, thread[s].req.variant) # {}

VaultInv == VaultTypeOK /\ Numbered /\ ThreadInv /\ IndexedIsKept

Working(s) == thread[s].pc \in {"queued", "indexing", "asking", "stored"}

\* What a step of the daemon may do to the index and to a thread: the index only
\* gains, and a PUTFLAG of the vault's own variant is answered OK only with its
\* row in the index.
Progress(s) ==
  \/ thread'[s] = thread[s]
  \/ thread'[s] = Idle
  \/ /\ Working(s) /\ thread'[s].pc \in {"indexing", "asking", "stored"}
     /\ thread'[s].req = thread[s].req /\ thread'[s].awaited = thread[s].awaited
  \/ /\ Working(s) /\ thread[s].awaited /\ thread'[s].pc = "done"
     /\ thread'[s].answer = "OK" /\ thread[s].req.method = "PUTFLAG"
          /\ thread[s].req.variant = 0 =>
            flagIndex'[<<thread[s].req.tick, 0>>] # NoRef

Promise ==
  /\ \A t \in Ticks, v \in Variants : flagIndex[<<t, v>>] # NoRef => flagIndex'[<<t, v>>] # NoRef
  /\ \A s \in Slots : Progress(s)

-----------------------------------------------------------------------------
(* The daemon.                                                             *)

\* A thread at work has a request, and all of its fields are typed.
LEMMA ThreadShape ==
  ASSUME VaultTypeOK, NEW s \in Slots
  PROVE  /\ thread[s] \in Thread
         /\ Working(s) => /\ thread[s].req \in Request /\ thread[s].awaited \in BOOLEAN
                          /\ thread[s].req.method \in Methods
                          /\ thread[s].req.tick \in Ticks
                          /\ thread[s].req.method # "HAVOC" => thread[s].req.variant \in Variants
                          /\ thread[s].req.variant \in Nat
         /\ thread[s].pc \in {"free", "queued", "indexing", "asking", "stored", "done"}
         /\ thread[s].pc = "done" => thread[s].answer \in {"OK", "MUMBLE", "HTTP500"}
<1>1. thread[s] \in Thread
  BY DEF VaultTypeOK
<1>2. CASE thread[s] = Idle
  BY <1>1, <1>2 DEF Idle, Working
<1>3. CASE thread[s] \in [pc : {"queued", "indexing", "asking", "stored"}, req : Request,
                          awaited : BOOLEAN]
  BY <1>1, <1>3, VaultAssumption DEF Request, Working, Variants, HavocVariants, Methods
<1>4. CASE thread[s] \in [pc : {"done"}, answer : {"OK", "MUMBLE", "HTTP500"}]
  BY <1>1, <1>4 DEF Working
<1> QED BY <1>1, <1>2, <1>3, <1>4 DEF Thread

\* Objects are typed, and noise is never taken for a flag.
LEMMA ObjectShape ==
  ASSUME NEW req \in Request, req.method # "HAVOC"
  PROVE  /\ ObjectOf(req) \in Item
         /\ req.method = "PUTFLAG" => ObjectOf(req) = FlagObject(req.tick)
<1>1. 0 \in Variants
  BY VaultAssumption DEF Request, Variants
<1> QED BY <1>1 DEF Request, ObjectOf, Item, Kind, Kinds, FlagObject

\* An answer ends the work of a thread, and leaves the others alone.
LEMMA AnswerShape ==
  ASSUME VaultTypeOK, NEW s \in Slots, Working(s),
         NEW a \in {"OK", "MUMBLE", "HTTP500"}, Answers(s, a)
  PROVE  /\ thread' \in [Slots -> Thread] /\ mutex' \in Slots \cup {NoSlot}
         /\ \A u \in Slots \ {s} : thread'[u] = thread[u]
         /\ \/ thread'[s] = Idle
            \/ thread[s].awaited /\ thread'[s] = [pc |-> "done", answer |-> a]
<1>1. [pc |-> "done", answer |-> a] \in Thread /\ Idle \in Thread
  BY DEF Thread
<1> QED BY <1>1 DEF Answers, VaultTypeOK

\* Nor does a thread that goes on disturb another's.
LEMMA GoesShape ==
  ASSUME VaultTypeOK, NEW s \in Slots, Working(s),
         NEW pc \in {"indexing", "asking", "stored"}, Goes(s, pc)
  PROVE  /\ thread' \in [Slots -> Thread]
         /\ \A u \in Slots \ {s} : thread'[u] = thread[u]
         /\ thread'[s].pc = pc /\ thread'[s].req = thread[s].req
         /\ thread'[s].awaited = thread[s].awaited
<1>1. thread[s] \in [pc : {"queued", "indexing", "asking", "stored"}, req : Request,
                     awaited : BOOLEAN]
  BY DEF VaultTypeOK, Thread, Idle, Working
<1>2. [thread[s] EXCEPT !.pc = pc] \in [pc : {"queued", "indexing", "asking", "stored"},
                                        req : Request, awaited : BOOLEAN]
  BY <1>1
<1>3. thread' = [thread EXCEPT ![s] = [thread[s] EXCEPT !.pc = pc]]
  BY DEF Goes
<1>4. [thread[s] EXCEPT !.pc = pc] \in Thread
  BY <1>2 DEF Thread
<1> QED BY <1>1, <1>3, <1>4 DEF VaultTypeOK

\* While the tables, the records and the index stay and objects are not lost, a
\* thread's answer is all that matters.
LEMMA AnswerKeeps ==
  ASSUME VaultInv, NEW s \in Slots, Working(s),
         NEW a \in {"OK", "MUMBLE", "HTTP500"}, Answers(s, a),
         UNCHANGED <<alive, objectRows, flagIndex, records>>,
         objects \subseteq objects', objects' \subseteq Item, faults' \in 0..MaxFaults,
         a = "OK" => thread[s].req.variant # 0 \/ thread[s].req.method # "PUTFLAG"
  PROVE  VaultInv' /\ Promise
<1>1. /\ thread' \in [Slots -> Thread] /\ mutex' \in Slots \cup {NoSlot}
      /\ \A u \in Slots \ {s} : thread'[u] = thread[u]
      /\ \/ thread'[s] = Idle
         \/ thread[s].awaited /\ thread'[s] = [pc |-> "done", answer |-> a]
  BY AnswerShape DEF VaultInv
<1>2. VaultTypeOK'
  BY <1>1 DEF VaultInv, VaultTypeOK
<1>3. Numbered'
  BY DEF VaultInv, Numbered, FlagRecords
<1>4. ThreadInv'
  <2>1. thread'[s].pc \in {"free", "done"} /\ alive
    BY <1>1 DEF Idle, VaultInv, ThreadInv, Working
  <2> QED BY <1>1, <2>1 DEF VaultInv, ThreadInv, FlagRecords
<1>5. IndexedIsKept'
  BY DEF VaultInv, IndexedIsKept
<1>6. Promise
  <2>1. Progress(s)
    BY <1>1 DEF Progress
  <2>2. \A u \in Slots \ {s} : Progress(u)
    BY <1>1 DEF Progress
  <2> QED BY <2>1, <2>2 DEF Promise
<1> QED BY <1>2, <1>3, <1>4, <1>5, <1>6 DEF VaultInv

\* put_flag_vault: the object goes into memory and its table before the mutex is
\* given to the statement that names it (state.cpp).
LEMMA PutVaultKeeps ==
  ASSUME VaultInv, NEW s \in Slots, PutVault(s)
  PROVE  VaultInv' /\ Promise
<1> DEFINE req == thread[s].req
<1>1. /\ Working(s) /\ req.method = "PUTFLAG" /\ req.variant = 0
      /\ req \in Request /\ req.tick \in Ticks
  BY ThreadShape DEF PutVault, Takes, Working, VaultInv
<1>2. /\ thread' \in [Slots -> Thread]
      /\ \A u \in Slots \ {s} : thread'[u] = thread[u]
      /\ thread'[s].pc = "indexing" /\ thread'[s].req = req
      /\ thread'[s].awaited = thread[s].awaited
  BY <1>1, GoesShape DEF PutVault, VaultInv
<1>3. /\ objects' = objects \cup {FlagObject(req.tick)}
      /\ objectRows' = objectRows \cup {FlagObject(req.tick)}
      /\ FlagObject(req.tick) \in Item
      /\ mutex' = s /\ UNCHANGED <<alive, flagIndex, records, faults>>
  BY <1>1, ObjectShape DEF PutVault
<1> HIDE DEF req
<1>4. VaultTypeOK'
  BY <1>2, <1>3 DEF VaultInv, VaultTypeOK
<1>5. Numbered'
  BY <1>3 DEF VaultInv, Numbered, FlagRecords
<1>6. alive
  BY <1>1 DEF VaultInv, ThreadInv, Working
<1>7. ThreadInv'
  BY <1>1, <1>2, <1>3, <1>6 DEF VaultInv, ThreadInv, FlagRecords
<1>8. IndexedIsKept'
  BY <1>3 DEF VaultInv, IndexedIsKept
<1>9. Promise
  BY <1>1, <1>2, <1>3 DEF Promise, Progress, req
<1> QED BY <1>4, <1>5, <1>7, <1>8, <1>9 DEF VaultInv

\* ... and only then is it named in the index, and the flag taken (state.cpp).
LEMMA IndexVaultKeeps ==
  ASSUME VaultInv, NEW s \in Slots, IndexVault(s)
  PROVE  VaultInv' /\ Promise
<1> DEFINE t == thread[s].req.tick
<1>1. /\ Working(s) /\ t \in Ticks /\ 0 \in Variants /\ thread[s].req.variant = 0
      /\ FlagObject(t) \in objectRows \cap objects
  BY ThreadShape DEF IndexVault, Working, VaultInv, ThreadInv
<1>2. /\ thread' \in [Slots -> Thread] /\ mutex' \in Slots \cup {NoSlot}
      /\ \A u \in Slots \ {s} : thread'[u] = thread[u]
      /\ \/ thread'[s] = Idle
         \/ thread[s].awaited /\ thread'[s] = [pc |-> "done", answer |-> "OK"]
  BY <1>1, AnswerShape DEF IndexVault, VaultInv
<1>3. /\ flagIndex' = [flagIndex EXCEPT ![<<t, 0>>] = 0]
      /\ UNCHANGED <<alive, objects, objectRows, records, faults>>
  BY DEF IndexVault
<1> HIDE DEF t
<1>4. /\ flagIndex \in [Ticks \X Variants -> Nat \cup {NoRef}]
      /\ <<t, 0>> \in Ticks \X Variants
  BY <1>1 DEF VaultInv, VaultTypeOK
<1>5. /\ flagIndex' \in [Ticks \X Variants -> Nat \cup {NoRef}]
      /\ flagIndex'[<<t, 0>>] = 0
      /\ \A u \in Ticks, v \in Variants :
           <<u, v>> # <<t, 0>> => flagIndex'[<<u, v>>] = flagIndex[<<u, v>>]
  BY <1>3, <1>4
<1>6. VaultTypeOK'
  BY <1>2, <1>3, <1>5 DEF VaultInv, VaultTypeOK
<1>7. Numbered'
  BY <1>3 DEF VaultInv, Numbered, FlagRecords
<1>8. ThreadInv'
  <2>1. thread'[s].pc \in {"free", "done"} /\ alive
    BY <1>1, <1>2 DEF Idle, VaultInv, ThreadInv, Working
  <2> QED BY <1>2, <1>3, <2>1 DEF VaultInv, ThreadInv, FlagRecords
<1>9. IndexedIsKept'
  <2> SUFFICES ASSUME NEW u \in Ticks, NEW v \in Variants, flagIndex'[<<u, v>>] # NoRef
               PROVE  IF v = 0
                      THEN FlagObject(u) \in objectRows' /\ (alive' => FlagObject(u) \in objects')
                      ELSE FlagRecord(u, v, flagIndex'[<<u, v>>]) \in records'
    BY DEF IndexedIsKept, FlagObject, FlagRecord
  <2>1. CASE u = t /\ v = 0
    BY <1>1, <1>3, <2>1
  <2>2. CASE ~(u = t /\ v = 0)
    BY <1>3, <1>5, <2>2 DEF VaultInv, IndexedIsKept, FlagObject, FlagRecord
  <2> QED BY <2>1, <2>2
<1>10. Promise
  <2>1. Progress(s)
    BY <1>1, <1>2, <1>5, VaultAssumption DEF Progress, t
  <2>2. \A u \in Slots \ {s} : Progress(u)
    BY <1>2 DEF Progress
  <2> QED BY <1>5, <2>1, <2>2, VaultAssumption DEF Promise
<1> QED BY <1>6, <1>7, <1>8, <1>9, <1>10 DEF VaultInv

\* A request with a sidecar is never one for the vault's own index.
LEMMA AskSidecarKeeps ==
  ASSUME VaultInv, NEW s \in Slots, AskSidecar(s)
  PROVE  VaultInv' /\ Promise
<1> DEFINE req == thread[s].req
<1>1. /\ Working(s) /\ req \in Request /\ req.variant # 0 /\ req.method # "HAVOC"
      /\ UNCHANGED <<alive, objects, objectRows, flagIndex, records, faults>>
      /\ faults \in 0..MaxFaults /\ objects \subseteq Item
  BY ThreadShape DEF AskSidecar, Takes, Working, VaultInv, VaultTypeOK
<1>2. CASE Answers(s, "MUMBLE")
  BY <1>1, <1>2, AnswerKeeps
<1>3. CASE Goes(s, "asking") /\ mutex' = s
  <2>1. /\ thread' \in [Slots -> Thread]
        /\ \A u \in Slots \ {s} : thread'[u] = thread[u]
        /\ thread'[s].pc = "asking" /\ thread'[s].req = req
        /\ thread'[s].awaited = thread[s].awaited
    BY <1>1, <1>3, GoesShape DEF VaultInv
  <2> HIDE DEF req
  <2>2. VaultTypeOK'
    BY <1>1, <1>3, <2>1 DEF VaultInv, VaultTypeOK
  <2>3. Numbered' /\ IndexedIsKept'
    BY <1>1 DEF VaultInv, Numbered, FlagRecords, IndexedIsKept
  <2>4. ThreadInv'
    <3>1. alive
      BY <1>1 DEF VaultInv, ThreadInv, Working
    <3> QED BY <1>1, <2>1, <3>1 DEF VaultInv, ThreadInv, FlagRecords
  <2>5. Promise
    BY <1>1, <2>1 DEF Promise, Progress, req
  <2> QED BY <2>2, <2>3, <2>4, <2>5 DEF VaultInv
<1> QED BY <1>2, <1>3 DEF AskSidecar

\* A record a sidecar stores is one more of its tick's variant, or a noise.
LEMMA SidecarStoresKeeps ==
  ASSUME VaultInv, NEW s \in Slots, SidecarStores(s)
  PROVE  VaultInv' /\ Promise
<1> DEFINE req == thread[s].req
           new == FreshRecord(req)
<1>1. /\ Working(s) /\ req \in Request /\ req.variant # 0 /\ req.method \in {"PUTFLAG", "PUTNOISE"}
      /\ req.tick \in Ticks /\ req.variant \in Variants
      /\ UNCHANGED <<alive, objects, objectRows, flagIndex, mutex, faults>>
      /\ records' = records \cup {new}
  BY ThreadShape DEF SidecarStores, Working, VaultInv, ThreadInv
<1>2. /\ thread' \in [Slots -> Thread]
      /\ \A u \in Slots \ {s} : thread'[u] = thread[u]
      /\ thread'[s].pc = "stored" /\ thread'[s].req = req
      /\ thread'[s].awaited = thread[s].awaited
  BY <1>1, GoesShape DEF SidecarStores, VaultInv
<1>3. LET R == FlagRecords(req.tick, req.variant) IN
        /\ IsFiniteSet(R) /\ Cardinality(R) \in Nat
        /\ \A i \in 1..Cardinality(R) : FlagRecord(req.tick, req.variant, i) \in records
        /\ \A r \in R : r.n \in 1..Cardinality(R)
  BY <1>1, FS_CardinalityType DEF VaultInv, Numbered
<1>4. /\ new.n \in Nat /\ new.kind = Kind(req) /\ new.tick = req.tick
      /\ new.variant = req.variant /\ new \in Item
      /\ req.method = "PUTFLAG" =>
           new = FlagRecord(req.tick, req.variant, 1 + Cardinality(FlagRecords(req.tick, req.variant)))
  BY <1>1, <1>3 DEF FreshRecord, FlagRecords, FlagRecord, Kind, Kinds, Item
<1>5. req.method = "PUTNOISE" => new.kind = "noise"
  BY <1>4 DEF Kind
<1> HIDE DEF req, new
<1>6. VaultTypeOK'
  BY <1>1, <1>2, <1>4 DEF VaultInv, VaultTypeOK
<1>7. Numbered'
  <2> SUFFICES ASSUME NEW t \in Ticks, NEW v \in Variants
               PROVE  /\ IsFiniteSet(FlagRecords(t, v)')
                      /\ \A i \in 1..Cardinality(FlagRecords(t, v)') :
                           FlagRecord(t, v, i) \in records'
                      /\ \A r \in FlagRecords(t, v)' : r.n \in 1..Cardinality(FlagRecords(t, v)')
    BY DEF Numbered
  <2>1. CASE req.method = "PUTFLAG" /\ t = req.tick /\ v = req.variant
    <3> DEFINE R == FlagRecords(t, v)
    <3>1. FlagRecords(t, v)' = R \cup {new}
      BY <1>1, <1>4, <2>1 DEF FlagRecords, FlagRecord
    <3>2. new \notin R
      BY <1>3, <1>4, <2>1 DEF FlagRecord
    <3>3. /\ IsFiniteSet(R \cup {new}) /\ Cardinality(R \cup {new}) = Cardinality(R) + 1
      BY <1>3, <2>1, <3>2, FS_AddElement
    <3>4. new = FlagRecord(t, v, Cardinality(R) + 1) /\ new \in records'
      BY <1>1, <1>3, <1>4, <2>1
    <3>5. \A i \in 1..Cardinality(R) + 1 : FlagRecord(t, v, i) \in records'
      BY <1>1, <1>3, <2>1, <3>4
    <3>6. \A r \in R \cup {new} : r.n \in 1..Cardinality(R) + 1
      BY <1>3, <2>1, <3>4 DEF FlagRecord
    <3> QED BY <3>1, <3>3, <3>5, <3>6
  <2>2. CASE ~(req.method = "PUTFLAG" /\ t = req.tick /\ v = req.variant)
    <3>1. FlagRecords(t, v)' = FlagRecords(t, v)
      BY <1>1, <1>4, <1>5, <2>2 DEF FlagRecords
    <3> QED BY <1>1, <3>1 DEF VaultInv, Numbered
  <2> QED BY <2>1, <2>2
<1>8. ThreadInv'
  <2>1. \A t \in Ticks, v \in Variants : FlagRecords(t, v) \subseteq FlagRecords(t, v)'
    BY <1>1 DEF FlagRecords
  <2>2. ASSUME NEW t \in Ticks, NEW v \in Variants, req.method = "PUTFLAG",
               t = req.tick, v = req.variant
        PROVE  FlagRecords(t, v)' # {}
    <3>1. new \in FlagRecords(t, v)'
      BY <1>1, <1>4, <2>2 DEF FlagRecords, FlagRecord
    <3> QED BY <3>1
  <2>3. ASSUME NEW u \in Slots \ {s}, thread[u].pc = "stored",
               thread[u].req.method = "PUTFLAG"
        PROVE  thread[u].req.tick \in Ticks /\ thread[u].req.variant \in Variants
    BY <2>3, ThreadShape DEF VaultInv, Working
  <2>4. ASSUME NEW u \in Slots, thread'[u].pc = "stored", thread'[u].req.method = "PUTFLAG",
               NEW t, t = thread'[u].req.tick, NEW v, v = thread'[u].req.variant
        PROVE  FlagRecords(t, v)' # {}
    <3>1. CASE u = s
      BY <1>1, <1>2, <2>2, <2>4, <3>1
    <3>2. CASE u # s
      <4>1. /\ thread[u].pc = "stored" /\ thread[u].req.method = "PUTFLAG"
            /\ t = thread[u].req.tick /\ v = thread[u].req.variant
        BY <1>2, <2>4, <3>2
      <4>2. FlagRecords(t, v) # {}
        BY <4>1 DEF VaultInv, ThreadInv
      <4> QED BY <2>1, <2>3, <3>2, <4>1, <4>2
    <3> QED BY <3>1, <3>2
  <2>5. alive'
    BY <1>1 DEF VaultInv, ThreadInv, Working
  <2> QED BY <1>1, <1>2, <2>4, <2>5 DEF VaultInv, ThreadInv
<1>9. IndexedIsKept'
  BY <1>1 DEF VaultInv, IndexedIsKept
<1>10. Promise
  BY <1>1, <1>2 DEF Promise, Progress, req
<1> QED BY <1>6, <1>7, <1>8, <1>9, <1>10 DEF VaultInv

\* What is put into the index then is the number of the last record of its tick's
\* variant, and there is one: the sidecar has stored before it confirms.
LEMMA SidecarConfirmsKeeps ==
  ASSUME VaultInv, NEW s \in Slots, SidecarConfirms(s)
  PROVE  VaultInv' /\ Promise
<1> DEFINE req == thread[s].req
           k == Cardinality(FlagRecords(req.tick, req.variant))
<1>1. /\ Working(s) /\ req \in Request /\ req.variant # 0 /\ thread[s].pc = "stored"
      /\ req.tick \in Ticks /\ req.variant \in Variants
      /\ UNCHANGED <<alive, objects, objectRows, records, faults>>
      /\ faults \in 0..MaxFaults /\ objects \subseteq Item /\ Answers(s, "OK")
  BY ThreadShape DEF SidecarConfirms, Working, VaultInv, VaultTypeOK, ThreadInv
<1>2. CASE req.method # "PUTFLAG"
  <2>1. flagIndex' = flagIndex
    BY <1>2 DEF SidecarConfirms
  <2> QED BY <1>1, <2>1, AnswerKeeps
<1>3. CASE req.method = "PUTFLAG"
  <2>1. k \in Nat /\ k # 0 /\ FlagRecord(req.tick, req.variant, k) \in records
    <3>1. IsFiniteSet(FlagRecords(req.tick, req.variant))
      BY <1>1 DEF VaultInv, Numbered
    <3>2. FlagRecords(req.tick, req.variant) # {}
      BY <1>1, <1>3 DEF VaultInv, ThreadInv
    <3>3. k \in Nat /\ k # 0
      BY <3>1, <3>2, FS_CardinalityType, FS_EmptySet
    <3>4. k \in 1..k
      BY <3>3
    <3> QED BY <1>1, <3>3, <3>4 DEF VaultInv, Numbered
  <2>2. flagIndex' = [flagIndex EXCEPT ![<<req.tick, req.variant>>] = k]
    <3>1. FreshRecord(req).n = 1 + k
      BY <1>3 DEF FreshRecord, Kind, FlagRecords
    <3>2. FreshRecord(req).n - 1 = k
      BY <2>1, <3>1
    <3> QED BY <1>3, <3>2 DEF SidecarConfirms
  <2>3. /\ thread' \in [Slots -> Thread] /\ mutex' \in Slots \cup {NoSlot}
        /\ \A u \in Slots \ {s} : thread'[u] = thread[u]
        /\ \/ thread'[s] = Idle
           \/ thread[s].awaited /\ thread'[s] = [pc |-> "done", answer |-> "OK"]
    BY <1>1, AnswerShape DEF VaultInv
  <2>4. thread[s].req.variant # 0
    BY <1>1
  <2> HIDE DEF req, k
  <2>5. /\ flagIndex \in [Ticks \X Variants -> Nat \cup {NoRef}]
        /\ <<req.tick, req.variant>> \in Ticks \X Variants
    BY <1>1 DEF VaultInv, VaultTypeOK
  <2>6. /\ flagIndex' \in [Ticks \X Variants -> Nat \cup {NoRef}]
        /\ flagIndex'[<<req.tick, req.variant>>] = k
        /\ \A t \in Ticks, v \in Variants :
             ~(t = req.tick /\ v = req.variant) => flagIndex'[<<t, v>>] = flagIndex[<<t, v>>]
    BY <2>1, <2>2, <2>5
  <2>7. VaultTypeOK'
    BY <1>1, <2>3, <2>6 DEF VaultInv, VaultTypeOK
  <2>8. Numbered'
    BY <1>1 DEF VaultInv, Numbered, FlagRecords
  <2>9. ThreadInv'
    <3>1. thread'[s].pc \in {"free", "done"}
      BY <2>3 DEF Idle
    <3> QED BY <1>1, <2>3, <3>1 DEF VaultInv, ThreadInv, FlagRecords
  <2>10. IndexedIsKept'
    <3> SUFFICES ASSUME NEW t \in Ticks, NEW v \in Variants, flagIndex'[<<t, v>>] # NoRef
                 PROVE  IF v = 0
                        THEN FlagObject(t) \in objectRows' /\ (alive' => FlagObject(t) \in objects')
                        ELSE FlagRecord(t, v, flagIndex'[<<t, v>>]) \in records'
      BY DEF IndexedIsKept, FlagObject, FlagRecord
    <3>1. CASE t = req.tick /\ v = req.variant
      BY <1>1, <2>1, <2>6, <3>1
    <3>2. CASE ~(t = req.tick /\ v = req.variant)
      BY <1>1, <2>6, <3>2 DEF VaultInv, IndexedIsKept, FlagObject, FlagRecord
    <3> QED BY <3>1, <3>2
  <2>11. Promise
    <3>1. Progress(s)
      BY <1>1, <2>3, <2>4 DEF Progress
    <3>2. \A u \in Slots \ {s} : Progress(u)
      BY <2>3 DEF Progress
    <3> QED BY <2>1, <2>6, <3>1, <3>2, VaultAssumption DEF Promise
  <2> QED BY <2>7, <2>8, <2>9, <2>10, <2>11 DEF VaultInv
<1> QED BY <1>2, <1>3

\* The answers that change nothing but the thread: of the vault's own noise and
\* reads, of HAVOC, of a sidecar that fails or shows, and of a statement that
\* throws (state.cpp, eno.cpp).
LEMMA PutNoiseVaultKeeps ==
  ASSUME VaultInv, NEW s \in Slots, PutNoiseVault(s)
  PROVE  VaultInv' /\ Promise
<1> DEFINE obj == ObjectOf(thread[s].req)
<1>1. /\ Working(s) /\ thread[s].req \in Request /\ thread[s].req.method = "PUTNOISE"
      /\ faults \in 0..MaxFaults /\ objects \subseteq Item /\ objectRows \subseteq Item
      /\ obj \in Item
  BY ThreadShape, ObjectShape DEF PutNoiseVault, Takes, Working, VaultInv, VaultTypeOK
<1>2. /\ objects' = objects \cup {obj} /\ objectRows' = objectRows \cup {obj}
      /\ Answers(s, "OK") /\ UNCHANGED <<alive, flagIndex, records, faults>>
  BY DEF PutNoiseVault
<1>3. /\ thread' \in [Slots -> Thread] /\ mutex' \in Slots \cup {NoSlot}
      /\ \A u \in Slots \ {s} : thread'[u] = thread[u]
      /\ \/ thread'[s] = Idle
         \/ thread[s].awaited /\ thread'[s] = [pc |-> "done", answer |-> "OK"]
  BY <1>1, <1>2, AnswerShape DEF VaultInv
<1> HIDE DEF obj
<1>4. VaultTypeOK'
  BY <1>1, <1>2, <1>3 DEF VaultInv, VaultTypeOK
<1>5. Numbered' /\ IndexedIsKept'
  BY <1>2 DEF VaultInv, Numbered, FlagRecords, IndexedIsKept
<1>6. ThreadInv'
  <2>1. thread'[s].pc \in {"free", "done"} /\ alive
    BY <1>1, <1>3 DEF Idle, VaultInv, ThreadInv, Working
  <2> QED BY <1>2, <1>3, <2>1 DEF VaultInv, ThreadInv, FlagRecords
<1>7. Promise
  <2>1. Progress(s)
    BY <1>1, <1>3 DEF Progress
  <2>2. \A u \in Slots \ {s} : Progress(u)
    BY <1>3 DEF Progress
  <2> QED BY <1>2, <2>1, <2>2 DEF Promise
<1> QED BY <1>4, <1>5, <1>6, <1>7 DEF VaultInv

\* An answer to a request that stores nothing, or that shows no flag, or none at all.
LEMMA OtherAnswersKeep ==
  ASSUME VaultInv, NEW s \in Slots,
         GetVault(s) \/ Havoc(s) \/ SidecarFails(s) \/ SidecarShows(s)
  PROVE  VaultInv' /\ Promise
<1>1. /\ Working(s)
      /\ thread[s].req.variant # 0 \/ thread[s].req.method # "PUTFLAG"
      /\ UNCHANGED <<alive, objects, objectRows, flagIndex, records, faults>>
      /\ \E a \in {"OK", "MUMBLE"} : Answers(s, a)
  BY DEF GetVault, Havoc, SidecarFails, SidecarShows, Takes, Working, Verdict,
         VaultInv, ThreadInv
<1>2. faults \in 0..MaxFaults /\ objects \subseteq Item
  BY DEF VaultInv, VaultTypeOK
<1>3. PICK a \in {"OK", "MUMBLE"} : Answers(s, a)
  BY <1>1
<1> QED BY <1>1, <1>2, <1>3, AnswerKeeps

\* A put that fails on its way to the database may leave an object behind, which
\* no index names.
LEMMA SqlFailsKeeps ==
  ASSUME VaultInv, NEW s \in Slots, SqlFails(s)
  PROVE  VaultInv' /\ Promise
<1>1. /\ Working(s) /\ Answers(s, "HTTP500")
      /\ UNCHANGED <<alive, objectRows, flagIndex, records>>
      /\ \/ objects' = objects
         \/ /\ objects' = objects \cup {ObjectOf(thread[s].req)}
            /\ thread[s].req.method # "HAVOC"
  BY DEF SqlFails, Takes, Working
<1>2. faults' \in 0..MaxFaults
  BY VaultAssumption DEF SqlFails, VaultInv, VaultTypeOK
<1>3. /\ thread[s].req.method # "HAVOC" => ObjectOf(thread[s].req) \in Item
      /\ objects \subseteq Item
  BY <1>1, ThreadShape, ObjectShape DEF VaultInv, VaultTypeOK
<1> QED BY <1>1, <1>2, <1>3, AnswerKeeps

\* A crash loses the memory and the threads, and the start reads back the table,
\* in which everything is that the index names (state.cpp, VaultState::init).
LEMMA CrashKeeps ==
  ASSUME VaultInv, Crash \/ Restart
  PROVE  VaultInv' /\ Promise
<1>1. UNCHANGED <<objectRows, flagIndex, records>> /\ thread \in [Slots -> Thread]
  BY DEF Crash, Restart, VaultInv, VaultTypeOK
<1>2. \A s \in Slots : thread'[s] = thread[s] \/ thread'[s] = Idle
  BY <1>1 DEF Crash, Restart
<1>3. Idle \in Thread /\ Idle.pc = "free"
  BY DEF Idle, Thread
<1>4. Promise
  BY <1>1, <1>2 DEF Promise, Progress
<1>5. Numbered'
  BY <1>1 DEF VaultInv, Numbered, FlagRecords
<1>6. CASE Crash
  <2>1. VaultTypeOK'
    <3>1. faults' \in 0..MaxFaults
      BY <1>6, VaultAssumption DEF Crash, VaultInv, VaultTypeOK
    <3>2. thread' \in [Slots -> Thread]
      BY <1>3, <1>6 DEF Crash
    <3> QED BY <1>6, <3>1, <3>2 DEF Crash, VaultInv, VaultTypeOK
  <2>2. ThreadInv'
    BY <1>3, <1>6 DEF Crash, ThreadInv
  <2>3. IndexedIsKept'
    BY <1>6 DEF Crash, VaultInv, IndexedIsKept
  <2> QED BY <1>4, <1>5, <2>1, <2>2, <2>3 DEF VaultInv
<1>7. CASE Restart
  <2>1. VaultTypeOK'
    BY <1>7 DEF Restart, VaultInv, VaultTypeOK
  <2>2. ThreadInv'
    BY <1>1, <1>7 DEF Restart, VaultInv, ThreadInv, FlagRecords
  <2>3. IndexedIsKept'
    BY <1>7 DEF Restart, VaultInv, IndexedIsKept
  <2> QED BY <1>4, <1>5, <2>1, <2>2, <2>3 DEF VaultInv
<1> QED BY <1>6, <1>7

\* Every step of the daemon keeps what it has promised, and keeps its promises.
LEMMA VaultStepKeeps ==
  ASSUME VaultInv, VaultStep
  PROVE  VaultInv' /\ Promise
  BY PutVaultKeeps, IndexVaultKeeps, PutNoiseVaultKeeps, AskSidecarKeeps, SidecarStoresKeeps,
     SidecarConfirmsKeeps, OtherAnswersKeep, SqlFailsKeeps, CrashKeeps
  DEF VaultStep, ThreadStep, SidecarStep

\* An empty daemon keeps all that its index names.
LEMMA VaultInit == Init => VaultInv
<1> SUFFICES ASSUME Init PROVE VaultInv
  OBVIOUS
<1> USE DEF Init
<1>1. VaultTypeOK
  BY VaultAssumption DEF VaultTypeOK, Thread
<1>2. Numbered
  BY FS_EmptySet DEF Numbered, FlagRecords
<1>3. ThreadInv
  BY DEF ThreadInv, Idle
<1>4. IndexedIsKept
  BY DEF IndexedIsKept
<1> QED BY <1>1, <1>2, <1>3, <1>4 DEF VaultInv

-----------------------------------------------------------------------------
(* The calls of a run.                                                     *)

Statuses == {"CRASHED", "TIMEOUT", "OFFLINE", "MUMBLE", "RECOVERING", "SUCCESS"}
AvailMaps == UNION {[D -> {"OK", "MISSING"}] : D \in SUBSET (Ticks \X Variants)}

\* The worst status wins: a run that is still SUCCESS, or RECOVERING, has not met
\* a worse one (checker_executor.py, downgrade).
LEMMA DowngradeShape ==
  /\ DOMAIN Rank = Statuses
  /\ \A a, b \in Statuses :
       /\ Downgrade(a, b) \in Statuses
       /\ Downgrade(a, b) \in {"SUCCESS", "RECOVERING"} =>
            a \in {"SUCCESS", "RECOVERING"} /\ b \in {"SUCCESS", "RECOVERING"}
       /\ Downgrade(a, b) = "SUCCESS" => a = "SUCCESS" /\ b = "SUCCESS"
  BY DEF Rank, Statuses, Downgrade

\* A failed call is never counted as SUCCESS, a failed PUTFLAG not as RECOVERING.
LEMMA NormalizeShape ==
  \A o \in Outcomes \ {"OK"} : Normalize[o] \in {"MUMBLE", "OFFLINE", "CRASHED"}
  BY DEF Outcomes, Normalize

\* A finding replaces what was found of the same flag, and nothing else.
IsFound(g, f, key, what) ==
  /\ g \in AvailMaps /\ DOMAIN g = DOMAIN f \cup {key}
  /\ g[key] = what
  /\ \A j \in DOMAIN f : j # key => g[j] = f[j]

\* So it does in an avail map (checker_executor.py, the loops over the flags).
LEMMA FoundShape ==
  ASSUME NEW f \in AvailMaps, NEW key, key \in Ticks \X Variants, NEW what \in {"OK", "MISSING"}
  PROVE  IsFound(Found(f, key, what), f, key, what)
<1>1. PICK D \in SUBSET (Ticks \X Variants) : f \in [D -> {"OK", "MISSING"}]
  BY DEF AvailMaps
<1>2. Found(f, key, what) \in [D \cup {key} -> {"OK", "MISSING"}]
  BY <1>1 DEF Found
<1>3. D \cup {key} \in SUBSET (Ticks \X Variants)
  BY <1>1
<1> QED BY <1>1, <1>2, <1>3 DEF Found, AvailMaps, IsFound

\* The window of ticks whose flags are still asked for (checker_executor.py:250).
LEMMA WindowShape ==
  ASSUME tick \in Ticks, tick >= 1
  PROVE  /\ tick \in Nat /\ WindowStart \in Nat /\ WindowStart >= 1 /\ WindowStart <= tick
         /\ \A t \in WindowStart..(tick - 1) : t \in Ticks /\ t \in Nat /\ t # tick
<1>1. tick \in Nat /\ 1..tick \subseteq Ticks
  BY VaultAssumption, CheckAssumption
<1>2. WindowStart \in Nat /\ WindowStart >= 1 /\ WindowStart <= tick
  BY <1>1, CheckAssumption DEF WindowStart
<1> QED BY <1>1, <1>2

\* One call per variant, of this tick (checker_executor.py:280-300).
LEMMA CallsShape ==
  ASSUME tick \in Ticks, tick >= 1, NEW m \in Methods, NEW n \in Nat,
         n <= IF m = "HAVOC" THEN NumHavocs ELSE NumPayloads
  PROVE  /\ Calls(m, n) \in Seq(Request) /\ Len(Calls(m, n)) = n
         /\ \A i \in 1..n : Calls(m, n)[i] = [method |-> m, tick |-> tick, variant |-> i - 1]
<1>1. NumHavocs \in Nat /\ NumPayloads \in Nat
  BY VaultAssumption
<1>2. \A i \in 1..n : [method |-> m, tick |-> tick, variant |-> i - 1] \in Request
  BY <1>1 DEF Request, Variants, HavocVariants
<1> QED BY <1>1, <1>2 DEF Calls

\* One call per tick of the window and variant: each of them once
\* (checker_executor.py:305-350).
LEMMA OverWindowShape ==
  ASSUME tick \in Ticks, tick >= 1, NEW m \in Methods \ {"HAVOC"}, NEW n \in 0..NumPayloads
  PROVE  LET C == CallsOverWindow(m, n) IN
         /\ C \in Seq(Request) /\ Len(C) = (tick - WindowStart) * n
         /\ \A i \in 1..Len(C) : C[i].method = m /\ C[i].tick \in WindowStart..(tick - 1)
         /\ \A t \in WindowStart..(tick - 1), v \in 0..(n - 1) :
              \E i \in 1..Len(C) : C[i] = [method |-> m, tick |-> t, variant |-> v]
<1> DEFINE C == CallsOverWindow(m, n)
           w == tick - WindowStart
           At(i) == [method |-> m, tick |-> WindowStart + ((i - 1) \div n),
                     variant |-> (i - 1) % n]
<1>1. n \in Nat /\ NumPayloads \in Nat /\ w \in Nat /\ w * n \in Nat
  BY VaultAssumption, WindowShape
<1>2. C = [i \in 1..(w * n) |-> At(i)]
  BY DEF CallsOverWindow
<1>3. ASSUME NEW i \in 1..(w * n)
      PROVE  (i - 1) \div n \in 0..(w - 1) /\ (i - 1) % n \in 0..(n - 1)
  <2>1. n # 0
    <3>1. CASE n = 0
      <4>1. w * n = 0
        BY <1>1, <3>1
      <4> QED BY <1>3, <4>1
    <3> QED BY <3>1
  <2>2. n \in Nat \ {0}
    BY <1>1, <2>1
  <2> HIDE DEF w
  <2> QED BY <1>1, <2>2
<1>4. ASSUME NEW i \in 1..(w * n)
      PROVE  At(i) \in Request /\ At(i).method = m /\ At(i).tick \in WindowStart..(tick - 1)
  <2>1. (i - 1) \div n \in 0..(w - 1) /\ (i - 1) % n \in 0..(n - 1)
    BY <1>3
  <2>2. WindowStart + ((i - 1) \div n) \in WindowStart..(tick - 1)
    BY <2>1, WindowShape
  <2>3. (i - 1) % n \in Variants
    BY <1>1, <2>1 DEF Variants
  <2> QED BY <2>2, <2>3, WindowShape DEF Request
<1>5. C \in Seq(Request) /\ Len(C) = w * n /\ \A i \in 1..(w * n) : C[i] = At(i)
  <2> HIDE DEF At, w
  <2> QED BY <1>1, <1>2, <1>4
<1>6. ASSUME NEW t \in WindowStart..(tick - 1), NEW v \in 0..(n - 1)
      PROVE  \E i \in 1..(w * n) : At(i) = [method |-> m, tick |-> t, variant |-> v]
  <2> DEFINE q == t - WindowStart
             i == q * n + v + 1
  <2>1. n \in Nat \ {0} /\ q \in 0..(w - 1) /\ q \in Nat /\ v \in Nat /\ v < n
    BY <1>1, WindowShape
  <2>2. i - 1 = q * n + v /\ i \in Nat /\ i >= 1
    <3>1. q * n \in Nat
      BY <2>1
    <3> HIDE DEF q
    <3> QED BY <2>1, <3>1
  <2>3. (q * n + v) \div n = q /\ (q * n + v) % n = v
    <3> HIDE DEF q
    <3> QED BY <2>1
  <2>4. i <= w * n
    <3>1. q + 1 <= w /\ w \in Nat
      BY <1>1, <2>1
    <3> HIDE DEF q, w
    <3>2. (q + 1) * n <= w * n
      BY <2>1, <3>1
    <3>3. (q + 1) * n = q * n + n
      BY <2>1
    <3>4. q * n \in Nat /\ w * n \in Nat
      BY <2>1, <3>1
    <3> QED BY <2>1, <3>2, <3>3, <3>4
  <2>5. WindowStart + q = t
    BY WindowShape
  <2>6. i \in 1..(w * n)
    BY <1>1, <2>2, <2>4
  <2>7. At(i) = [method |-> m, tick |-> t, variant |-> v]
    BY <2>2, <2>3, <2>5
  <2> HIDE DEF i, At
  <2> QED BY <2>6, <2>7
<1>7. \A i \in 1..Len(C) : C[i].method = m /\ C[i].tick \in WindowStart..(tick - 1)
  BY <1>4, <1>5
<1>8. \A t \in WindowStart..(tick - 1), v \in 0..(n - 1) :
        \E i \in 1..Len(C) : C[i] = [method |-> m, tick |-> t, variant |-> v]
  <2> HIDE DEF At, C, w
  <2> QED BY <1>5, <1>6
<1> QED BY <1>5, <1>7, <1>8

\* Where the calls of one part of a plan are in the whole (checker_executor.py,
\* the loops of run_checks_for, one after the other).
LEMMA ConcatShape ==
  ASSUME NEW S, NEW a \in Seq(S), NEW b \in Seq(S)
  PROVE  /\ a \o b \in Seq(S) /\ Len(a \o b) = Len(a) + Len(b)
         /\ \A i \in 1..Len(a) : (a \o b)[i] = a[i]
         /\ \A i \in 1..Len(b) : (a \o b)[Len(a) + i] = b[i]
         /\ Len(a) \in Nat /\ Len(b) \in Nat
<1>1. Len(a) \in Nat /\ Len(b) \in Nat
  OBVIOUS
<1>2. a \o b \in Seq(S) /\ Len(a \o b) = Len(a) + Len(b)
  OBVIOUS
<1>3. \A i \in 1..Len(a) : (a \o b)[i] = a[i]
  BY <1>1
<1>4. ASSUME NEW i \in 1..Len(b) PROVE (a \o b)[Len(a) + i] = b[i]
  <2>1. Len(a) + i \in 1..(Len(a) + Len(b)) /\ ~(Len(a) + i <= Len(a)) /\ Len(a) + i - Len(a) = i
    BY <1>1
  <2> QED BY <2>1
<1> QED BY <1>1, <1>2, <1>3, <1>4

\* The plan of a run: its flags of this tick, and every flag of the window.
LEMMA PlanShape ==
  ASSUME tick \in Ticks, tick >= 1, NEW informed \in BOOLEAN
  PROVE  LET P == Plan(informed) IN
         /\ P \in Seq(Request) /\ Len(P) \in Nat
         /\ \A i \in 1..Len(P) :
              /\ P[i] \in Request
              /\ P[i].method = "PUTFLAG" => P[i].tick = tick
              /\ P[i].method = "GETFLAG" => P[i].tick \in WindowStart..(tick - 1)
         /\ \A v \in Variants : \E i \in 1..Len(P) :
              P[i] = [method |-> "PUTFLAG", tick |-> tick, variant |-> v]
         /\ \A t \in WindowStart..(tick - 1), v \in Variants : \E i \in 1..Len(P) :
              P[i] = [method |-> "GETFLAG", tick |-> t, variant |-> v]
<1> DEFINE A == Calls("PUTFLAG", NumPayloads)
           B == CallsOverWindow("GETFLAG", NumPayloads)
           D == Calls("PUTNOISE", NumNoises) \o CallsOverWindow("GETNOISE", NumNoises)
                  \o Calls("HAVOC", NumHavocs)
           C == IF ~informed THEN <<>> ELSE D
           P == Plan(informed)
<1>0. /\ NumPayloads \in 0..NumPayloads /\ NumPayloads \in Nat
      /\ NumNoises \in 0..NumPayloads /\ NumHavocs \in Nat
      /\ {"PUTFLAG", "GETFLAG", "PUTNOISE", "GETNOISE", "HAVOC"} \subseteq Methods
  BY VaultAssumption, CheckAssumption DEF Methods
<1>1. /\ A \in Seq(Request) /\ Len(A) = NumPayloads
      /\ \A i \in 1..NumPayloads :
           A[i] = [method |-> "PUTFLAG", tick |-> tick, variant |-> i - 1]
  BY <1>0, CallsShape
<1>2. /\ B \in Seq(Request)
      /\ \A i \in 1..Len(B) : B[i].method = "GETFLAG" /\ B[i].tick \in WindowStart..(tick - 1)
      /\ \A t \in WindowStart..(tick - 1), v \in 0..(NumPayloads - 1) :
           \E i \in 1..Len(B) : B[i] = [method |-> "GETFLAG", tick |-> t, variant |-> v]
  <2>1. "GETFLAG" \in Methods \ {"HAVOC"} /\ NumPayloads \in 0..NumPayloads
    BY <1>0
  <2> HIDE <1>0
  <2> QED BY <2>1, OverWindowShape
<1>3. C \in Seq(Request) /\ \A i \in 1..Len(C) : C[i].method \notin {"PUTFLAG", "GETFLAG"}
  <2> DEFINE X == Calls("PUTNOISE", NumNoises)
             Y == CallsOverWindow("GETNOISE", NumNoises)
             Z == Calls("HAVOC", NumHavocs)
  <2>1. X \in Seq(Request) /\ \A i \in 1..Len(X) : X[i].method = "PUTNOISE"
    <3>1. /\ X \in Seq(Request) /\ Len(X) = NumNoises
          /\ \A i \in 1..NumNoises :
               X[i] = [method |-> "PUTNOISE", tick |-> tick, variant |-> i - 1]
      BY <1>0, CallsShape
    <3> HIDE DEF X
    <3> QED BY <3>1
  <2>2. Y \in Seq(Request) /\ \A i \in 1..Len(Y) : Y[i].method = "GETNOISE"
    BY <1>0, OverWindowShape
  <2>3. Z \in Seq(Request) /\ \A i \in 1..Len(Z) : Z[i].method = "HAVOC"
    <3>1. /\ Z \in Seq(Request) /\ Len(Z) = NumHavocs
          /\ \A i \in 1..NumHavocs :
               Z[i] = [method |-> "HAVOC", tick |-> tick, variant |-> i - 1]
      BY <1>0, CallsShape
    <3> HIDE DEF Z
    <3> QED BY <3>1
  <2> HIDE DEF X, Y, Z
  <2>4. X \o Y \in Seq(Request) /\ \A i \in 1..Len(X \o Y) : (X \o Y)[i].method \in {"PUTNOISE", "GETNOISE"}
    BY <2>1, <2>2
  <2>5. (X \o Y) \o Z \in Seq(Request)
        /\ \A i \in 1..Len((X \o Y) \o Z) :
             ((X \o Y) \o Z)[i].method \in {"PUTNOISE", "GETNOISE", "HAVOC"}
    BY <2>3, <2>4
  <2>6. D = (X \o Y) \o Z
    BY DEF X, Y, Z
  <2>7. D \in Seq(Request) /\ \A i \in 1..Len(D) : D[i].method \in {"PUTNOISE", "GETNOISE", "HAVOC"}
    BY <2>5, <2>6
  <2> HIDE DEF D
  <2>8. CASE informed
    <3>1. C = D
      BY <2>8
    <3> HIDE DEF C
    <3> QED BY <2>7, <3>1
  <2>9. CASE ~informed
    <3>1. C = <<>>
      BY <2>9
    <3> HIDE DEF C
    <3> QED BY <3>1
  <2> QED BY <2>8, <2>9
<1>4. P = (A \o B) \o C
  BY DEF Plan
<1> HIDE DEF A, B, C, D, P
<1>5. /\ A \o B \in Seq(Request) /\ Len(A \o B) = Len(A) + Len(B)
      /\ \A i \in 1..Len(A) : (A \o B)[i] = A[i]
      /\ \A i \in 1..Len(B) : (A \o B)[Len(A) + i] = B[i]
      /\ Len(A) \in Nat /\ Len(B) \in Nat /\ Len(C) \in Nat
  <2>1. A \in Seq(Request) /\ B \in Seq(Request) /\ C \in Seq(Request)
    BY <1>1, <1>2, <1>3
  <2>2. Len(C) \in Nat
    BY <2>1
  <2> QED BY <2>1, <2>2, ConcatShape
<1>6. /\ P \in Seq(Request) /\ Len(P) = Len(A) + Len(B) + Len(C)
      /\ \A i \in 1..Len(A) : P[i] = A[i]
      /\ \A i \in 1..Len(B) : P[Len(A) + i] = B[i]
      /\ \A i \in 1..Len(C) : P[Len(A) + Len(B) + i] = C[i]
  BY <1>3, <1>4, <1>5, ConcatShape
<1>7. ASSUME NEW i \in 1..Len(P)
      PROVE  /\ P[i] \in Request
             /\ P[i].method = "PUTFLAG" => P[i].tick = tick
             /\ P[i].method = "GETFLAG" => P[i].tick \in WindowStart..(tick - 1)
  <2>1. P[i] \in Request
    BY <1>6
  <2>2. CASE i \in 1..Len(A)
    BY <1>1, <1>6, <2>1, <2>2
  <2>3. CASE i - Len(A) \in 1..Len(B)
    <3>1. P[i] = B[i - Len(A)]
      BY <1>5, <1>6, <2>3
    <3> QED BY <1>2, <2>1, <2>3, <3>1
  <2>4. CASE i - Len(A) - Len(B) \in 1..Len(C)
    <3>1. P[i] = C[i - Len(A) - Len(B)]
      BY <1>5, <1>6, <2>4
    <3> QED BY <1>3, <2>1, <2>4, <3>1
  <2> QED BY <1>5, <1>6, <2>2, <2>3, <2>4
<1>8. ASSUME NEW v \in Variants
      PROVE  \E i \in 1..Len(P) : P[i] = [method |-> "PUTFLAG", tick |-> tick, variant |-> v]
  <2>1. v + 1 \in 1..Len(A) /\ (v + 1) - 1 = v
    BY <1>0, <1>1 DEF Variants
  <2>2. v + 1 \in 1..Len(P) /\ P[v + 1] = A[v + 1]
    BY <1>5, <1>6, <2>1
  <2>3. A[v + 1] = [method |-> "PUTFLAG", tick |-> tick, variant |-> v]
    BY <1>1, <2>1
  <2> QED BY <2>2, <2>3
<1>9. ASSUME NEW t \in WindowStart..(tick - 1), NEW v \in Variants
      PROVE  \E i \in 1..Len(P) : P[i] = [method |-> "GETFLAG", tick |-> t, variant |-> v]
  <2>1. PICK j \in 1..Len(B) : B[j] = [method |-> "GETFLAG", tick |-> t, variant |-> v]
    BY <1>2 DEF Variants
  <2>2. Len(A) + j \in 1..Len(P) /\ P[Len(A) + j] = B[j]
    <3>1. Len(A) + j \in 1..(Len(A) + Len(B) + Len(C))
      BY <1>5
    <3> QED BY <1>6, <3>1
  <2> QED BY <2>1, <2>2
<1>10. Len(P) \in Nat
  BY <1>6
<1> QED BY <1>6, <1>7, <1>8, <1>9, <1>10 DEF P

-----------------------------------------------------------------------------
(* The run.                                                                *)

RunState(t) == [pc : {"next", "waits"}, informed : BOOLEAN, at : Nat \ {0},
             slot : Slots \cup {NoSlot}, late : 0..BudgetTimeouts, overall : Statuses,
             avail : AvailMaps, rows : SUBSET ({t} \X Variants)]

\* What a run has in its locals so far: as long as its status is no worse than
\* RECOVERING, every PUTFLAG made is a flag to be stored, and as long as it is
\* SUCCESS, every flag asked for was there or had never been stored.
RunIs(r, P, t, stored) ==
  /\ r \in RunState(t)
  /\ r.at <= Len(P) + 1
  /\ r.pc = "next" => r.slot = NoSlot
  /\ r.pc = "waits" => r.slot \in Slots /\ r.at <= Len(P) /\ r.late < BudgetTimeouts
  /\ r.overall \in {"SUCCESS", "RECOVERING"} =>
       \A i \in 1..(r.at - 1) : P[i].method = "PUTFLAG" =>
         Key(P[i]) \in DOMAIN r.avail /\ r.avail[Key(P[i])] = "OK" /\ Key(P[i]) \in r.rows
  /\ r.overall = "SUCCESS" =>
       /\ \A i \in 1..(r.at - 1) : P[i].method = "GETFLAG" => Key(P[i]) \in DOMAIN r.avail
       /\ \A k \in DOMAIN r.avail : r.avail[k] = "OK" \/ k \notin stored

RunOK == RunIs(run, Plan(run.informed), tick, flagRows)

\* The only answer somebody waits for is the one to the call under way; a PUTFLAG
\* of the vault's own variant that was answered OK is in the index.
WaitOK ==
  \A s \in Slots :
    /\ (Working(s) /\ thread[s].awaited) \/ thread[s].pc = "done" =>
         run.pc = "waits" /\ run.slot = s
    /\ Working(s) /\ thread[s].awaited => thread[s].req = Call
    /\ thread[s].pc = "done" /\ thread[s].answer = "OK"
         /\ Call.method = "PUTFLAG" /\ Call.variant = 0 =>
           flagIndex[<<Call.tick, 0>>] # NoRef

\* The flags the platform has or is about to store.
RowsOK ==
  \A t \in Ticks : (<<t, 0>> \in flagRows \/ (run # NoRun /\ <<t, 0>> \in run.rows))
    => flagIndex[<<t, 0>>] # NoRef

HealthOK == health = NoRow \/ health \in [status : Statuses, avail : AvailMaps]

IInv ==
  /\ VaultInv
  /\ tick \in Ticks /\ tick >= 1 /\ runs \in 0..MaxRuns
  /\ run = NoRun \/ RunOK
  /\ WaitOK
  /\ flagRows \subseteq Ticks \X Variants
  /\ RowsOK
  /\ HealthOK
  /\ StatusIsEarned

\* A run that makes a call has one to make, of its plan.
LEMMA CallShape ==
  ASSUME tick \in Ticks, tick >= 1, RunOK, run.at <= Len(Plan(run.informed))
  PROVE  /\ Call \in Request /\ Call = Plan(run.informed)[run.at]
         /\ Call.tick \in Ticks /\ Call.method \in Methods
         /\ Call.method = "PUTFLAG" => Call.tick = tick
         /\ Call.method = "GETFLAG" => Call.tick \in WindowStart..(tick - 1) /\ Call.tick # tick
         /\ Call.method # "HAVOC" => Call.variant \in Variants /\ Key(Call) \in Ticks \X Variants
         /\ run.at \in Nat \ {0} /\ run.at \in 1..Len(Plan(run.informed))
<1>1. run.informed \in BOOLEAN /\ run.at \in Nat \ {0}
  BY DEF RunOK, RunIs, RunState
<1>2. Len(Plan(run.informed)) \in Nat
  BY <1>1, PlanShape
<1>3. run.at \in 1..Len(Plan(run.informed))
  BY <1>1, <1>2
<1>4. /\ Call = Plan(run.informed)[run.at]
      /\ Call \in Request
      /\ Call.method = "PUTFLAG" => Call.tick = tick
      /\ Call.method = "GETFLAG" => Call.tick \in WindowStart..(tick - 1)
  BY <1>1, <1>3, PlanShape DEF Call
<1>5. Call.tick \in WindowStart..(tick - 1) => Call.tick # tick
  BY WindowShape
<1> QED BY <1>1, <1>3, <1>4, <1>5 DEF Request, Key, Methods

\* The steps that change no thread's work but its client (checker_executor.py).
LEMMA ClientKeepsVault ==
  ASSUME VaultInv, thread' \in [Slots -> Thread],
         UNCHANGED <<alive, objects, objectRows, flagIndex, records, mutex, faults>>,
         \A s \in Slots : \/ thread'[s] = thread[s]
                          \/ thread'[s] = Idle
                          \/ thread'[s].pc = thread[s].pc /\ thread'[s].req = thread[s].req
                          \/ thread'[s].pc = "queued" /\ alive
  PROVE  VaultInv'
<1>1. VaultTypeOK'
  BY DEF VaultInv, VaultTypeOK
<1>2. Numbered' /\ IndexedIsKept'
  BY DEF VaultInv, Numbered, FlagRecords, IndexedIsKept
<1>3. ThreadInv'
  BY DEF VaultInv, ThreadInv, FlagRecords, Idle
<1> QED BY <1>1, <1>2, <1>3 DEF VaultInv

\* A call is accounted for: whatever its outcome, the run is worth what its status
\* says of the calls so far.
LEMMA AccountKeeps ==
  ASSUME tick \in Ticks, tick >= 1, RunOK, run.at <= Len(Plan(run.informed)),
         run.late < BudgetTimeouts, NEW outcome \in Outcomes, Account(outcome),
         UNCHANGED <<tick, flagRows>>
  PROVE  /\ RunOK' /\ run'.pc = "next"
         /\ run'.rows \subseteq run.rows \cup {Key(Call)}
         /\ Key(Call) \in run'.rows =>
              Key(Call) \in run.rows \/ (outcome = "OK" /\ Call.method = "PUTFLAG")
<1> DEFINE P == Plan(run.informed)
           k == Key(Call)
           ok == outcome = "OK"
           overall == IF ok THEN run.overall ELSE Failed(outcome)
           avail == IF Kind(Call) # "flag" THEN run.avail
                    ELSE Found(run.avail, k, IF ok THEN "OK" ELSE "MISSING")
           rows == IF ok /\ Call.method = "PUTFLAG" THEN run.rows \cup {k} ELSE run.rows
           late == IF outcome = "INTERNAL_ERROR" THEN run.late + 1 ELSE run.late
<1>1. /\ Call = P[run.at] /\ run.at \in 1..Len(P) /\ run.at \in Nat \ {0}
      /\ Call.method # "HAVOC" => k \in Ticks \X Variants
      /\ Call.method \in Methods
      /\ Call.method = "PUTFLAG" => Call.tick = tick /\ k \in {tick} \X Variants
      /\ Call.method = "GETFLAG" => Call.tick # tick /\ k \notin {tick} \X Variants
  BY CallShape DEF Key
<1>2. /\ run \in RunState(tick) /\ Len(P) \in Nat
      /\ run.overall \in Statuses /\ run.avail \in AvailMaps /\ run.late \in 0..BudgetTimeouts
      /\ run.rows \subseteq {tick} \X Variants /\ run.informed \in BOOLEAN
  BY PlanShape DEF RunOK, RunIs, RunState
<1>3. /\ overall \in Statuses
      /\ overall \in {"SUCCESS", "RECOVERING"} =>
           /\ run.overall \in {"SUCCESS", "RECOVERING"}
           /\ Call.method = "PUTFLAG" => ok
      /\ overall = "SUCCESS" => ok /\ run.overall = "SUCCESS"
  <2>1. CASE ok
    BY <1>2, <2>1
  <2>2. CASE ~ok /\ Call.method \in {"GETFLAG", "GETNOISE"}
    <3>1. overall = Downgrade(run.overall, "RECOVERING") /\ "RECOVERING" \in Statuses
      BY <2>2 DEF Failed, Statuses
    <3> QED BY <1>2, <2>2, <3>1, DowngradeShape
  <2>3. CASE ~ok /\ Call.method \notin {"GETFLAG", "GETNOISE"}
    <3>1. overall = Downgrade(run.overall, Normalize[outcome])
      BY <2>3 DEF Failed
    <3>2. Normalize[outcome] \in Statuses \ {"SUCCESS", "RECOVERING"}
      BY <2>3, NormalizeShape DEF Statuses
    <3> QED BY <1>2, <3>1, <3>2, DowngradeShape
  <2> QED BY <2>1, <2>2, <2>3
<1>4. /\ avail \in AvailMaps /\ DOMAIN run.avail \subseteq DOMAIN avail
      /\ \A j \in DOMAIN avail : j # k => j \in DOMAIN run.avail /\ avail[j] = run.avail[j]
      /\ Call.method \in {"PUTFLAG", "GETFLAG"} =>
           k \in DOMAIN avail /\ avail[k] = IF ok THEN "OK" ELSE "MISSING"
      /\ Call.method \notin {"PUTFLAG", "GETFLAG"} => avail = run.avail
  <2>1. CASE Call.method \in {"PUTFLAG", "GETFLAG"}
    <3>1. avail = Found(run.avail, k, IF ok THEN "OK" ELSE "MISSING")
      BY <2>1 DEF Kind
    <3> HIDE DEF avail, k
    <3>2. PICK what \in {"OK", "MISSING"} : what = IF ok THEN "OK" ELSE "MISSING"
      OBVIOUS
    <3>3. /\ avail \in AvailMaps /\ DOMAIN avail = DOMAIN run.avail \cup {k}
          /\ avail[k] = what
          /\ \A j \in DOMAIN run.avail : j # k => avail[j] = run.avail[j]
      <4>1. avail = Found(run.avail, k, what)
        BY <3>1, <3>2
      <4>2. k \in Ticks \X Variants /\ run.avail \in AvailMaps
        BY <1>1, <1>2, <2>1
      <4> HIDE DEF k
      <4>3. IsFound(Found(run.avail, k, what), run.avail, k, what)
        BY <4>2, FoundShape
      <4> QED BY <4>1, <4>3 DEF IsFound
    <3> QED BY <2>1, <3>2, <3>3
  <2>2. CASE Call.method \notin {"PUTFLAG", "GETFLAG"}
    <3>1. avail = run.avail
      BY <2>2 DEF Kind
    <3> HIDE DEF avail
    <3> QED BY <1>2, <2>2, <3>1
  <2> QED BY <2>1, <2>2
<1>5. rows \subseteq {tick} \X Variants /\ late \in 0..BudgetTimeouts
  BY <1>1, <1>2, CheckAssumption
<1>6. run' = [pc |-> "next", informed |-> run.informed, at |-> run.at + 1, slot |-> NoSlot,
              late |-> late, overall |-> overall, avail |-> avail, rows |-> rows]
  BY <1>2 DEF Account, RunState
<1>7. run' \in RunState(tick)
  <2> HIDE DEF overall, avail, rows, late
  <2> QED BY <1>1, <1>2, <1>3, <1>4, <1>5, <1>6 DEF RunState
<1>8. /\ run'.pc = "next" /\ run'.informed = run.informed /\ run'.at = run.at + 1
      /\ run'.slot = NoSlot /\ run'.overall = overall /\ run'.avail = avail /\ run'.rows = rows
  BY <1>6
<1>9. Plan(run.informed)' = Plan(run'.informed) /\ Plan(run'.informed) = P
  BY <1>8 DEF Plan, Calls, CallsOverWindow, WindowStart
<1>11. rows = run.rows \/ (ok /\ Call.method = "PUTFLAG" /\ rows = run.rows \cup {k})
  OBVIOUS
<1> HIDE DEF overall, avail, rows, late, P, k
<1>12. ASSUME overall \in {"SUCCESS", "RECOVERING"}, NEW i \in 1..run.at, P[i].method = "PUTFLAG"
       PROVE  /\ Key(P[i]) \in DOMAIN avail /\ avail[Key(P[i])] = "OK"
              /\ Key(P[i]) \in rows
  <2>1. CASE i = run.at
    <3>1. Key(P[i]) = k /\ Call.method = "PUTFLAG" /\ ok
      BY <1>1, <1>3, <1>12, <2>1 DEF k
    <3>2. k \in rows
      BY <3>1 DEF rows
    <3> QED BY <1>4, <3>1, <3>2
  <2>2. CASE i # run.at
    <3>1. /\ i \in 1..(run.at - 1)
          /\ Key(P[i]) \in DOMAIN run.avail /\ run.avail[Key(P[i])] = "OK"
          /\ Key(P[i]) \in run.rows
      BY <1>1, <1>3, <1>12, <2>2 DEF RunOK, RunIs, P
    <3>2. Key(P[i]) = k => ok \/ Call.method \notin {"PUTFLAG", "GETFLAG"}
      BY <1>1, <1>2, <1>3, <1>12, <3>1
    <3> QED BY <1>4, <1>11, <3>1, <3>2
  <2> QED BY <2>1, <2>2
<1>13. ASSUME overall = "SUCCESS"
       PROVE  /\ \A i \in 1..run.at : P[i].method = "GETFLAG" => Key(P[i]) \in DOMAIN avail
              /\ \A j \in DOMAIN avail : avail[j] = "OK" \/ j \notin flagRows
  <2>1. ok /\ run.overall = "SUCCESS"
    BY <1>3, <1>13
  <2>2. ASSUME NEW i \in 1..run.at, P[i].method = "GETFLAG" PROVE Key(P[i]) \in DOMAIN avail
    <3>1. CASE i = run.at
      BY <1>1, <1>4, <2>2, <3>1 DEF k
    <3>2. CASE i # run.at
      <4>1. i \in 1..(run.at - 1)
        BY <1>1, <3>2
      <4>2. Key(P[i]) \in DOMAIN run.avail
        BY <2>1, <2>2, <4>1 DEF RunOK, RunIs, P
      <4> QED BY <1>4, <4>2
    <3> QED BY <3>1, <3>2
  <2>3. ASSUME NEW j \in DOMAIN avail PROVE avail[j] = "OK" \/ j \notin flagRows
    <3>1. CASE Call.method \in {"PUTFLAG", "GETFLAG"} /\ j = k
      BY <1>4, <2>1, <3>1
    <3>2. CASE ~(Call.method \in {"PUTFLAG", "GETFLAG"} /\ j = k)
      <4>1. j \in DOMAIN run.avail /\ avail[j] = run.avail[j]
        BY <1>4, <3>2
      <4> QED BY <2>1, <4>1 DEF RunOK, RunIs
    <3> QED BY <3>1, <3>2
  <2> QED BY <2>2, <2>3
<1>14. RunIs(run', P, tick, flagRows)
  <2>1. run'.at - 1 = run.at /\ run'.at <= Len(P) + 1
    BY <1>1, <1>2, <1>8
  <2> QED BY <1>7, <1>8, <1>9, <1>12, <1>13, <2>1 DEF RunIs
<1>15. RunOK'
  BY <1>9, <1>14 DEF RunOK, P
<1> QED BY <1>8, <1>11, <1>15 DEF k

\* What the plan of a run depends on: the tick, and whether /service was answered.
LEMMA PlanSame ==
  ASSUME tick' = tick
  PROVE  /\ WindowStart' = WindowStart
         /\ \A informed \in BOOLEAN : Plan(informed)' = Plan(informed)
         /\ run' = run => Call' = Call /\ Plan(run.informed)' = Plan(run.informed)
<1>1. WindowStart' = WindowStart
  BY DEF WindowStart
<1>2. \A informed \in BOOLEAN : Plan(informed)' = Plan(informed)
  BY DEF Plan, Calls, CallsOverWindow, WindowStart
<1>3. run' = run => Call' = Call /\ Plan(run.informed)' = Plan(run.informed)
  BY DEF Call, Plan, Calls, CallsOverWindow, WindowStart
<1> QED BY <1>1, <1>2, <1>3

\* No row of service_health, and no run, are what they are for.
LEMMA RunShape ==
  /\ NoRun.pc = "none"
  /\ RunOK => run.pc \in {"next", "waits"} /\ run # NoRun /\ run.informed \in BOOLEAN
                /\ run.rows \subseteq {tick} \X Variants
  BY DEF NoRun, RunOK, RunIs, RunState

\* The daemon goes on, under a run or without one.
LEMMA DaemonKeeps ==
  ASSUME IInv, VaultStep, UNCHANGED <<tick, runs, run, tables>>
  PROVE  IInv'
<1>1. VaultInv' /\ Promise
  BY VaultStepKeeps DEF IInv
<1>2. /\ tick' = tick /\ runs' = runs /\ run' = run /\ flagRows' = flagRows /\ health' = health
      /\ WindowStart' = WindowStart /\ Call' = Call
      /\ Plan(run.informed)' = Plan(run.informed)
  BY PlanSame DEF tables
<1>3. run' = NoRun \/ RunOK'
  BY <1>2 DEF IInv, RunOK
<1>4. RowsOK'
  <2> SUFFICES ASSUME NEW t \in Ticks,
                      <<t, 0>> \in flagRows \/ (run # NoRun /\ <<t, 0>> \in run.rows)
               PROVE  flagIndex'[<<t, 0>>] # NoRef
    BY <1>2 DEF RowsOK
  <2>1. flagIndex[<<t, 0>>] # NoRef
    BY DEF IInv, RowsOK
  <2>2. 0 \in Variants
    BY RunShape DEF IInv
  <2> QED BY <1>1, <2>1, <2>2 DEF Promise
<1>5. WaitOK'
  <2> SUFFICES ASSUME NEW s \in Slots
               PROVE  /\ (Working(s)' /\ thread'[s].awaited) \/ thread'[s].pc = "done" =>
                           run.pc = "waits" /\ run.slot = s
                      /\ Working(s)' /\ thread'[s].awaited => thread'[s].req = Call
                      /\ thread'[s].pc = "done" /\ thread'[s].answer = "OK"
                           /\ Call.method = "PUTFLAG" /\ Call.variant = 0 =>
                             flagIndex'[<<Call.tick, 0>>] # NoRef
    BY <1>2 DEF WaitOK, Working
  <2>1. /\ (Working(s) /\ thread[s].awaited) \/ thread[s].pc = "done" =>
             run.pc = "waits" /\ run.slot = s
        /\ Working(s) /\ thread[s].awaited => thread[s].req = Call
        /\ thread[s].pc = "done" /\ thread[s].answer = "OK"
             /\ Call.method = "PUTFLAG" /\ Call.variant = 0 =>
               flagIndex[<<Call.tick, 0>>] # NoRef
    BY DEF IInv, WaitOK
  <2>2. run.pc = "waits" =>
          Call.tick \in Ticks /\ (Call.method # "HAVOC" => Call.variant \in Variants)
    <3>1. run.pc = "waits" => RunOK /\ run.at <= Len(Plan(run.informed))
      BY RunShape DEF IInv, RunOK, RunIs
    <3> QED BY <3>1, CallShape DEF IInv
  <2>3. Progress(s)
    BY <1>1 DEF Promise
  <2>4. CASE thread'[s] = thread[s]
    BY <1>1, <2>1, <2>2, <2>4 DEF Working, Promise
  <2>5. CASE thread'[s] = Idle
    BY <2>5 DEF Working, Idle
  <2>6. CASE /\ Working(s) /\ thread'[s].pc \in {"indexing", "asking", "stored"}
             /\ thread'[s].req = thread[s].req /\ thread'[s].awaited = thread[s].awaited
    BY <2>1, <2>6 DEF Working
  <2>7. CASE /\ Working(s) /\ thread[s].awaited /\ thread'[s].pc = "done"
             /\ thread'[s].answer = "OK" /\ thread[s].req.method = "PUTFLAG"
                  /\ thread[s].req.variant = 0 =>
                    flagIndex'[<<thread[s].req.tick, 0>>] # NoRef
    BY <2>1, <2>7 DEF Working
  <2> QED BY <2>3, <2>4, <2>5, <2>6, <2>7 DEF Progress
<1>6. HealthOK' /\ StatusIsEarned'
  BY <1>2 DEF IInv, HealthOK, StatusIsEarned
<1> QED BY <1>1, <1>2, <1>3, <1>4, <1>5, <1>6 DEF IInv

\* A run begins with nothing found and nobody waiting (checker_executor.py:240-278).
LEMMA BeginKeeps ==
  ASSUME IInv, NEW informed \in BOOLEAN, Begin(informed)
  PROVE  IInv'
<1>1. VaultInv'
  BY ClientKeepsVault DEF IInv, Begin, vaultVars, VaultInv, VaultTypeOK
<1>2. /\ tick' = tick /\ runs' \in 0..MaxRuns /\ flagRows' = flagRows /\ health' = health
      /\ thread' = thread /\ flagIndex' = flagIndex /\ WindowStart' = WindowStart
      /\ Plan(informed)' = Plan(informed) /\ run = NoRun /\ run.pc = "none"
      /\ run' = [pc |-> "next", informed |-> informed, at |-> 1, slot |-> NoSlot, late |-> 0,
                 overall |-> "SUCCESS", avail |-> <<>>, rows |-> {}]
  BY PlanSame, RunShape, CheckAssumption DEF IInv, Begin, tables, vaultVars
<1>3. <<>> \in AvailMaps /\ DOMAIN <<>> = {}
  <2>1. <<>> \in [{} -> {"OK", "MISSING"}] /\ DOMAIN <<>> = {}
    OBVIOUS
  <2> QED BY <2>1 DEF AvailMaps
<1>4. Len(Plan(informed)) \in Nat
  BY PlanShape DEF IInv
<1>5. run' \in RunState(tick)
  BY <1>2, <1>3, CheckAssumption DEF RunState, Statuses
<1>6. RunIs(run', Plan(informed), tick, flagRows)
  BY <1>2, <1>3, <1>4, <1>5 DEF RunIs
<1>7. run'.informed = informed /\ Plan(run.informed)' = Plan(informed)
  BY <1>2 DEF Plan, Calls, CallsOverWindow, WindowStart
<1>8. RunOK'
  BY <1>2, <1>6, <1>7 DEF RunOK
<1>9. WaitOK'
  BY <1>2 DEF IInv, WaitOK, Working
<1>10. RowsOK'
  BY <1>2 DEF IInv, RowsOK
<1>11. HealthOK' /\ StatusIsEarned'
  BY <1>2 DEF IInv, HealthOK, StatusIsEarned
<1> QED BY <1>1, <1>2, <1>8, <1>9, <1>10, <1>11 DEF IInv

\* The steps that leave the run between two calls, the daemon and the tables alone.
LEMMA LocalKeeps ==
  ASSUME IInv, RunOK, run.pc = "next", RunOK', run'.pc = "next", run'.rows = run.rows,
         UNCHANGED <<vaultVars, tick, runs, tables>>
  PROVE  IInv'
<1>1. /\ tick' = tick /\ runs' = runs /\ flagRows' = flagRows /\ health' = health
      /\ thread' = thread /\ flagIndex' = flagIndex /\ WindowStart' = WindowStart
  BY PlanSame DEF tables, vaultVars
<1>2. VaultInv'
  BY <1>1, ClientKeepsVault DEF IInv, vaultVars, VaultInv, VaultTypeOK
<1>3. WaitOK'
  BY <1>1 DEF IInv, WaitOK, Working
<1>4. RowsOK'
  BY <1>1, RunShape DEF IInv, RowsOK
<1>5. HealthOK' /\ StatusIsEarned'
  BY <1>1 DEF IInv, HealthOK, StatusIsEarned
<1> QED BY <1>1, <1>2, <1>3, <1>4, <1>5 DEF IInv

\* The calls that are not made count against the status, once and for all
\* (checker_executor.py, mark_timeout).
LEMMA BudgetExceededKeeps ==
  ASSUME IInv, BudgetExceeded
  PROVE  IInv'
<1>1. RunOK /\ run.pc = "next" /\ run.at <= Len(Plan(run.informed))
  BY RunShape DEF IInv, BudgetExceeded, CallsLeft
<1>2. /\ run \in RunState(tick) /\ run.informed \in BOOLEAN /\ run.slot = NoSlot
      /\ Len(Plan(run.informed)) \in Nat
  BY <1>1, PlanShape DEF RunOK, RunIs, RunState, IInv
<1>3. Downgrade(run.overall, "TIMEOUT") \in Statuses \ {"SUCCESS", "RECOVERING"}
  <2>1. run.overall \in Statuses /\ "TIMEOUT" \in Statuses
    BY <1>2 DEF RunState, Statuses
  <2> QED BY <2>1, DowngradeShape
<1>4. run' = [run EXCEPT !.overall = Downgrade(run.overall, "TIMEOUT"),
                         !.at = Len(Plan(run.informed)) + 1]
  BY DEF BudgetExceeded
<1>5. /\ run' \in RunState(tick) /\ run'.pc = "next" /\ run'.slot = NoSlot
      /\ run'.rows = run.rows /\ run'.informed = run.informed
      /\ run'.at = Len(Plan(run.informed)) + 1
      /\ run'.overall \notin {"SUCCESS", "RECOVERING"}
  <2>1. run' = [pc |-> run.pc, informed |-> run.informed,
                at |-> Len(Plan(run.informed)) + 1, slot |-> run.slot, late |-> run.late,
                overall |-> Downgrade(run.overall, "TIMEOUT"), avail |-> run.avail,
                rows |-> run.rows]
    BY <1>2, <1>4 DEF RunState
  <2>2. Len(Plan(run.informed)) + 1 \in Nat \ {0}
    BY <1>2
  <2> QED BY <1>1, <1>2, <1>3, <2>1, <2>2 DEF RunState
<1>6. tick' = tick /\ flagRows' = flagRows
  BY DEF BudgetExceeded, tables
<1>7. Plan(run.informed)' = Plan(run.informed)
  BY <1>5, <1>6 DEF Plan, Calls, CallsOverWindow, WindowStart
<1>8. RunIs(run', Plan(run.informed), tick, flagRows)
  BY <1>2, <1>5 DEF RunIs
<1>9. RunOK'
  BY <1>6, <1>7, <1>8 DEF RunOK
<1>10. UNCHANGED <<vaultVars, tick, runs, tables>>
  BY DEF BudgetExceeded
<1> QED BY <1>1, <1>5, <1>9, <1>10, LocalKeeps

\* A flag that was never stored is not missed (checker_executor.py:318-325).
LEMMA NotStoredKeeps ==
  ASSUME IInv, NotStored
  PROVE  IInv'
<1> DEFINE P == Plan(run.informed)
           k == Key(Call)
           avail == Found(run.avail, k, "MISSING")
<1>1. RunOK /\ run.pc = "next" /\ run.at <= Len(P) /\ Call.method = "GETFLAG" /\ k \notin flagRows
  BY RunShape DEF IInv, NotStored, InTime, CallsLeft, Stored
<1>2. /\ run \in RunState(tick) /\ run.informed \in BOOLEAN /\ run.slot = NoSlot
      /\ Len(P) \in Nat /\ run.avail \in AvailMaps /\ run.at \in 1..Len(P)
      /\ Call = P[run.at] /\ k \in Ticks \X Variants /\ k[1] # tick
  BY <1>1, PlanShape, CallShape DEF RunOK, RunIs, RunState, IInv, Key
<1>3. IsFound(avail, run.avail, k, "MISSING")
  <2>1. "MISSING" \in {"OK", "MISSING"}
    OBVIOUS
  <2> HIDE DEF k
  <2> QED BY <1>2, <2>1, FoundShape DEF avail
<1>4. run' = [run EXCEPT !.avail = avail, !.at = run.at + 1]
  BY DEF NotStored
<1> HIDE DEF avail
<1>5. /\ run' \in RunState(tick) /\ run'.pc = "next" /\ run'.slot = NoSlot
      /\ run'.rows = run.rows /\ run'.informed = run.informed
      /\ run'.at = run.at + 1 /\ run'.overall = run.overall /\ run'.avail = avail
  <2>1. avail \in AvailMaps
    BY <1>3 DEF IsFound
  <2>2. run' = [pc |-> run.pc, informed |-> run.informed, at |-> run.at + 1,
                slot |-> run.slot, late |-> run.late, overall |-> run.overall,
                avail |-> avail, rows |-> run.rows]
    BY <1>2, <1>4 DEF RunState
  <2>3. run.at + 1 \in Nat \ {0}
    BY <1>2
  <2> QED BY <1>1, <1>2, <2>1, <2>2, <2>3 DEF RunState
<1>6. tick' = tick /\ flagRows' = flagRows
  BY DEF NotStored, tables
<1>7. Plan(run.informed)' = P
  BY <1>5, <1>6 DEF Plan, Calls, CallsOverWindow, WindowStart
<1> HIDE DEF P
<1>8. ASSUME run.overall \in {"SUCCESS", "RECOVERING"}, NEW i \in 1..run.at, P[i].method = "PUTFLAG"
      PROVE  Key(P[i]) \in DOMAIN avail /\ avail[Key(P[i])] = "OK" /\ Key(P[i]) \in run.rows
  <2>1. i \in 1..(run.at - 1)
    BY <1>1, <1>2, <1>8
  <2>2. Key(P[i]) \in DOMAIN run.avail /\ run.avail[Key(P[i])] = "OK" /\ Key(P[i]) \in run.rows
    BY <1>1, <1>8, <2>1 DEF RunOK, RunIs, P
  <2>3. run.rows \subseteq {tick} \X Variants
    BY <1>1, RunShape
  <2>4. Key(P[i]) # k
    <3> HIDE DEF k
    <3> QED BY <1>2, <2>2, <2>3
  <2> HIDE DEF k
  <2> QED BY <1>3, <2>2, <2>4 DEF IsFound
<1>9. ASSUME run.overall = "SUCCESS"
      PROVE  /\ \A i \in 1..run.at : P[i].method = "GETFLAG" => Key(P[i]) \in DOMAIN avail
             /\ \A j \in DOMAIN avail : avail[j] = "OK" \/ j \notin flagRows
  <2>1. /\ \A i \in 1..(run.at - 1) : P[i].method = "GETFLAG" => Key(P[i]) \in DOMAIN run.avail
        /\ \A j \in DOMAIN run.avail : run.avail[j] = "OK" \/ j \notin flagRows
    BY <1>1, <1>9 DEF RunOK, RunIs, P
  <2>2. ASSUME NEW i \in 1..run.at, P[i].method = "GETFLAG" PROVE Key(P[i]) \in DOMAIN avail
    <3>1. CASE i = run.at
      <4>1. Key(P[i]) = k
        BY <1>2, <3>1
      <4> HIDE DEF k
      <4> QED BY <1>3, <4>1 DEF IsFound
    <3>2. CASE i # run.at
      <4>1. i \in 1..(run.at - 1)
        BY <1>2, <3>2
      <4> HIDE DEF k
      <4> QED BY <1>3, <2>1, <2>2, <4>1 DEF IsFound
    <3> QED BY <3>1, <3>2
  <2>3. ASSUME NEW j \in DOMAIN avail PROVE avail[j] = "OK" \/ j \notin flagRows
    <3> HIDE DEF k
    <3> QED BY <1>1, <1>3, <2>1 DEF IsFound
  <2> QED BY <2>2, <2>3
<1>10. RunIs(run', P, tick, flagRows)
  <2>1. run'.at - 1 = run.at /\ run'.at <= Len(P) + 1
    BY <1>2, <1>5
  <2> HIDE DEF k
  <2> QED BY <1>5, <1>8, <1>9, <2>1 DEF RunIs
<1>11. RunOK'
  BY <1>6, <1>7, <1>10 DEF RunOK
<1>12. UNCHANGED <<vaultVars, tick, runs, tables>>
  BY DEF NotStored
<1> QED BY <1>1, <1>5, <1>11, <1>12, LocalKeeps

\* A request has one thread, which starts with a client that waits for it.
LEMMA SendKeeps ==
  ASSUME IInv, NEW s \in Slots, Send(s)
  PROVE  IInv'
<1>1. /\ RunOK /\ run.pc = "next" /\ run.at <= Len(Plan(run.informed))
      /\ run.late < BudgetTimeouts
  BY RunShape DEF IInv, Send, InTime, CallsLeft
<1>2. run \in RunState(tick) /\ Call \in Request /\ thread \in [Slots -> Thread]
  BY <1>1, CallShape DEF IInv, RunOK, RunIs, VaultInv, VaultTypeOK
<1>3. /\ thread' = [thread EXCEPT ![s] = [pc |-> "queued", req |-> Call, awaited |-> TRUE]]
      /\ run' = [run EXCEPT !.pc = "waits", !.slot = s]
      /\ tick' = tick /\ runs' = runs /\ flagRows' = flagRows /\ health' = health
      /\ flagIndex' = flagIndex /\ alive
  BY DEF Send, tables
<1>4. [pc |-> "queued", req |-> Call, awaited |-> TRUE] \in Thread
  BY <1>2 DEF Thread
<1>5. /\ thread' \in [Slots -> Thread]
      /\ thread'[s] = [pc |-> "queued", req |-> Call, awaited |-> TRUE]
      /\ \A u \in Slots \ {s} : thread'[u] = thread[u]
  BY <1>2, <1>3, <1>4
<1>6. VaultInv'
  <2>1. thread'[s].pc = "queued"
    BY <1>5
  <2>2. \A u \in Slots : thread'[u] = thread[u] \/ (thread'[u].pc = "queued" /\ alive)
    BY <1>3, <1>5, <2>1
  <2>3. UNCHANGED <<alive, objects, objectRows, flagIndex, records, mutex, faults>>
    BY DEF Send
  <2> QED BY <1>5, <2>2, <2>3, ClientKeepsVault DEF IInv
<1>7. run' = [pc |-> "waits", informed |-> run.informed, at |-> run.at, slot |-> s,
              late |-> run.late, overall |-> run.overall, avail |-> run.avail,
              rows |-> run.rows]
  BY <1>2, <1>3 DEF RunState
<1>8. Plan(run.informed)' = Plan(run.informed) /\ Call' = Call /\ WindowStart' = WindowStart
  BY <1>3, <1>7 DEF Call, Plan, Calls, CallsOverWindow, WindowStart
<1>9. RunOK'
  <2>1. run' \in RunState(tick)
    BY <1>2, <1>7 DEF RunState
  <2>2. RunIs(run', Plan(run.informed), tick, flagRows)
    BY <1>1, <1>7, <2>1 DEF RunOK, RunIs
  <2> QED BY <1>3, <1>8, <2>2 DEF RunOK
<1>10. WaitOK'
  <2>1. \A u \in Slots : ~((Working(u) /\ thread[u].awaited) \/ thread[u].pc = "done")
    BY <1>1 DEF IInv, WaitOK
  <2> QED BY <1>5, <1>7, <1>8, <2>1 DEF WaitOK, Working
<1>11. RowsOK'
  BY <1>1, <1>3, <1>7, RunShape DEF IInv, RowsOK
<1>12. HealthOK' /\ StatusIsEarned'
  BY <1>3, <1>8 DEF IInv, HealthOK, StatusIsEarned
<1> QED BY <1>3, <1>6, <1>9, <1>10, <1>11, <1>12 DEF IInv

\* Nobody waits for an answer.
Unawaited == \A s \in Slots : ~((Working(s) /\ thread[s].awaited) \/ thread[s].pc = "done")

\* What a client may do to the threads: take an answer, or not wait any longer.
LetGo ==
  /\ thread' \in [Slots -> Thread]
  /\ \A s \in Slots : \/ thread'[s] = thread[s]
                      \/ thread'[s] = Idle
                      \/ thread'[s].pc = thread[s].pc /\ thread'[s].req = thread[s].req
  /\ Unawaited'

\* A client that gives up leaves nobody waiting, and the thread goes on.
LEMMA GiveUpShape ==
  ASSUME VaultTypeOK, WaitOK, GiveUp
  PROVE  LetGo
<1>1. ASSUME NEW s \in Slots
      PROVE  /\ thread'[s] \in Thread
             /\ \/ thread'[s] = thread[s]
                \/ thread'[s] = Idle
                \/ thread'[s].pc = thread[s].pc /\ thread'[s].req = thread[s].req
             /\ ~((Working(s)' /\ thread'[s].awaited) \/ thread'[s].pc = "done")
  <2>1. thread'[s] = IF run.pc # "waits" \/ s # run.slot THEN thread[s]
                     ELSE IF thread[s].pc \in {"free", "done"} THEN Idle
                     ELSE [thread[s] EXCEPT !.awaited = FALSE]
    BY DEF GiveUp
  <2>2. thread[s] \in Thread
    BY DEF VaultTypeOK
  <2>3. CASE run.pc # "waits" \/ s # run.slot
    BY <2>1, <2>2, <2>3 DEF WaitOK, Working
  <2>4. CASE run.pc = "waits" /\ s = run.slot /\ thread[s].pc \in {"free", "done"}
    BY <2>1, <2>4 DEF Idle, Thread, Working
  <2>5. CASE run.pc = "waits" /\ s = run.slot /\ thread[s].pc \notin {"free", "done"}
    <3>1. thread[s] \in [pc : {"queued", "indexing", "asking", "stored"}, req : Request,
                         awaited : BOOLEAN]
      BY <2>2, <2>5 DEF Thread, Idle
    <3>2. thread'[s] = [pc |-> thread[s].pc, req |-> thread[s].req, awaited |-> FALSE]
      BY <2>1, <2>5, <3>1
    <3> QED BY <3>1, <3>2 DEF Thread, Working
  <2> QED BY <2>3, <2>4, <2>5
<1>2. thread' = [s \in Slots |-> thread'[s]]
  BY DEF GiveUp
<1> QED BY <1>1, <1>2 DEF LetGo, Unawaited, Working

\* A call is over: its flag is one of the run's only if it is in the index.
LEMMA AccountedKeeps ==
  ASSUME IInv, RunOK, run.at <= Len(Plan(run.informed)), run.late < BudgetTimeouts,
         NEW outcome \in Outcomes, Account(outcome), LetGo,
         outcome = "OK" /\ Call.method = "PUTFLAG" /\ Call.variant = 0 =>
           flagIndex[<<Call.tick, 0>>] # NoRef,
         UNCHANGED <<alive, objects, objectRows, flagIndex, records, mutex, faults,
                     tick, runs, tables>>
  PROVE  IInv'
<1>1. /\ tick' = tick /\ runs' = runs /\ flagRows' = flagRows /\ health' = health
      /\ flagIndex' = flagIndex /\ WindowStart' = WindowStart
  BY PlanSame DEF tables
<1>2. /\ RunOK' /\ run'.pc = "next"
      /\ run'.rows \subseteq run.rows \cup {Key(Call)}
      /\ Key(Call) \in run'.rows =>
           Key(Call) \in run.rows \/ (outcome = "OK" /\ Call.method = "PUTFLAG")
  BY <1>1, AccountKeeps DEF IInv
<1>3. VaultInv'
  BY ClientKeepsVault DEF IInv, LetGo
<1>4. WaitOK'
  BY DEF LetGo, Unawaited, WaitOK, Working
<1>5. RowsOK'
  <2> SUFFICES ASSUME NEW t \in Ticks, <<t, 0>> \in flagRows \/ <<t, 0>> \in run'.rows
               PROVE  flagIndex[<<t, 0>>] # NoRef
    BY <1>1 DEF RowsOK
  <2>1. CASE <<t, 0>> \in flagRows \/ <<t, 0>> \in run.rows
    BY <2>1, RunShape DEF IInv, RowsOK
  <2>2. CASE <<t, 0>> \notin run.rows /\ <<t, 0>> \in run'.rows
    <3>1. <<t, 0>> = Key(Call)
      BY <1>2, <2>2
    <3>2. Call.tick = t /\ Call.variant = 0
      BY <3>1 DEF Key
    <3> QED BY <1>2, <2>2, <3>1, <3>2
  <2> QED BY <2>1, <2>2
<1>6. HealthOK' /\ StatusIsEarned'
  BY <1>1 DEF IInv, HealthOK, StatusIsEarned
<1> QED BY <1>1, <1>2, <1>3, <1>4, <1>5, <1>6 DEF IInv

\* An answer in time (checker_executor.py:187-205).
LEMMA ReceiveKeeps ==
  ASSUME IInv, Receive
  PROVE  IInv'
<1> DEFINE s == run.slot
           answer == thread[s].answer
           outcome == IF answer = "HTTP500" THEN "OFFLINE" ELSE answer
<1>1. /\ RunOK /\ run.at <= Len(Plan(run.informed)) /\ run.late < BudgetTimeouts
      /\ s \in Slots /\ thread[s].pc = "done" /\ run.pc = "waits"
  BY RunShape DEF IInv, Receive, RunOK, RunIs
<1>2. answer \in {"OK", "MUMBLE", "HTTP500"} /\ outcome \in Outcomes
  <2>1. answer \in {"OK", "MUMBLE", "HTTP500"}
    BY <1>1, ThreadShape DEF IInv, VaultInv
  <2> QED BY <2>1 DEF Outcomes
<1>3. outcome = "OK" => answer = "OK"
  OBVIOUS
<1>4. LetGo
  <2>1. thread \in [Slots -> Thread] /\ Idle \in Thread
    BY DEF IInv, VaultInv, VaultTypeOK, Thread
  <2>2. thread' = [thread EXCEPT ![s] = Idle]
    BY DEF Receive
  <2>3. /\ thread' \in [Slots -> Thread] /\ thread'[s] = Idle
        /\ \A u \in Slots \ {s} : thread'[u] = thread[u]
    BY <1>1, <2>1, <2>2
  <2>4. Unawaited'
    BY <1>1, <2>3 DEF IInv, WaitOK, Unawaited, Working, Idle
  <2> HIDE DEF s
  <2> QED BY <2>3, <2>4 DEF LetGo
<1>5. answer = "OK" /\ Call.method = "PUTFLAG" /\ Call.variant = 0 =>
        flagIndex[<<Call.tick, 0>>] # NoRef
  BY <1>1 DEF IInv, WaitOK
<1>6. /\ Account(outcome)
      /\ UNCHANGED <<alive, objects, objectRows, flagIndex, records, mutex, faults,
                     tick, runs, tables>>
  BY DEF Receive
<1> HIDE DEF outcome, answer, s
<1> QED BY <1>1, <1>2, <1>3, <1>4, <1>5, <1>6, AccountedKeeps

\* No answer in time: the client closes its connection.
LEMMA ClientTimeoutKeeps ==
  ASSUME IInv, ClientTimeout
  PROVE  IInv'
<1>1. RunOK /\ run.at <= Len(Plan(run.informed)) /\ run.late < BudgetTimeouts
  BY RunShape DEF IInv, ClientTimeout, RunOK, RunIs
<1>2. LetGo
  BY GiveUpShape DEF IInv, VaultInv, ClientTimeout
<1>3. "INTERNAL_ERROR" \in Outcomes
  BY DEF Outcomes
<1>4. /\ Account("INTERNAL_ERROR")
      /\ UNCHANGED <<alive, objects, objectRows, flagIndex, records, mutex, faults,
                     tick, runs, tables>>
  BY DEF ClientTimeout
<1> QED BY <1>1, <1>2, <1>3, <1>4, AccountedKeeps

\* No connection, or one that was reset.
LEMMA DisconnectedKeeps ==
  ASSUME IInv, Disconnected
  PROVE  IInv'
<1>1. /\ RunOK /\ run.at <= Len(Plan(run.informed)) /\ run.late < BudgetTimeouts
      /\ run.pc = "next" \/ Free(run.slot)
  BY RunShape DEF IInv, Disconnected, InTime, CallsLeft, RunOK, RunIs
<1>2. thread' = thread
  BY DEF Disconnected, vaultVars
<1>3. LetGo
  BY <1>1, <1>2 DEF IInv, VaultInv, VaultTypeOK, WaitOK, LetGo, Unawaited, Working, Free
<1>4. "OFFLINE" \in Outcomes
  BY DEF Outcomes
<1>5. /\ Account("OFFLINE")
      /\ UNCHANGED <<alive, objects, objectRows, flagIndex, records, mutex, faults,
                     tick, runs, tables>>
  BY DEF Disconnected, vaultVars
<1> QED BY <1>1, <1>3, <1>4, <1>5, AccountedKeeps

\* The end of a run: every call was made, and what the status says of the calls
\* it says of the flags (checker_executor.py:352-372).
LEMMA RecordKeeps ==
  ASSUME IInv, Record
  PROVE  IInv'
<1> DEFINE P == Plan(run.informed)
<1>1. RunOK /\ run.pc = "next" /\ ~(run.at <= Len(P))
  BY RunShape DEF IInv, Record, CallsLeft
<1>2. /\ run \in RunState(tick) /\ run.informed \in BOOLEAN /\ Len(P) \in Nat
      /\ run.at - 1 = Len(P) /\ run.rows \subseteq {tick} \X Variants
      /\ run.avail \in AvailMaps /\ run.overall \in Statuses
  BY <1>1, PlanShape DEF RunOK, RunIs, RunState, IInv
<1>3. /\ flagRows' = flagRows \cup run.rows
      /\ health' = [status |-> run.overall, avail |-> run.avail]
      /\ run' = NoRun /\ tick' = tick /\ runs' = runs
      /\ thread' = thread /\ flagIndex' = flagIndex /\ WindowStart' = WindowStart
  BY PlanSame DEF Record, vaultVars
<1>4. VaultInv'
  BY <1>3, ClientKeepsVault DEF IInv, Record, vaultVars, VaultInv, VaultTypeOK
<1>5. WaitOK'
  BY <1>1, <1>3, RunShape DEF IInv, WaitOK, Working
<1>6. RowsOK'
  BY <1>1, <1>3, RunShape DEF IInv, RowsOK
<1>7. HealthOK'
  BY <1>2, <1>3 DEF HealthOK
<1>8. ASSUME run.overall \in {"SUCCESS", "RECOVERING"}, NEW v \in Variants
      PROVE  /\ <<tick, v>> \in DOMAIN run.avail /\ run.avail[<<tick, v>>] = "OK"
             /\ <<tick, v>> \in run.rows
  <2>1. PICK i \in 1..Len(P) : P[i] = [method |-> "PUTFLAG", tick |-> tick, variant |-> v]
    BY <1>2, PlanShape DEF IInv
  <2>2. Key(P[i]) = <<tick, v>> /\ P[i].method = "PUTFLAG"
    BY <2>1 DEF Key
  <2>3. /\ Key(P[i]) \in DOMAIN run.avail /\ run.avail[Key(P[i])] = "OK"
        /\ Key(P[i]) \in run.rows
    BY <1>1, <1>2, <1>8, <2>2 DEF RunOK, RunIs
  <2> QED BY <2>2, <2>3
<1>9. ASSUME run.overall = "SUCCESS", NEW t \in WindowStart..(tick - 1), NEW v \in Variants
      PROVE  /\ <<t, v>> \in DOMAIN run.avail
             /\ run.avail[<<t, v>>] = "OK" \/ <<t, v>> \notin flagRows \cup run.rows
  <2>1. PICK i \in 1..Len(P) : P[i] = [method |-> "GETFLAG", tick |-> t, variant |-> v]
    BY <1>2, PlanShape DEF IInv
  <2>2. Key(P[i]) = <<t, v>> /\ P[i].method = "GETFLAG"
    BY <2>1 DEF Key
  <2>3. Key(P[i]) \in DOMAIN run.avail
    BY <1>1, <1>2, <1>9, <2>2 DEF RunOK, RunIs
  <2>4. run.avail[<<t, v>>] = "OK" \/ <<t, v>> \notin flagRows
    BY <1>1, <1>9, <2>2, <2>3 DEF RunOK, RunIs
  <2>5. <<t, v>> \notin run.rows
    BY <1>2, WindowShape DEF IInv
  <2> QED BY <2>2, <2>3, <2>4, <2>5
<1>10. StatusIsEarned'
  <2>1. /\ health'.status = run.overall /\ health'.avail = run.avail
    BY <1>3
  <2>2. health'.status \in {"SUCCESS", "RECOVERING"} =>
          \A v \in Variants : /\ <<tick, v>> \in DOMAIN health'.avail
                              /\ health'.avail[<<tick, v>>] = "OK"
                              /\ <<tick, v>> \in flagRows'
    BY <1>3, <1>8, <2>1
  <2>3. health'.status = "SUCCESS" =>
          \A t \in WindowStart..(tick - 1), v \in Variants :
            /\ <<t, v>> \in DOMAIN health'.avail
            /\ health'.avail[<<t, v>>] = "OK" \/ <<t, v>> \notin flagRows'
    BY <1>3, <1>9, <2>1
  <2> QED BY <1>3, <2>2, <2>3 DEF StatusIsEarned
<1>11. flagRows' \subseteq Ticks \X Variants
  BY <1>2, <1>3 DEF IInv
<1> QED BY <1>3, <1>4, <1>5, <1>6, <1>7, <1>10, <1>11 DEF IInv

\* A run that raises has stored nothing, and its request is given up.
LEMMA RaiseKeeps ==
  ASSUME IInv, Raise
  PROVE  IInv'
<1>1. /\ run' = NoRun /\ run'.pc = "none" /\ tick' = tick /\ runs' = runs
      /\ flagRows' = flagRows /\ health' = health /\ flagIndex' = flagIndex
      /\ WindowStart' = WindowStart
  BY PlanSame, RunShape DEF Raise, tables
<1>2. LetGo
  BY GiveUpShape DEF IInv, VaultInv, Raise
<1>3. UNCHANGED <<alive, objects, objectRows, flagIndex, records, mutex, faults>>
  BY DEF Raise
<1>4. VaultInv'
  BY <1>2, <1>3, ClientKeepsVault DEF IInv, LetGo
<1>5. WaitOK'
  BY <1>2 DEF LetGo, Unawaited, WaitOK, Working
<1>6. RowsOK'
  BY <1>1 DEF IInv, RowsOK
<1>7. HealthOK' /\ StatusIsEarned'
  BY <1>1 DEF IInv, HealthOK, StatusIsEarned
<1> QED BY <1>1, <1>4, <1>5, <1>6, <1>7 DEF IInv

\* The next tick has a row of its own, and none of its flags yet.
LEMMA NextTickKeeps ==
  ASSUME IInv, NextTick
  PROVE  IInv'
<1>1. /\ run = NoRun /\ run' = run /\ run.pc = "none" /\ tick' = tick + 1 /\ tick' \in Ticks
      /\ runs' = runs /\ flagRows' = flagRows /\ health' = NoRow
      /\ thread' = thread /\ flagIndex' = flagIndex
  BY RunShape DEF NextTick, vaultVars
<1>2. tick' >= 1
  BY <1>1, VaultAssumption DEF IInv
<1>3. VaultInv'
  BY <1>1, ClientKeepsVault DEF IInv, NextTick, vaultVars, VaultInv, VaultTypeOK
<1>4. WaitOK'
  BY <1>1 DEF IInv, WaitOK, Working
<1>5. RowsOK'
  BY <1>1 DEF IInv, RowsOK
<1>6. HealthOK' /\ StatusIsEarned'
  BY <1>1 DEF HealthOK, StatusIsEarned, NoRow
<1> QED BY <1>1, <1>2, <1>3, <1>4, <1>5, <1>6 DEF IInv

-----------------------------------------------------------------------------
(* The specification.                                                      *)

\* The platform and the daemon start with nothing.
LEMMA InitIInv == CheckInit => IInv
<1> SUFFICES ASSUME CheckInit PROVE IInv
  OBVIOUS
<1>1. VaultInv
  BY VaultInit DEF CheckInit
<1>2. \A s \in Slots : thread[s] = Idle
  BY DEF CheckInit, Init
<1>3. WaitOK
  BY <1>2 DEF WaitOK, Working, Idle
<1>4. RowsOK /\ HealthOK /\ StatusIsEarned
  BY DEF CheckInit, RowsOK, HealthOK, StatusIsEarned, NoRow
<1>5. tick \in Ticks /\ tick >= 1 /\ runs \in 0..MaxRuns /\ run = NoRun
      /\ flagRows \subseteq Ticks \X Variants
  BY CheckAssumption DEF CheckInit
<1> QED BY <1>1, <1>3, <1>4, <1>5 DEF IInv

\* Every step of the platform or of the daemon keeps the invariant.
LEMMA IInvNext == IInv /\ [Next]_vars => IInv'
<1> SUFFICES ASSUME IInv, [Next]_vars PROVE IInv'
  OBVIOUS
<1>1. CASE VaultStep /\ UNCHANGED <<tick, runs, run, tables>>
  BY <1>1, DaemonKeeps
<1>2. CASE NotStored
  BY <1>2, NotStoredKeeps
<1>3. CASE \E s \in Slots : Send(s)
  BY <1>3, SendKeeps
<1>4. CASE ClientTimeout
  BY <1>4, ClientTimeoutKeeps
<1>5. CASE Disconnected
  BY <1>5, DisconnectedKeeps
<1>6. CASE Record
  BY <1>6, RecordKeeps
<1>7. CASE BudgetExceeded
  BY <1>7, BudgetExceededKeeps
<1>8. CASE Receive
  BY <1>8, ReceiveKeeps
<1>9. CASE Raise
  BY <1>9, RaiseKeeps
<1>10. CASE NextTick
  BY <1>10, NextTickKeeps
<1>11. CASE \E informed \in BOOLEAN : Begin(informed)
  BY <1>11, BeginKeeps
<1>12. CASE UNCHANGED vars
  <2>1. /\ tick' = tick /\ runs' = runs /\ run' = run /\ flagRows' = flagRows /\ health' = health
        /\ thread' = thread /\ flagIndex' = flagIndex
        /\ UNCHANGED <<alive, objects, objectRows, flagIndex, records, mutex, faults>>
    BY <1>12 DEF vars, vaultVars, tables
  <2>2. VaultInv'
    BY <2>1, ClientKeepsVault DEF IInv, VaultInv, VaultTypeOK
  <2>3. WindowStart' = WindowStart /\ Call' = Call /\ Plan(run.informed)' = Plan(run.informed)
    BY <2>1, PlanSame
  <2>4. WaitOK' /\ RowsOK' /\ HealthOK' /\ StatusIsEarned'
    BY <2>1, <2>3 DEF IInv, WaitOK, Working, RowsOK, HealthOK, StatusIsEarned
  <2>5. RunOK => RunOK'
    BY <2>1, <2>3 DEF RunOK
  <2> QED BY <2>1, <2>2, <2>4, <2>5 DEF IInv
<1> QED BY <1>1, <1>2, <1>3, <1>4, <1>5, <1>6, <1>7, <1>8, <1>9, <1>10, <1>11, <1>12
        DEF Next, RunStep

\* The invariant holds in every state of every behaviour.
LEMMA Invariance == Spec => []IInv
  BY InitIInv, IInvNext, PTL DEF Spec

\* Every variable keeps its type, the locals of a run included.
THEOREM TypesKept == Spec => []TypeOK
<1>1. IInv => TypeOK
  <2> SUFFICES ASSUME IInv PROVE TypeOK
    OBVIOUS
  <2>1. ASSUME NEW f \in AvailMaps PROVE Avail(f)
    BY DEF AvailMaps, Avail
  <2>2. DOMAIN Rank = Statuses
    BY DowngradeShape
  <2>3. ASSUME RunOK
        PROVE  /\ run.pc \in {"next", "waits"}
               /\ run.informed \in BOOLEAN
               /\ run.at \in 1..(Len(Plan(run.informed)) + 1)
               /\ run.slot \in Slots \cup {NoSlot}
               /\ run.pc = "waits" <=> run.slot # NoSlot
               /\ run.late \in 0..BudgetTimeouts
               /\ run.overall \in DOMAIN Rank
               /\ Avail(run.avail)
               /\ run.rows \subseteq Ticks \X Variants
    <3>1. /\ run \in RunState(tick) /\ run.at <= Len(Plan(run.informed)) + 1
          /\ run.pc = "next" => run.slot = NoSlot
          /\ run.pc = "waits" => run.slot \in Slots
      BY <2>3 DEF RunOK, RunIs
    <3>2. /\ run.pc \in {"next", "waits"} /\ run.informed \in BOOLEAN
          /\ run.slot \in Slots \cup {NoSlot} /\ run.late \in 0..BudgetTimeouts
          /\ run.overall \in Statuses /\ run.avail \in AvailMaps
          /\ run.rows \subseteq {tick} \X Variants /\ run.at \in Nat \ {0}
      BY <3>1 DEF RunState
    <3>3. Len(Plan(run.informed)) \in Nat /\ tick \in Ticks
      BY <3>2, PlanShape DEF IInv
    <3>4. run.at \in 1..(Len(Plan(run.informed)) + 1)
      BY <3>1, <3>2, <3>3
    <3>5. run.rows \subseteq Ticks \X Variants
      BY <3>2, <3>3
    <3>6. Avail(run.avail)
      BY <2>1, <3>2
    <3> QED BY <2>2, <3>1, <3>2, <3>4, <3>5, <3>6, VaultAssumption
  <2>4. health # NoRow => health.status \in DOMAIN Rank /\ Avail(health.avail)
    BY <2>1, <2>2 DEF IInv, HealthOK
  <2> QED BY <2>3, <2>4 DEF IInv, VaultInv, TypeOK
<1> QED BY <1>1, Invariance, PTL

\* Whatever the index of the daemon names is there, between any two commits, after
\* any crash, and when a request that was given up is finished late (state.cpp,
\* put_flag_vault, put_flag_sidecar and init).
THEOREM NamedIsKept == Spec => []IndexedIsKept
<1>1. IInv => IndexedIsKept
  BY DEF IInv, VaultInv
<1> QED BY <1>1, Invariance, PTL

\* A flag of the vault's own variant that the platform has stored, or is about to,
\* is served, whatever crashed, timed out or was repeated (checker_executor.py,
\* _store_putflag_result; state.cpp).
THEOREM StoredIsServed == Spec => []StoredFlagIsServed
<1>1. IInv => StoredFlagIsServed
  <2> SUFFICES ASSUME IInv, NEW t \in Ticks,
                      <<t, 0>> \in flagRows \/ (run # NoRun /\ <<t, 0>> \in run.rows)
               PROVE  /\ flagIndex[<<t, 0>>] # NoRef
                      /\ FlagObject(t) \in objectRows /\ (alive => FlagObject(t) \in objects)
    BY DEF StoredFlagIsServed, FlagObject
  <2>1. flagIndex[<<t, 0>>] # NoRef
    BY DEF IInv, RowsOK
  <2>2. 0 \in Variants
    BY RunShape DEF IInv
  <2>3. IndexedIsKept
    BY DEF IInv, VaultInv
  <2> QED BY <2>1, <2>2, <2>3 DEF IndexedIsKept, FlagObject
<1> QED BY <1>1, Invariance, PTL

\* A status is earned: SUCCESS and RECOVERING mean that every flag of the tick was
\* stored, SUCCESS that none of the window was missed (run_checks_for).
THEOREM StatusesAreEarned == Spec => []StatusIsEarned
<1>1. IInv => StatusIsEarned
  BY DEF IInv
<1> QED BY <1>1, Invariance, PTL
=============================================================================

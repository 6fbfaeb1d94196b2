----------------------------- MODULE VaultGrid -----------------------------
(***************************************************************************)
(* The storage daemon of the VaultGrid challenge (service/src, C++) as the *)
(* platform's checks use it: one thread per request, all of them behind    *)
(* the mutex db.mu; the objects in memory and in SQLite, the index of      *)
(* flags in SQLite, and the records of the two sidecars, which the daemon  *)
(* asks over HTTP while it holds the mutex.                                *)
(*                                                                         *)
(* Every SQL statement is a transaction of its own.  A thread's steps are  *)
(* cut at the commits and at the exchange with a sidecar.                  *)
(***************************************************************************)
EXTENDS Integers, FiniteSets

CONSTANTS
  Ticks,       \* the ticks that flags are made for
  NumPayloads, \* the flag variants
  NumHavocs,   \* the havoc variants
  Slots,       \* bound: the threads at work at a time
  NoSlot,
  NoRef,       \* no row in flag_index
  MaxFaults    \* bound: crashes of the daemon and failing SQL statements

ASSUME VaultAssumption ==
  /\ Ticks \subseteq Nat
  /\ NumPayloads \in Nat
  /\ NumHavocs \in Nat
  /\ NoSlot \notin Slots
  /\ NoRef \notin Nat
  /\ MaxFaults \in Nat

VARIABLES
  alive,       \* the daemon runs
  objects,     \* VaultState.objects, in memory
  objectRows,  \* table objects
  flagIndex,   \* table flag_index: the reference of a tick's variant
  records,     \* what the sidecars have stored
  mutex,       \* the thread that holds db.mu
  thread,      \* per slot, the request and how far it is
  faults       \* crashes and failed statements so far

vaultVars == <<alive, objects, objectRows, flagIndex, records, mutex, thread,
               faults>>

\* Of flags and of noise, variant 0 is the vault's own, the others have a sidecar each.
\* The daemon does not tell the havoc variants apart.
Variants == 0..(NumPayloads - 1)
HavocVariants == 0..(NumHavocs - 1)
Methods == {"PUTFLAG", "GETFLAG", "PUTNOISE", "GETNOISE", "HAVOC"}
Kinds == {"flag", "noise"}

Request == [method : Methods \ {"HAVOC"}, tick : Ticks, variant : Variants]
      \cup [method : {"HAVOC"}, tick : Ticks, variant : HavocVariants]

\* An object or a record of a sidecar.  A flag's record has a random id: n
\* tells those of one tick and variant apart.  Noise has a fixed id, n = 0.
Item == [kind : Kinds, tick : Ticks, variant : Variants, n : Nat]

Idle == [pc |-> "free"]
Thread == {Idle}
     \cup [pc : {"queued", "indexing", "asking", "stored"}, req : Request,
           awaited : BOOLEAN]
     \cup [pc : {"done"}, answer : {"OK", "MUMBLE", "HTTP500"}]

Free(s) == thread[s].pc = "free"
Kind(req) == IF req.method \in {"PUTFLAG", "GETFLAG"} THEN "flag" ELSE "noise"

\* The id of an object is a hash of the tick and the flag, or of the tick.
ObjectOf(req) ==
  [kind |-> Kind(req), tick |-> req.tick, variant |-> 0, n |-> 0]

\* A new random id is unlike those in use.
FreshRecord(req) ==
  [kind |-> Kind(req), tick |-> req.tick, variant |-> req.variant,
   n |-> IF Kind(req) = "noise" THEN 0
         ELSE 1 + Cardinality({r \in records : /\ r.kind = "flag"
                                               /\ r.tick = req.tick
                                               /\ r.variant = req.variant})]

\* The record a GET asks the sidecar for: of a flag, the one the index names.
RecordOf(req) ==
  [kind |-> Kind(req), tick |-> req.tick, variant |-> req.variant,
   n |-> IF Kind(req) = "noise" THEN 0
         ELSE flagIndex[<<req.tick, req.variant>>]]

Indexed(req) == flagIndex[<<req.tick, req.variant>>] # NoRef

Init ==
  /\ alive = TRUE
  /\ objects = {} /\ objectRows = {}
  /\ flagIndex = [tv \in Ticks \X Variants |-> NoRef]
  /\ records = {}
  /\ mutex = NoSlot
  /\ thread = [s \in Slots |-> Idle]
  /\ faults = 0

----------------------------------------------------------------------------
\* The thread of slot s is about to take the mutex for one of the methods.
Takes(s, methods) ==
  /\ thread[s].pc = "queued"
  /\ thread[s].req.method \in methods
  /\ mutex = NoSlot

Goes(s, pc) == thread' = [thread EXCEPT ![s].pc = pc]

\* The answer is sent; a client that has given up has closed its connection.
Answers(s, answer) ==
  /\ thread' = [thread EXCEPT ![s] =
                  IF @.awaited THEN [pc |-> "done", answer |-> answer] ELSE Idle]
  /\ mutex' = NoSlot
Verdict(found) == IF found THEN "OK" ELSE "MUMBLE"

\* put_flag_vault: the maps in memory, then the row of the object; ...
PutVault(s) ==
  /\ Takes(s, {"PUTFLAG"}) /\ thread[s].req.variant = 0
  /\ objects' = objects \cup {ObjectOf(thread[s].req)}
  /\ objectRows' = objectRows \cup {ObjectOf(thread[s].req)}
  /\ mutex' = s
  /\ Goes(s, "indexing")
  /\ UNCHANGED <<alive, flagIndex, records, faults>>

\* ... then the row of the index, and the answer.
IndexVault(s) ==
  /\ thread[s].pc = "indexing"
  /\ flagIndex' = [flagIndex EXCEPT ![<<thread[s].req.tick, 0>>] = 0]
  /\ Answers(s, "OK")
  /\ UNCHANGED <<alive, objects, objectRows, records, faults>>

PutNoiseVault(s) ==
  /\ Takes(s, {"PUTNOISE"}) /\ thread[s].req.variant = 0
  /\ objects' = objects \cup {ObjectOf(thread[s].req)}
  /\ objectRows' = objectRows \cup {ObjectOf(thread[s].req)}
  /\ Answers(s, "OK")
  /\ UNCHANGED <<alive, flagIndex, records, faults>>

\* get_flag and get_noise, variant 0: the index has the flag, the memory the
\* object.
GetVault(s) ==
  LET req == thread[s].req IN
  /\ Takes(s, {"GETFLAG", "GETNOISE"}) /\ req.variant = 0
  /\ Answers(s, Verdict(/\ req.method = "GETFLAG" => Indexed(req)
                        /\ ObjectOf(req) \in objects))
  /\ UNCHANGED <<alive, objects, objectRows, flagIndex, records, faults>>

Havoc(s) ==
  /\ Takes(s, {"HAVOC"})
  /\ Answers(s, Verdict(objects # {}))
  /\ UNCHANGED <<alive, objects, objectRows, flagIndex, records, faults>>

\* The other variants ask their sidecar, and keep the mutex meanwhile.  A flag
\* that is not in the index is not asked for.
AskSidecar(s) ==
  LET req == thread[s].req IN
  /\ Takes(s, Methods \ {"HAVOC"}) /\ req.variant # 0
  /\ IF req.method = "GETFLAG" /\ ~Indexed(req)
     THEN Answers(s, "MUMBLE")
     ELSE Goes(s, "asking") /\ mutex' = s
  /\ UNCHANGED <<alive, objects, objectRows, flagIndex, records, faults>>

\* A sidecar stores what it is sent, ...
SidecarStores(s) ==
  /\ thread[s].pc = "asking"
  /\ thread[s].req.method \in {"PUTFLAG", "PUTNOISE"}
  /\ records' = records \cup {FreshRecord(thread[s].req)}
  /\ Goes(s, "stored")
  /\ UNCHANGED <<alive, objects, objectRows, flagIndex, mutex, faults>>

\* ... and says so; only then is a flag put into the index.
SidecarConfirms(s) ==
  LET req == thread[s].req IN
  /\ thread[s].pc = "stored"
  /\ flagIndex' = IF req.method # "PUTFLAG" THEN flagIndex
                  ELSE [flagIndex EXCEPT ![<<req.tick, req.variant>>] =
                          FreshRecord(req).n - 1]
  /\ Answers(s, "OK")
  /\ UNCHANGED <<alive, objects, objectRows, records, faults>>

SidecarShows(s) ==
  /\ thread[s].pc = "asking"
  /\ thread[s].req.method \in {"GETFLAG", "GETNOISE"}
  /\ Answers(s, Verdict(RecordOf(thread[s].req) \in records))
  /\ UNCHANGED <<alive, objects, objectRows, flagIndex, records, faults>>

\* Mutants: the failure branch does not return; the socket has no timeout.
SidecarFailsIndexes(s) ==
  LET req == thread[s].req IN
  /\ thread[s].pc \in {"asking", "stored"}
  /\ flagIndex' = IF req.method # "PUTFLAG" THEN flagIndex
                  ELSE [flagIndex EXCEPT ![<<req.tick, req.variant>>] = FreshRecord(req).n]
  /\ Answers(s, Verdict(req.method \in {"PUTFLAG", "PUTNOISE"}))
  /\ UNCHANGED <<alive, objects, objectRows, records, faults>>
SidecarFailsUnsent(s) ==
  /\ thread[s].pc = "asking"
  /\ Answers(s, Verdict(thread[s].req.method \in {"PUTFLAG", "PUTNOISE"}))
  /\ UNCHANGED <<alive, objects, objectRows, flagIndex, records, faults>>

\* No connection, nothing received for 5 seconds, or another status than 200.  A
\* PUT is answered OK all the same (with an error as its attack_info).  The 5 seconds
\* are those of one recv: that the exchange ends is an assumption about a sidecar
\* that sends its answer a piece at a time, which recv_all reads to its end.
SidecarFails(s) ==
  /\ thread[s].pc \in {"asking", "stored"}
  /\ Answers(s, Verdict(thread[s].req.method \in {"PUTFLAG", "PUTNOISE"}))
  /\ UNCHANGED <<alive, objects, objectRows, flagIndex, records, faults>>

----------------------------------------------------------------------------
\* A statement throws: the handler is left, the answer is 500.  The object of
\* a failed INSERT stays in memory.
SqlFails(s) ==
  LET req == thread[s].req IN
  /\ faults < MaxFaults
  /\ faults' = faults + 1
  /\ \/ /\ Takes(s, {"PUTFLAG", "PUTNOISE"}) /\ req.variant = 0
        /\ objects' = objects \cup {ObjectOf(req)}
     \/ /\ \/ Takes(s, {"GETFLAG", "HAVOC"})
           \/ thread[s].pc = "indexing"
           \/ thread[s].pc = "stored" /\ req.method = "PUTFLAG"
        /\ UNCHANGED objects
  /\ Answers(s, "HTTP500")
  /\ UNCHANGED <<alive, objectRows, flagIndex, records>>

\* The process dies: memory, threads and the mutex are gone, the tables stay.
Crash ==
  /\ alive /\ faults < MaxFaults
  /\ faults' = faults + 1
  /\ alive' = FALSE
  /\ objects' = {}
  /\ mutex' = NoSlot
  /\ thread' = [s \in Slots |-> Idle]
  /\ UNCHANGED <<objectRows, flagIndex, records>>

\* Mutant: the objects are not loaded.
RestartEmpty ==
  /\ ~alive
  /\ alive' = TRUE
  /\ UNCHANGED <<objects, objectRows, flagIndex, records, mutex, thread, faults>>

\* VaultState::init loads the objects.
Restart ==
  /\ ~alive
  /\ alive' = TRUE
  /\ objects' = objectRows
  /\ UNCHANGED <<objectRows, flagIndex, records, mutex, thread, faults>>

\* What a thread does by itself, the end of its exchange with a sidecar included.
ThreadStep(s) ==
  \/ PutVault(s) \/ IndexVault(s) \/ PutNoiseVault(s) \/ GetVault(s)
  \/ Havoc(s) \/ AskSidecar(s) \/ SidecarFails(s)

SidecarStep(s) == SidecarStores(s) \/ SidecarConfirms(s) \/ SidecarShows(s)

VaultStep ==
  \/ \E s \in Slots : ThreadStep(s) \/ SidecarStep(s) \/ SqlFails(s)
  \/ Crash \/ Restart

----------------------------------------------------------------------------
VaultTypeOK ==
  /\ alive \in BOOLEAN
  /\ objects \subseteq Item
  /\ objectRows \subseteq Item
  /\ flagIndex \in [Ticks \X Variants -> Nat \cup {NoRef}]
  /\ records \subseteq Item
  /\ mutex \in Slots \cup {NoSlot}
  /\ thread \in [Slots -> Thread]
  /\ faults \in 0..MaxFaults

\* Whatever the index names is there: the object in its table and, while the
\* daemon runs, in memory; the record at the sidecar.  It holds between the
\* commits of one request, after a crash at any of them, and when a request
\* that its client gave up is finished late.
IndexedIsKept ==
  \A t \in Ticks, v \in Variants : flagIndex[<<t, v>>] # NoRef =>
    IF v = 0
    THEN LET obj == [kind |-> "flag", tick |-> t, variant |-> 0, n |-> 0]
         IN  obj \in objectRows /\ (alive => obj \in objects)
    ELSE [kind |-> "flag", tick |-> t, variant |-> v, n |-> flagIndex[<<t, v>>]]
           \in records

\* Nobody holds db.mu for ever: what a thread does under it ends, also if the
\* sidecar it asks never answers (proxy.cpp:74-114; one that trickles its answer for
\* ever is excluded).
MutexIsFreed == []<>(mutex = NoSlot)
=============================================================================

------------------------------ MODULE CheckRun ------------------------------
(***************************************************************************)
(* run_checks_for (platform/control/app/checker_executor.py): the checks   *)
(* of one team's VaultGrid, tick after tick, against the daemon of         *)
(* VaultGrid.  A run asks one request after the other, each with a client  *)
(* timeout; a request that timed out goes on in the daemon.  What a run    *)
(* stores is committed at its end, or rolled back when it raises.          *)
(***************************************************************************)
EXTENDS VaultGrid, Sequences

CONSTANTS
  NumNoises,   \* the noise variants
  Retention,   \* FLAG_RETENTION_TICKS
  BudgetTimeouts,  \* the client timeouts that use up a run's time budget
  MaxRuns      \* bound: the runs, attempts and repeated messages included

\* Ticks are counted from 1.
ASSUME CheckAssumption ==
  /\ 1 \in Ticks /\ \A t \in Ticks : 1..t \subseteq Ticks
  /\ NumNoises \in 0..NumPayloads
  /\ Retention \in Nat \ {0}
  /\ BudgetTimeouts \in Nat \ {0}
  /\ MaxRuns \in Nat \ {0}

VARIABLES
  tick,      \* the tick whose job is run
  runs,      \* the runs so far
  run,       \* the locals of run_checks_for
  flagRows,  \* table flags: tick and variant of every row
  health     \* table service_health: the service's row of this tick

tables == <<flagRows, health>>
vars == <<vaultVars, tick, runs, run, tables>>

Rank == [CRASHED |-> 0, TIMEOUT |-> 1, OFFLINE |-> 2, MUMBLE |-> 3,
         RECOVERING |-> 4, SUCCESS |-> 5]

\* The worse of two statuses.
Downgrade(current, new) == IF Rank[current] <= Rank[new] THEN current ELSE new

\* A client timeout is an INTERNAL_ERROR, and stored as CRASHED.
Outcomes == {"OK", "MUMBLE", "OFFLINE", "INTERNAL_ERROR"}
Normalize == [OK |-> "SUCCESS", MUMBLE |-> "MUMBLE", OFFLINE |-> "OFFLINE",
              INTERNAL_ERROR |-> "CRASHED"]

WindowStart == IF tick - Retention + 1 > 1 THEN tick - Retention + 1 ELSE 1

\* One call per variant; one per tick of the window before this tick, and variant.
Calls(method, n) ==
  [i \in 1..n |-> [method |-> method, tick |-> tick, variant |-> i - 1]]
CallsOverWindow(method, n) ==
  [i \in 1..((tick - WindowStart) * n) |->
     [method |-> method,
      tick |-> WindowStart + ((i - 1) \div n),
      variant |-> (i - 1) % n]]

\* The calls of a run.  There are no noise and havoc variants when /service did
\* not answer.
Plan(informed) ==
  Calls("PUTFLAG", NumPayloads) \o CallsOverWindow("GETFLAG", NumPayloads)
    \o IF ~informed THEN <<>>
       ELSE Calls("PUTNOISE", NumNoises) \o CallsOverWindow("GETNOISE", NumNoises)
              \o Calls("HAVOC", NumHavocs)

NoRun == [pc |-> "none"]
NoRow == [status |-> "none"]
Call == Plan(run.informed)[run.at]
CallsLeft == run.pc = "next" /\ run.at <= Len(Plan(run.informed))
Key(call) == <<call.tick, call.variant>>

\* An avail map after one more finding, which replaces an earlier one.
Found(avail, key, what) ==
  [k \in DOMAIN avail \cup {key} |-> IF k = key THEN what ELSE avail[k]]

CheckInit ==
  /\ Init
  /\ tick = 1 /\ runs = 0
  /\ run = NoRun
  /\ flagRows = {}
  /\ health = NoRow

----------------------------------------------------------------------------
\* A worker takes up the job; GET /service is answered, or not.
Begin(informed) ==
  /\ run = NoRun /\ runs < MaxRuns
  /\ informed => alive
  /\ runs' = runs + 1
  /\ run' = [pc |-> "next", informed |-> informed, at |-> 1, slot |-> NoSlot, late |-> 0,
             overall |-> "SUCCESS", avail |-> <<>>, rows |-> {}]
  /\ UNCHANGED <<vaultVars, tick, tables>>

\* Mutant: break without mark_timeout.
BudgetExceededUnmarked ==
  /\ CallsLeft
  /\ run' = [run EXCEPT !.at = Len(Plan(run.informed)) + 1]
  /\ UNCHANGED <<vaultVars, tick, runs, tables>>

\* The time budget is used up before a call, after that many timeouts at the
\* latest: the calls left are not made.
BudgetExceeded ==
  /\ CallsLeft
  /\ run' = [run EXCEPT !.overall = Downgrade(@, "TIMEOUT"),
                        !.at = Len(Plan(run.informed)) + 1]
  /\ UNCHANGED <<vaultVars, tick, runs, tables>>

InTime == CallsLeft /\ run.late < BudgetTimeouts
Stored(call) == call.method = "GETFLAG" => Key(call) \in flagRows

\* A flag of an earlier tick that was never stored is not asked for.
NotStored ==
  /\ InTime /\ ~Stored(Call)
  /\ run' = [run EXCEPT !.avail = Found(@, Key(Call), "MISSING"), !.at = @ + 1]
  /\ UNCHANGED <<vaultVars, tick, runs, tables>>

\* The request reaches the daemon, which starts a thread for it.
Send(s) ==
  /\ InTime /\ Stored(Call)
  /\ alive
  /\ Free(s) /\ s = CHOOSE f \in Slots : Free(f)
  /\ thread' = [thread EXCEPT ![s] = [pc |-> "queued", req |-> Call,
                                        awaited |-> TRUE]]
  /\ run' = [run EXCEPT !.pc = "waits", !.slot = s]
  /\ UNCHANGED <<alive, objects, objectRows, flagIndex, records, mutex, faults,
                 tick, runs, tables>>

\* The overall status after a call that failed: an old flag or noise that is
\* not had makes a run no worse than RECOVERING.
Failed(outcome) ==
  IF Call.method \in {"GETFLAG", "GETNOISE"}
  THEN Downgrade(run.overall, "RECOVERING")
  ELSE Downgrade(run.overall, Normalize[outcome])

\* A call is over, and accounted for.
Account(outcome) ==
  LET ok == outcome = "OK" IN
  run' = [run EXCEPT
    !.pc = "next", !.at = @ + 1, !.slot = NoSlot,
    !.late = IF outcome = "INTERNAL_ERROR" THEN @ + 1 ELSE @,
    !.overall = IF ok THEN @ ELSE Failed(outcome),
    !.avail = IF Kind(Call) # "flag" THEN @
              ELSE Found(@, Key(Call), IF ok THEN "OK" ELSE "MISSING"),
    !.rows = IF ok /\ Call.method = "PUTFLAG" THEN @ \cup {Key(Call)} ELSE @]

\* The answer arrives in time.
Receive ==
  /\ run.pc = "waits" /\ thread[run.slot].pc = "done"
  /\ Account(IF thread[run.slot].answer = "HTTP500" THEN "OFFLINE"
             ELSE thread[run.slot].answer)
  /\ thread' = [thread EXCEPT ![run.slot] = Idle]
  /\ UNCHANGED <<alive, objects, objectRows, flagIndex, records, mutex, faults,
                 tick, runs, tables>>

\* What becomes of the request of a client that closes its connection.
GiveUp == thread' = [s \in Slots |->
                       IF run.pc # "waits" \/ s # run.slot THEN thread[s]
                       ELSE IF thread[s].pc \in {"free", "done"} THEN Idle
                       ELSE [thread[s] EXCEPT !.awaited = FALSE]]

\* Mutant: requests.post without a timeout.
ClientWaits == FALSE /\ GiveUp

\* SERVICE_HTTP_TIMEOUT is over first.
ClientTimeout ==
  /\ run.pc = "waits"
  /\ Account("INTERNAL_ERROR")
  /\ GiveUp
  /\ UNCHANGED <<alive, objects, objectRows, flagIndex, records, mutex, faults,
                 tick, runs, tables>>

\* Connection refused, or reset by the daemon's death.
Disconnected ==
  /\ \/ InTime /\ Stored(Call) /\ ~alive
     \/ run.pc = "waits" /\ Free(run.slot)
  /\ Account("OFFLINE")
  /\ UNCHANGED <<vaultVars, tick, runs, tables>>

\* record_health, and the commit of the run's transaction.
Record ==
  /\ run.pc = "next" /\ ~CallsLeft
  /\ flagRows' = flagRows \cup run.rows
  /\ health' = [status |-> run.overall, avail |-> run.avail]
  /\ run' = NoRun
  /\ UNCHANGED <<vaultVars, tick, runs>>

\* The run raises or its worker dies: its transaction is rolled back.
Raise ==
  /\ run.pc # "none"
  /\ run' = NoRun
  /\ GiveUp
  /\ UNCHANGED <<alive, objects, objectRows, flagIndex, records, mutex, faults,
                 tick, runs, tables>>

\* The next tick's job, which writes a row of its own.
NextTick ==
  /\ run = NoRun /\ tick + 1 \in Ticks
  /\ tick' = tick + 1
  /\ health' = NoRow
  /\ UNCHANGED <<vaultVars, runs, run, flagRows>>

RunStep ==
  \/ NotStored \/ \E s \in Slots : Send(s)
  \/ ClientTimeout \/ Disconnected \/ Record
  \/ ~InTime /\ BudgetExceeded

Next ==
  \/ VaultStep /\ UNCHANGED <<tick, runs, run, tables>>
  \/ RunStep \/ Receive \/ BudgetExceeded \/ Raise \/ NextTick
  \/ \E informed \in BOOLEAN : Begin(informed)

Spec == CheckInit /\ [][Next]_vars

\* Threads, clocks and the worker go on.  Of the sidecars only that none trickles
\* an answer for ever; nothing of answers in time, nor of the next tick.
FairSpec ==
  /\ Spec
  /\ WF_vars(RunStep)
  /\ WF_vars((\E s \in Slots : ThreadStep(s)) /\ UNCHANGED <<tick, runs, run, tables>>)

----------------------------------------------------------------------------
\* An avail map: what a run found out of the flags it looked for.
Avail(f) == DOMAIN f \subseteq Ticks \X Variants
            /\ \A tv \in DOMAIN f : f[tv] \in {"OK", "MISSING"}

\* Types.
TypeOK ==
  /\ VaultTypeOK
  /\ tick \in Ticks
  /\ runs \in 0..MaxRuns
  /\ run # NoRun =>
       /\ run.pc \in {"next", "waits"}
       /\ run.informed \in BOOLEAN
       /\ run.at \in 1..(Len(Plan(run.informed)) + 1)
       /\ run.slot \in Slots \cup {NoSlot}
       /\ run.pc = "waits" <=> run.slot # NoSlot
       /\ run.late \in 0..BudgetTimeouts
       /\ run.overall \in DOMAIN Rank
       /\ Avail(run.avail)
       /\ run.rows \subseteq Ticks \X Variants
  /\ flagRows \subseteq Ticks \X Variants
  /\ health # NoRow => /\ health.status \in DOMAIN Rank
                       /\ Avail(health.avail)

\* A flag the platform has stored for the vault's own variant is one the daemon
\* serves: indexed, its object in the table and in memory, whatever crashed,
\* timed out or was rolled back and repeated since (checker_executor.py:
\* _store_putflag_result after an OK; state.cpp: put_flag_vault, init).
StoredFlagIsServed ==
  \A t \in Ticks : (<<t, 0>> \in flagRows \/ (run # NoRun /\ <<t, 0>> \in run.rows))
    => /\ flagIndex[<<t, 0>>] # NoRef
       /\ LET obj == [kind |-> "flag", tick |-> t, variant |-> 0, n |-> 0]
          IN  obj \in objectRows /\ (alive => obj \in objects)

\* What a status promises.  SUCCESS and RECOVERING: every flag of the tick was
\* stored, and no check was left out.  SUCCESS: moreover every older flag that
\* the platform has stored was still there.  (run_checks_for, over all its
\* calls; mark_timeout.)
StatusIsEarned ==
  /\ health.status \in {"SUCCESS", "RECOVERING"} =>
       \A v \in Variants : /\ <<tick, v>> \in DOMAIN health.avail
                           /\ health.avail[<<tick, v>>] = "OK"
                           /\ <<tick, v>> \in flagRows
  /\ health.status = "SUCCESS" =>
       \A t \in WindowStart..(tick - 1), v \in Variants :
         /\ <<t, v>> \in DOMAIN health.avail
         /\ health.avail[<<t, v>>] = "OK" \/ <<t, v>> \notin flagRows

\* A run ends, whether or not the daemon or its sidecars ever answer.
RunEnds == (run # NoRun) ~> (run = NoRun)

----------------------------------------------------------------------------
(***************************************************************************)
(* What documents of the repository say, and the code does not keep.       *)
(***************************************************************************)

\* scoring.md of the wiki: SUCCESS "if all flags could be successfully deployed
\* and retrieved".  A flag that was never stored is not asked for, and does
\* not count against the status.
SuccessIsComplete ==
  health.status = "SUCCESS" =>
    \A tv \in DOMAIN health.avail : health.avail[tv] = "OK"

\* The checker of the challenge (checker/src/checker.py) takes a PUTFLAG whose
\* attack_info is an error for a failure; the platform stores the flag.
StoredFlagIsIndexed == \A tv \in flagRows : flagIndex[tv] # NoRef

\* The columns of the public scoreboard (derive_method_statuses).
Shown ==
  LET Column(keys) ==
        IF keys # {}
        THEN IF \A k \in keys : health.avail[k] = "OK" THEN "OK" ELSE "FAIL"
        ELSE IF health.status \in {"OFFLINE", "TIMEOUT", "CRASHED"}
             THEN "FAIL" ELSE "IDLE"
      put == Column({k \in DOMAIN health.avail : k[1] = tick})
      get == Column({k \in DOMAIN health.avail : k[1] # tick})
  IN [put |-> put, get |-> get,
      havoc |-> IF health.status \in {"SUCCESS", "RECOVERING"} THEN "OK"
                ELSE IF put = "OK" /\ get \in {"OK", "IDLE"} THEN "FAIL"
                ELSE "IDLE"]

\* "the failure must be HAVOC" (eno_checker.py).  With one havoc variant, TIMEOUT
\* means that HAVOC was not called: the budget was used up before it.
HavocFailIsHavoc ==
  (health # NoRow /\ Shown.havoc = "FAIL") => health.status # "TIMEOUT"
=============================================================================

----------------------------- MODULE FlagSubmit -----------------------------
(***************************************************************************)
(* Concurrent flag submissions (platform/control/app/flag_submit.py).      *)
(*                                                                         *)
(* A submission is one READ COMMITTED transaction over a batch of flags    *)
(* (the TCP listener sends batches of one, tcp_flag_server.py).  It holds  *)
(* an advisory lock of its team from before it reads the tick until it     *)
(* ends, and tries for one of (target, service) when a flag is accepted.   *)
(* The tick, and the flag_rounds row that follows it, move underneath.     *)
(* Payloads, points and source addresses decide nothing and are left out.  *)
(***************************************************************************)
EXTENDS Naturals, Sequences, FiniteSets

CONSTANTS
  Teams,       \* team ids
  Nop,         \* the NOP team
  Services,    \* service ids
  Flags,       \* strings that decode: [target, service, tick]; target and
               \* service may be ids no team or service has
  Garbage,     \* strings that do not decode
  Offers,      \* what may be submitted: [by, flags], a team and a batch
  Retention,   \* FLAG_RETENTION_TICKS
  Cap,         \* MAX_ACCEPTED_PER_TEAM_PER_ROUND; 0 is no cap
  MaxTick,     \* bound on the tick
  Reqs,        \* concurrent submissions
  None         \* SQL NULL, and no holder of a lock

ASSUME TeamsAssumption == Nop \in Teams /\ None \notin Teams \cup Services \cup Reqs \cup Nat
ASSUME FlagsAssumption ==
  /\ \A f \in Flags : f.tick \in Nat
  /\ Garbage \cap Flags = {}
  /\ \A o \in Offers : o.by \in Teams /\ o.flags \in Seq(Flags \cup Garbage)
ASSUME BoundsAssumption == Retention \in Nat \ {0} /\ Cap \in Nat /\ MaxTick \in Nat \ {0}

VARIABLES
  running,     \* game_state.state = 'RUNNING'
  tick,        \* game_state.current_tick
  rounds,      \* ticks that have a flag_rounds row (its round_id is the tick)
  subs,        \* committed rows of submissions
  req,         \* the open transactions
  teamLock,    \* pg_advisory_xact_lock(team)
  bloodLock    \* pg_try_advisory_xact_lock(target, service)

game == <<running, tick, rounds>>
vars == <<game, subs, req, teamLock, bloodLock>>

Pairs == Teams \X Services
PairOf(f) == <<f.target, f.service>>

Idle == [pc |-> "idle", by |-> None, todo |-> <<>>, now |-> 0, count |-> 0, rows |-> {}]

Init ==
  /\ running = TRUE
  /\ tick = 1
  /\ rounds = {}
  /\ subs = {}
  /\ req = [r \in Reqs |-> Idle]
  /\ teamLock = [t \in Teams |-> None]
  /\ bloodLock = [p \in Pairs |-> None]

\* Rows a statement of r sees: the committed ones and its own.
Visible(r) == subs \cup req[r].rows

Accepted(S) == {s \in S : s.result = "accepted"}

\* A row; at is the tick it was judged by, for submitted_at.
Row(r, f, result, round, blood) ==
  [by |-> req[r].by, flag |-> f, result |-> result, round |-> round,
   blood |-> blood, at |-> req[r].now]

MaxRound == CHOOSE m \in rounds \cup {0} : \A k \in rounds : k <= m

\* _current_tick: a game without a tick counts on behind its last round.
CurrentTick == IF tick >= 1 THEN tick ELSE MaxRound + 1

-----------------------------------------------------------------------------

\* What becomes of the flag, before the race for first blood: the first that applies.
Verdict(r, f) ==
  LET now == req[r].now IN
  IF \E s \in Visible(r) : s.by = req[r].by /\ s.flag = f THEN "duplicate"
  ELSE IF f \in Garbage THEN "garbage"
  ELSE IF f.target \notin Teams \/ f.service \notin Services THEN "invalid"
  ELSE IF f.target = req[r].by THEN "own_flag"
  ELSE IF f.target = Nop THEN "nop_target"
  ELSE IF f.tick + Retention <= now THEN "expired"
  ELSE IF f.tick > now THEN "future_flag"
  ELSE IF Cap > 0 /\ req[r].count >= Cap THEN "round_limit"
  ELSE "accepted"

\* A game that does not run answers "offline"; an unknown submitter or the NOP
\* team raises: neither leaves anything behind.  A flag that decodes was signed
\* by the checkers of a tick that had its round.
Begin(r, offer) ==
  /\ req[r].pc = "idle"
  /\ running
  /\ offer.by # Nop
  /\ \A i \in DOMAIN offer.flags : offer.flags[i] \in Flags => offer.flags[i].tick \in rounds
  /\ req' = [req EXCEPT ![r] = [Idle EXCEPT !.pc = "lock", !.by = offer.by, !.todo = offer.flags]]
  /\ UNCHANGED <<game, subs, teamLock, bloodLock>>

\* Mutant: the team's advisory lock is not taken.
EnterUnlocked(r) ==
  /\ req[r].pc = "lock"
  /\ req' = [req EXCEPT ![r].pc = "flags", ![r].now = CurrentTick,
               ![r].count = Cardinality({s \in Accepted(subs) :
                                           s.by = req[r].by /\ s.round = CurrentTick})]
  /\ UNCHANGED <<game, subs, teamLock, bloodLock>>

\* The count is of the flags ISSUED in the current round.
Enter(r) ==
  LET t == req[r].by IN
  /\ req[r].pc = "lock"
  /\ teamLock[t] = None
  /\ teamLock' = [teamLock EXCEPT ![t] = r]
  /\ req' = [req EXCEPT ![r].pc = "flags", ![r].now = CurrentTick,
               ![r].count = Cardinality({s \in Accepted(subs) : s.by = t /\ s.round = CurrentTick})]
  /\ UNCHANGED <<game, subs, bloodLock>>

\* The end of a transaction releases its advisory locks.
Release(r) ==
  /\ req' = [req EXCEPT ![r] = Idle]
  /\ teamLock' = [t \in Teams |-> IF teamLock[t] = r THEN None ELSE teamLock[t]]
  /\ bloodLock' = [p \in Pairs |-> IF bloodLock[p] = r THEN None ELSE bloodLock[p]]

Judging(r, verdict) ==
  /\ req[r].pc = "flags"
  /\ req[r].todo # <<>>
  /\ Verdict(r, Head(req[r].todo)) = verdict

RoundOf(f) == IF f.tick \in rounds THEN f.tick ELSE None

Insert(r, row) ==
  req' = [req EXCEPT ![r].pc = "flags", ![r].todo = Tail(@), ![r].rows = @ \cup {row},
                     ![r].count = IF row.result = "accepted" THEN @ + 1 ELSE @]

\* INSERT ... ON CONFLICT DO NOTHING, behind a SELECT that found the conflict.
Duplicate(r) ==
  /\ Judging(r, "duplicate")
  /\ req' = [req EXCEPT ![r].todo = Tail(@)]
  /\ UNCHANGED <<game, subs, teamLock, bloodLock>>

\* A string that does not decode is recorded under the current round.
Undecodable(r) ==
  /\ Judging(r, "garbage")
  /\ req[r].now \in rounds
  /\ Insert(r, Row(r, Head(req[r].todo), "invalid", req[r].now, FALSE))
  /\ UNCHANGED <<game, subs, teamLock, bloodLock>>

\* If that round has no row yet the foreign key fails, and the batch with it.
ForeignKeyFails(r) ==
  /\ Judging(r, "garbage")
  /\ req[r].now \notin rounds
  /\ Release(r)
  /\ UNCHANGED <<game, subs>>

Reject(r) ==
  LET f == Head(req[r].todo) IN
  \E v \in {"invalid", "own_flag", "nop_target", "expired", "future_flag", "round_limit"} :
    /\ Judging(r, v)
    /\ Insert(r, Row(r, f, v, RoundOf(f), FALSE))
    /\ UNCHANGED <<game, subs, teamLock, bloodLock>>

\* Mutant: nobody asks whether the lock was got.
TryBloodAnyway(r) ==
  /\ Judging(r, "accepted")
  /\ req' = [req EXCEPT ![r].pc = "blood"]
  /\ UNCHANGED <<game, subs, teamLock, bloodLock>>

\* Mutant: the lock is waited for (pg_advisory_xact_lock).
LoseBloodWaits(r) == FALSE

\* _resolve_firstblood got the lock of the pair ...
TryBlood(r) ==
  LET p == PairOf(Head(req[r].todo)) IN
  /\ Judging(r, "accepted")
  /\ bloodLock[p] \in {None, r}
  /\ bloodLock' = [bloodLock EXCEPT ![p] = r]
  /\ req' = [req EXCEPT ![r].pc = "blood"]
  /\ UNCHANGED <<game, subs, teamLock>>

\* ... or did not: the flag counts without the mark.
LoseBlood(r) ==
  LET f == Head(req[r].todo) IN
  /\ Judging(r, "accepted")
  /\ bloodLock[PairOf(f)] \notin {None, r}
  /\ Insert(r, Row(r, f, "accepted", RoundOf(f), FALSE))
  /\ UNCHANGED <<game, subs, teamLock, bloodLock>>

\* With the lock, it looks for an earlier accepted flag of the pair.
CheckBlood(r) ==
  LET f == Head(req[r].todo)
      first == ~\E s \in Accepted(Visible(r)) : PairOf(s.flag) = PairOf(f)
  IN /\ req[r].pc = "blood"
     /\ Insert(r, Row(r, f, "accepted", RoundOf(f), first))
     /\ UNCHANGED <<game, subs, teamLock, bloodLock>>

Commit(r) ==
  /\ req[r].pc = "flags"
  /\ req[r].todo = <<>>
  /\ subs' = subs \cup req[r].rows
  /\ Release(r)
  /\ UNCHANGED game

\* A lost connection or a dying process rolls it back.
Abort(r) ==
  /\ req[r].pc # "idle"
  /\ Release(r)
  /\ UNCHANGED <<game, subs>>

-----------------------------------------------------------------------------
(* The game underneath, as GameTimer and the rotator move it.              *)

NextTick ==
  /\ running
  /\ tick \in rounds
  /\ tick < MaxTick
  /\ tick' = tick + 1
  /\ UNCHANGED <<running, rounds, subs, req, teamLock, bloodLock>>

\* The rotator gives the open tick its round an iteration later.
OpenRound ==
  /\ running
  /\ tick >= 1
  /\ rounds' = rounds \cup {tick}
  /\ UNCHANGED <<running, tick, subs, req, teamLock, bloodLock>>

StopGame ==
  /\ running
  /\ running' = FALSE
  /\ tick' = 0
  /\ UNCHANGED <<rounds, subs, req, teamLock, bloodLock>>

\* A stopped game starts over: ticks that have their rounds come again.
StartGame ==
  /\ ~running
  /\ running' = TRUE
  /\ tick' = 1
  /\ UNCHANGED <<rounds, subs, req, teamLock, bloodLock>>

RequestStep(r) ==
  \/ Enter(r)
  \/ Duplicate(r) \/ Undecodable(r) \/ ForeignKeyFails(r) \/ Reject(r)
  \/ TryBlood(r) \/ LoseBlood(r) \/ CheckBlood(r)
  \/ Commit(r)

Next ==
  \/ \E r \in Reqs, o \in Offers : Begin(r, o)
  \/ \E r \in Reqs : RequestStep(r) \/ Abort(r)
  \/ NextTick \/ OpenRound \/ StopGame \/ StartGame

Spec == Init /\ [][Next]_vars

\* A transaction that can go on does; one that waits for its team's lock gets
\* it in the end.  No client need ever submit.
FairSpec ==
  /\ Spec
  /\ \A r \in Reqs : WF_vars(RequestStep(r)) /\ SF_vars(Enter(r))

-----------------------------------------------------------------------------

Results == {"accepted", "invalid", "own_flag", "nop_target", "expired", "future_flag", "round_limit"}
Rows == [by : Teams, flag : Flags \cup Garbage, result : Results, round : Nat \cup {None},
         blood : BOOLEAN, at : Nat]

TypeOK ==
  /\ running \in BOOLEAN
  /\ tick \in Nat
  /\ rounds \subseteq Nat
  /\ subs \subseteq Rows
  /\ req \in [Reqs -> [pc : {"idle", "lock", "flags", "blood"}, by : Teams \cup {None},
                       todo : Seq(Flags \cup Garbage), now : Nat, count : Nat, rows : SUBSET Rows]]
  /\ teamLock \in [Teams -> Reqs \cup {None}]
  /\ bloodLock \in [Pairs -> Reqs \cup {None}]

AllRows == subs \cup UNION {req[r].rows : r \in Reqs}

(* A pair of victim and service is marked as first blood once, however     *)
(* many teams race for it (flag_submit.py:80-109).                         *)
OneBlood ==
  \A s, t \in subs :
    s.blood /\ t.blood /\ PairOf(s.flag) = PairOf(t.flag) => s = t

(* The UNIQUE(submitter, flag) constraint never has to refuse a row: two   *)
(* batches of a team cannot both find a flag new (flag_submit.py:70-77,    *)
(* 168-190).                                                               *)
NoUniqueClash ==
  \A s, t \in AllRows : s.by = t.by /\ s.flag = t.flag => s = t

(* Of the flags issued in a tick a team gets at most the cap accepted      *)
(* while that tick lasts, over all its concurrent batches                  *)
(* (flag_submit.py:70-77, 148-158).                                        *)
CapOnCurrentFlags ==
  Cap > 0 =>
    \A t \in Teams, k \in 1..MaxTick :
      Cardinality({s \in Accepted(subs) : s.by = t /\ s.flag.tick = k /\ s.at = k}) <= Cap

(* Whatever runs at once, the table grows as FlagLedger says: by one whole  *)
(* batch at a time, its rows judged by one tick and by the rules, within   *)
(* the cap, a flag once a team and a mark once a pair                      *)
(* (flag_submit.py:112-320).                                               *)
Ledger == INSTANCE FlagLedger
LedgerKept == Ledger!Spec

(* Batches never wait for each other in a circle, nor in a row: one that   *)
(* cannot go on waits for one of its own team that can                     *)
(* (flag_submit.py:70-98).                                                 *)
SomeoneGoesOn ==
  \A r \in Reqs : req[r].pc # "idle" =>
    \/ ENABLED RequestStep(r)
    \/ \E q \in Reqs \ {r} : req[q].by = req[r].by /\ ENABLED RequestStep(q)

(* Every submission ends: the two kinds of locks cannot make batches wait  *)
(* for each other (flag_submit.py:80-98).                                  *)
SubmissionsEnd == \A r \in Reqs : req[r].pc # "idle" ~> req[r].pc = "idle"

(* A team gets at most the cap accepted in a round (docs/schema.md:72).    *)
CapHolds ==
  Cap > 0 =>
    \A t \in Teams, k \in 1..MaxTick :
      Cardinality({s \in Accepted(subs) : s.by = t /\ s.at = k}) <= Cap

(* Once a service of a team has been captured and the race is over, some   *)
(* capture is its first blood (wiki_api.py:124).                           *)
BloodIsDrawn ==
  \A s \in Accepted(subs) :
    \/ bloodLock[PairOf(s.flag)] # None
    \/ \E t \in subs : t.blood /\ PairOf(t.flag) = PairOf(s.flag)

=============================================================================

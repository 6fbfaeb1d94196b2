----------------------------- MODULE FlagLedger -----------------------------
(***************************************************************************)
(* What the rest of the platform may rely on in the table of submissions,  *)
(* without transactions, locks or a game: it grows by whole batches, each  *)
(* of one team and judged by one tick; what a row says is what the rules   *)
(* say of its flag at that tick; no team has a flag twice; a cap holds;    *)
(* a pair of victim and service is marked once.  FlagSubmit implements it. *)
(***************************************************************************)
EXTENDS Naturals, FiniteSets

CONSTANTS
  Teams, Nop,  \* team ids, and the NOP team's
  Services,    \* service ids
  Flags,       \* strings that decode: [target, service, tick]
  Retention,   \* FLAG_RETENTION_TICKS
  Cap          \* MAX_ACCEPTED_PER_TEAM_PER_ROUND; 0 is no cap

VARIABLE
  subs         \* rows [by, flag, result, round, blood, at]

Captures(S) == {s \in S : s.result = "accepted"}
SamePair(s, u) == s.flag.target = u.flag.target /\ s.flag.service = u.flag.service

\* What the rules say of a row's flag, the cap aside.
Ruling(s) ==
  LET f == s.flag IN
  IF f \notin Flags THEN "invalid"
  ELSE IF f.target \notin Teams \/ f.service \notin Services THEN "invalid"
  ELSE IF f.target = s.by THEN "own_flag"
  ELSE IF f.target = Nop THEN "nop_target"
  ELSE IF f.tick + Retention <= s.at THEN "expired"
  ELSE IF f.tick > s.at THEN "future_flag"
  ELSE "accepted"

\* Captures of a team that used up its cap when its batch was judged by tick k.
Spent(t, k, new) == {s \in Captures(subs) : s.by = t /\ s.round = k} \cup Captures(new)
\* Those of flags of tick k while it lasted: the cap is about them.
OfTick(S, t, k) == {s \in Captures(S) : s.by = t /\ s.flag.tick = k /\ s.at = k}

\* A good flag is refused only at the limit; a capture is booked under the round
\* of its flag, and nothing else is marked.
Honest(s, new) ==
  /\ \/ s.result = Ruling(s)
     \/ /\ s.result = "round_limit" /\ Ruling(s) = "accepted"
        /\ 0 < Cap /\ Cap <= Cardinality(Spent(s.by, s.at, new))
  /\ s.result = "accepted" => s.round = s.flag.tick
  /\ s.blood => s.result = "accepted"

\* One batch of team t, all of it or nothing.
Post(t) ==
  LET new == subs' \ subs IN
  /\ t # Nop
  /\ subs \subseteq subs'
  /\ \A s \in new : s.by = t /\ Honest(s, new)
  /\ \A s, u \in new : s.at = u.at
  /\ \A s \in new, u \in subs' : u.by = t /\ u.flag = s.flag => u = s
  /\ \A s \in new, u \in subs' : s.blood /\ u.blood /\ SamePair(s, u) => u = s
  /\ Cap > 0 => \A s \in new : Cardinality(OfTick(subs', t, s.at)) <= Cap

Init == subs = {}
Next == \E t \in Teams : Post(t)
Spec == Init /\ [][Next]_subs
=============================================================================

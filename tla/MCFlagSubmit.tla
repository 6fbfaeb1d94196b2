---------------------------- MODULE MCFlagSubmit ----------------------------
(* Instances of FlagSubmit for TLC: teams 1 and 2 attack team 3. *)
EXTENDS FlagSubmit, TLC

CONSTANTS t1, t2, t3, nop, ghost, s1, s2, junk

F(t, s, k) == [target |-> t, service |-> s, tick |-> k]
Old == F(t3, s1, 1)
New == F(t3, s1, 2)
Other == F(t3, s2, 1)
NewOther == F(t3, s2, 2)

\* ghost is no team's id, and no service's.
MCFlags == {Old, New, Other, NewOther, F(t2, s1, 1), F(t1, s1, 1), F(nop, s1, 1),
            F(ghost, s1, 1), F(t3, ghost, 1)}

By(t, batch) == [by |-> t, flags |-> batch]

\* For the races: two teams and two services, in both orders.
RaceOffers == {By(t1, <<Old, Other>>), By(t2, <<Other, Old>>)}

\* For the verdicts and the cap: a team's own flag, the NOP team's, no team's, no
\* service's, and junk, and two batches that are worth a flag in the same tick.
MixedOffers == {By(t1, <<Old, New>>), By(t1, <<junk>>), By(t1, <<junk, Old>>),
                By(t1, <<F(t1, s1, 1), F(nop, s1, 1), F(ghost, s1, 1), F(t3, ghost, 1)>>),
                By(t1, <<Other, NewOther>>)}

\* For all of it at once: opposite orders, two batches of a team against the cap, and
\* what is refused.
AllOffers == RaceOffers \cup {By(t1, <<junk>>), By(t1, <<F(t3, ghost, 1), F(t2, s1, 1)>>)}

\* For older flags against the cap: two batches of one team.
CapOffers == {By(t1, <<Old, New>>), By(t1, <<Other, NewOther>>)}

Symmetry == Permutations(Reqs)
=============================================================================

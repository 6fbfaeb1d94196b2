---------------------------- MODULE MCFlagServer ----------------------------
(* Instances of FlagServer for TLC. *)
EXTENDS FlagServer

S(by, team, round) ==
    [by |-> by, team |-> team, service |-> 1, round |-> round, payload |-> 0, mac |-> TRUE]

\* Two teams' flags of a round by one team: the indexes that a resize mixes up.
Pair == {S(2, 4, 1), S(2, 3, 1)}
\* A flag of a round and what is refused: own, of the NOP team, forged.
Mixed == {S(2, 4, 1), S(2, 2, 1), S(2, 1, 1), [S(2, 3, 1) EXCEPT !.mac = FALSE]}
One == {S(2, 4, 1)}
Grow == {4, 6}
Stay == {4}
=============================================================================

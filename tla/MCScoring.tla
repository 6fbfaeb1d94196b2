----------------------------- MODULE MCScoring -----------------------------
(* An instance of Scoring for TLC: teams a and b capture flags of v.  A     *)
(* flag's share of the points is a third of ten, which no decimal is.       *)
EXTENDS Scoring

CONSTANTS a, b, v, nop, s1

Thirds == [s \in Services |-> 3]
OnePayload == [s \in Services |-> 1]

Check(status, ok) == [status |-> status, ok |-> ok]

\* The services of the others are up; v's is up, recovering or down.
Checks ==
  {[p \in Pairs |-> IF p[1] = v THEN c ELSE Check("SUCCESS", 1)] :
     c \in {Check("SUCCESS", 1), Check("RECOVERING", 1), Check("RECOVERING", 2),
            Check("RECOVERING", 0), Check("OFFLINE", 0)}}
=============================================================================

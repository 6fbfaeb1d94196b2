---------------------------- MODULE MCGameTimer ----------------------------
(* Instances of GameTimer for TLC. *)
EXTENDS GameTimer, TLC

OneStart == { [startAt |-> 1, stopAfter |-> 1, freeze |-> NoVal] }
TwoSchedules == { [startAt |-> 1, stopAfter |-> NoVal, freeze |-> NoVal],
                  [startAt |-> NoVal, stopAfter |-> 1, freeze |-> NoVal] }
OnlyStop == { [startAt |-> NoVal, stopAfter |-> 1, freeze |-> NoVal] }
Symmetry == Permutations(Api)
None == {}
=============================================================================

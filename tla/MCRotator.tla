----------------------------- MODULE MCRotator -----------------------------
(* Instances of Rotator for TLC. *)
EXTENDS Rotator

NoSchedules == {}
LastTick == { [startAt |-> NoVal, stopAfter |-> 1, freeze |-> NoVal] }
=============================================================================

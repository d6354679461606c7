-------------------------- MODULE MCCallbackDelivery --------------------------
(* Model-checking instances of CallbackDelivery. *)
EXTENDS CallbackDelivery, TLC

CONSTANTS t1, t2, t3

TaskSymmetry == Permutations(Tasks)
=============================================================================

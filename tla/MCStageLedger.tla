---------------------------- MODULE MCStageLedger ----------------------------
(* Model-checking instances of StageLedger. *)
EXTENDS StageLedger, TLC

CONSTANTS p1, p2, i1, i2, o1, o2, c1, c2

ValueSymmetry ==
    Permutations(Executors) \cup Permutations(Inputs) \cup Permutations(Outputs)
=============================================================================

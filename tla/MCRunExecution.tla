---------------------------- MODULE MCRunExecution ---------------------------
(* Model-checking instances of RunExecution. *)
EXTENDS RunExecution, TLC

CONSTANTS s1, s2, w1, w2

WorkerSymmetry == Permutations(Workers)
=============================================================================

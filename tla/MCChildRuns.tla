----------------------------- MODULE MCChildRuns -----------------------------
(* Model-checking instances of ChildRuns. *)
EXTENDS ChildRuns, TLC

CONSTANTS w1, w2, c1, k1, k2

\* c1 submits the parent, the workers submit its child
MCConvOf == ("parent" :> k1) @@ ("child" :> k2)
MCRequestOf == (w1 :> "child") @@ (w2 :> "child") @@ (c1 :> "parent")
=============================================================================

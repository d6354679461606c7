---------------------------- MODULE MCSubmission -----------------------------
(* Model-checking instance of Submission. *)
EXTENDS Submission, TLC

CONSTANTS a, b, c, d, k

\* a and b submit one run, c another run of the same new conversation, d one of a
\* conversation that it names
MCRequestOf == (a :> "first") @@ (b :> "first") @@ (c :> "second") @@ (d :> "third")
MCConvOf == ("first" :> k) @@ ("second" :> k) @@ ("third" :> Given)
=============================================================================

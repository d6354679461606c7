----------------------------- MODULE MCAgentTurn -----------------------------
(* Model-checking instance of AgentTurn. *)
EXTENDS AgentTurn, TLC

CONSTANTS a, b, m1, m2, m3, k1, k2, k3, d1, d2

MCTools == {[op |-> "idempotent", fallback |-> TRUE, handler |-> TRUE],
            [op |-> "side_effecting", fallback |-> FALSE, handler |-> FALSE]}

\* the second configuration has other models and fewer retries
MCConfigs == <<[models |-> <<m1, m2>>, retries |-> 1], [models |-> <<m3>>, retries |-> 0]>>

MCPolicy == (k1 :> "always") @@ (k2 :> "explicit") @@ (k3 :> "auto")
MCSize == (k1 :> 1) @@ (k2 :> 2) @@ (k3 :> 2)
=============================================================================

----------------------------- MODULE ModelCalls ------------------------------
(***************************************************************************)
(* ModelGateway.complete: one completion with its retries and fallback     *)
(* models, while the configuration watcher replaces the gateway's          *)
(* defaults.  A configuration is its models in the order they are tried    *)
(* and its number of retries; prompts and answers are left out.            *)
(***************************************************************************)
EXTENDS Integers, Sequences

CONSTANTS
    Configs,      \* sequence of configurations [models, retries], the first in force
    NoModel

ASSUME ConfigAssumption ==
    /\ Len(Configs) \in Nat \ {0}
    /\ \A i \in 1..Len(Configs) :
          Len(Configs[i].models) \in Nat \ {0} /\ Configs[i].retries \in Nat

VARIABLES
    conf,    \* index of the gateway's configuration
    mc,      \* the completion: its snapshot, the model and the attempt
    record,  \* its ModelCallRecord in memory
    row,     \* the row of ai_model_call
    tried    \* history: the model of every request

modelVars == <<conf, mc, record, row, tried>>

NoCompletion == [st |-> "idle", cfg |-> 0, model |-> 0, try |-> 0]

NoRecord == [status |-> "none", model |-> NoModel, error |-> FALSE]

ModelInit ==
    /\ conf = 1
    /\ mc = NoCompletion /\ record = NoRecord /\ row = NoRecord /\ tried = << >>

\* ModelGateway.reconfigure
Reconfigure ==
    /\ conf < Len(Configs)
    /\ conf' = conf + 1
    /\ UNCHANGED <<mc, record, row, tried>>

\* _snapshot_config
Snapshot == conf

ConfigOf(c) == Configs[c.cfg]

ModelOf(c) == ConfigOf(c).models[c.model]

\* the snapshot and the record, saved as started
BeginCompletion ==
    /\ mc.st = "idle"
    /\ mc' = [st |-> "model", cfg |-> Snapshot, model |-> 1, try |-> 0]
    /\ record' = [status |-> "started", model |-> Configs[conf].models[1], error |-> FALSE]
    /\ row' = record'
    /\ UNCHANGED <<conf, tried>>

\* variant: the error of the model before stays in the record
NextModelKeepingError ==
    /\ mc.st = "model"
    /\ record' = [record EXCEPT !.model = ModelOf(mc)]
    /\ mc' = [mc EXCEPT !.st = "request", !.try = 0]
    /\ UNCHANGED <<conf, row, tried>>

\* the loop over models_to_try: the record names the model and forgets the error
NextModel ==
    /\ mc.st = "model"
    /\ record' = [record EXCEPT !.model = ModelOf(mc), !.error = FALSE]
    /\ mc' = [mc EXCEPT !.st = "request", !.try = 0]
    /\ UNCHANGED <<conf, row, tried>>

\* _do_request
SendRequest ==
    /\ mc.st = "request"
    /\ tried' = Append(tried, ModelOf(mc))
    /\ mc' = [mc EXCEPT !.st = "sent"]
    /\ UNCHANGED <<conf, record, row>>

\* a body that parses: the record is saved and the output returned
Answered ==
    /\ mc.st = "sent"
    /\ record' = [record EXCEPT !.status = "succeeded"]
    /\ row' = record'
    /\ mc' = [mc EXCEPT !.st = "returned"]
    /\ UNCHANGED <<conf, tried>>

\* a retryable status or transport error with attempts left: backoff and again
RetryRequest ==
    /\ mc.st = "sent"
    /\ mc.try < ConfigOf(mc).retries
    /\ mc' = [mc EXCEPT !.st = "request", !.try = @ + 1]
    /\ UNCHANGED <<conf, record, row, tried>>

SaveFailure == record' = [record EXCEPT !.status = "failed", !.error = TRUE] /\ row' = record'

\* the retries are used up: the next model, or the error of the last one
ModelFails ==
    /\ mc.st = "sent"
    /\ mc.try >= ConfigOf(mc).retries
    /\ SaveFailure
    /\ mc' = IF mc.model < Len(ConfigOf(mc).models)
             THEN [mc EXCEPT !.st = "model", !.model = @ + 1]
             ELSE [mc EXCEPT !.st = "raised"]
    /\ UNCHANGED <<conf, tried>>

\* a 4xx, or an answer that cannot be read: no other model is tried
RequestRefused ==
    /\ mc.st = "sent"
    /\ SaveFailure
    /\ mc' = [mc EXCEPT !.st = "raised"]
    /\ UNCHANGED <<conf, tried>>

\* CancelledError is no Exception: the record stays as it was saved last
CancelCompletion ==
    /\ mc.st \in {"request", "sent"}
    /\ mc' = [mc EXCEPT !.st = "canceled"]
    /\ UNCHANGED <<conf, record, row, tried>>

ModelStep ==
    \/ NextModel \/ SendRequest \/ Answered \/ RetryRequest \/ ModelFails \/ RequestRefused

-----------------------------------------------------------------------------
\* The row of a completion that answered says succeeded, without the error of a model
\* tried before, and names the model of the last request; all its requests follow the
\* one configuration that was in force when it began, whatever is reconfigured
\* meanwhile (model_gateway.complete, "Atomically replace the defaults used by
\* subsequent model calls").
AnswerIsRecorded ==
    mc.st = "returned" =>
        /\ row = [status |-> "succeeded", model |-> tried[Len(tried)], error |-> FALSE]
        /\ \A i \in 1..Len(tried) - 1 :
              \E j \in 1..mc.model :
                 /\ tried[i] = Configs[mc.cfg].models[j]
                 /\ tried[i + 1] \in {tried[i], Configs[mc.cfg].models[IF j < mc.model THEN j + 1 ELSE j]}
=============================================================================

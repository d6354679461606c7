------------------------------ MODULE RunStatus ------------------------------
(***************************************************************************)
(* The vocabulary of a durable run: domain/enums/run.py (RunStatus) and    *)
(* domain/enums/error.py (ErrorType).                                      *)
(*                                                                         *)
(* Error types are abstracted to what the control flow tells apart:        *)
(*   TRANSIENT        every type for which is_retryable() holds            *)
(*   PERMANENT        VALIDATION_ERROR, ROUTE_NOT_FOUND                    *)
(*   OUTCOME_UNKNOWN  SIDE_EFFECT_OUTCOME_UNKNOWN (also not retryable, and *)
(*                    the one type RunManager.retry refuses)               *)
(***************************************************************************)

RunStatuses == {"CREATED", "QUEUED", "RUNNING", "WAITING_TOOL", "RETRYING",
                "AGENT_SUCCEEDED", "WAITING_CALLBACK",
                "SUCCEEDED", "FAILED", "TIMEOUT", "CANCELED"}

\* EXECUTING_RUN_STATUSES
Executing == {"RUNNING", "WAITING_TOOL", "RETRYING"}

\* TERMINAL_RUN_STATUSES
Terminal == {"SUCCEEDED", "FAILED", "TIMEOUT", "CANCELED"}

NoError == "NO_ERROR"

ErrorTypes == {"TRANSIENT", "PERMANENT", "OUTCOME_UNKNOWN"}

\* ErrorType.is_retryable
IsRetryable(e) == e = "TRANSIENT"
=============================================================================

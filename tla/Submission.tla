----------------------------- MODULE Submission ------------------------------
(***************************************************************************)
(* RunService.submit with ConversationService.get_or_create: submitters in *)
(* several processes insert runs and conversations under the unique keys   *)
(* of the two tables.  A request stands for its key (caller, route tag,    *)
(* request id); ConvOf gives the conversation key (caller, external id).   *)
(*                                                                         *)
(* submit() has no await, so the submitters that interleave are in         *)
(* different processes (or threads).  Its reads run outside the            *)
(* transaction; the two inserts commit together or not at all.             *)
(***************************************************************************)
EXTENDS Integers

CONSTANTS
    Submitters,  \* who calls submit, each
    RequestOf,   \* once: its request, one of
    Requests,    \* the run keys
    ConvOf,      \* request -> conversation key, or
    Given,       \* the request names an existing conversation by its id
    NoWorker     \* the NULL of the worker column

VARIABLES
    rows,   \* ai_agent_run: request -> row, for the requests that have one
    convs,  \* ai_conversation: the conversation keys that have a row
    spc     \* per submitter: its call of submit

subVars == <<rows, convs, spc>>

NotSubmitting == [at |-> "idle", status |-> "none", try |-> 0, new |-> FALSE]

Stored(r) == r \in DOMAIN rows

NewRow(status) == [status |-> status, worker |-> NoWorker, attempts |-> 0, out |-> NoWorker]

\* resolve and validate_input: a run that no agent takes is stored as FAILED
Resolutions == {"QUEUED", "FAILED"}

\* an existing run is the answer; for a new one the agent is resolved
SubmitLookup(s, r) ==
    /\ spc[s].at = "idle"
    /\ \/ /\ Stored(r)
          /\ spc' = [spc EXCEPT ![s].at = "done"]
       \/ /\ ~Stored(r)
          /\ \E status \in Resolutions :
                spc' = [spc EXCEPT ![s] = [at |-> "conv", status |-> status, try |-> 1,
                                           new |-> FALSE]]
    /\ UNCHANGED <<rows, convs>>

\* get_or_create, its reads
SubmitReadConversation(s, r) ==
    /\ spc[s].at = "conv"
    /\ spc' = [spc EXCEPT ![s].at = "insert",
                          ![s].new = ConvOf[r] # Given /\ ConvOf[r] \notin convs]
    /\ UNCHANGED <<rows, convs>>

\* variant: a conflict is met with one transaction only
SubmitInsertOnce(s, r) ==
    LET newConv  == IF spc[s].new THEN {ConvOf[r]} ELSE {}
        conflict == Stored(r) \/ newConv \cap convs # {}
    IN  /\ spc[s].at = "insert"
        /\ \/ /\ ~conflict
              /\ rows' = [q \in DOMAIN rows \cup {r} |->
                             IF q = r THEN NewRow(spc[s].status) ELSE rows[q]]
              /\ convs' = convs \cup newConv
              /\ spc' = [spc EXCEPT ![s].at = "done"]
           \/ /\ conflict
              /\ spc' = [spc EXCEPT ![s].at = IF Stored(r) THEN "done" ELSE "raised"]
              /\ UNCHANGED <<rows, convs>>

\* the transaction: both inserts, or a unique conflict that rolls both back; then
\* the run of another submitter is the answer, or the transaction is tried once more
SubmitInsert(s, r) ==
    LET newConv  == IF spc[s].new THEN {ConvOf[r]} ELSE {}
        conflict == Stored(r) \/ newConv \cap convs # {}
    IN  /\ spc[s].at = "insert"
        /\ \/ /\ ~conflict
              /\ rows' = [q \in DOMAIN rows \cup {r} |->
                             IF q = r THEN NewRow(spc[s].status) ELSE rows[q]]
              /\ convs' = convs \cup newConv
              /\ spc' = [spc EXCEPT ![s].at = "done"]
           \/ /\ conflict
              /\ spc' = [spc EXCEPT ![s].at = IF Stored(r) THEN "done"
                                              ELSE IF spc[s].try = 2 THEN "raised" ELSE "conv",
                                    ![s].try = 2]
              /\ UNCHANGED <<rows, convs>>

Submit(s, r) ==
    SubmitLookup(s, r) \/ SubmitReadConversation(s, r) \/ SubmitInsert(s, r)

SubmitInit ==
    /\ rows = << >> /\ convs = {}
    /\ spc = [s \in Submitters |-> NotSubmitting]

\* the submitters alone; ChildRuns composes them with the workers
SubmitSpec == SubmitInit /\ [][\E s \in Submitters : Submit(s, RequestOf[s])]_subVars

\* No submission is answered with the unique conflict of another one: two transactions
\* are always enough, whichever of the two keys the other submitters win
\* (run_service.submit, "A concurrent submit may have won either the Run key or the
\* shared Conversation key").
NobodyIsTurnedAway == \A s \in Submitters : spc[s].at # "raised"
=============================================================================

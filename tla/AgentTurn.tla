------------------------------ MODULE AgentTurn ------------------------------
(***************************************************************************)
(* AgentRuntime.run: one attempt of an agent, from the choice of its       *)
(* adapter and its Skill session to its output or exception.  The adapters *)
(* compose the components below them: "pi" module PiRuntime; "python" an   *)
(* agent in the process whose tool calls, possibly at once, are module     *)
(* ToolCalls; "prompt" a model completion, module ModelCalls, asked for by *)
(* ModelGatewayAgent or by the prompt workflow.  Lifecycle hooks of the    *)
(* runtime cannot fail an attempt (_safe_hook) and are left out, with the  *)
(* logs.                                                                   *)
(***************************************************************************)
EXTENDS PiRuntime, ToolCalls, ModelCalls, SkillSession

VARIABLES
    adapter,  \* what _load_agent picked
    at        \* the attempt: "load", "running" or "ended"

turnVars == <<adapter, at>>

vars == <<toolVars, piVars, modelVars, skillVars, turnVars>>

Running(a) == at = "running" /\ adapter = a

Ends == at' = "ended" /\ UNCHANGED adapter

\* the adapter and the Skill session; either may raise
LoadAgent ==
    /\ at = "load"
    /\ \/ CreateSession /\ at' = "running" /\ UNCHANGED adapter
       \/ Ends /\ UNCHANGED skillVars
    /\ UNCHANGED <<toolVars, piVars, modelVars>>

-----------------------------------------------------------------------------
(* Agents in the process *)

PythonCalls(c) ==
    /\ Running("python") /\ interrupts = 0
    /\ BeginCall(c)
    /\ UNCHANGED <<piVars, modelVars, skillVars, turnVars>>

PythonEnds ==
    /\ Running("python")
    /\ \A c \in Calls : tc[c].st \in Ended
    /\ Ends
    /\ UNCHANGED <<toolVars, piVars, modelVars, skillVars>>

PromptCompletes ==
    /\ Running("prompt")
    /\ BeginCompletion
    /\ UNCHANGED <<toolVars, piVars, skillVars, turnVars>>

\* without a usable input file the workflow raises before it asks the model ("idle")
PromptEnds ==
    /\ Running("prompt")
    /\ mc.st \in {"idle", "returned", "raised", "canceled"}
    /\ Ends
    /\ UNCHANGED <<toolVars, piVars, modelVars, skillVars>>

PiEnds ==
    /\ Running("pi")
    /\ host.pc = "over"
    /\ Ends
    /\ UNCHANGED <<toolVars, piVars, modelVars, skillVars>>

\* the attempt's task is canceled: the error rises where it is suspended
InterruptCalls ==
    /\ at = "running" /\ adapter # "pi"
    /\ interrupts < MaxInterrupts
    /\ interrupts' = interrupts + 1
    /\ UNCHANGED <<node, stdout, stdin, host, handlers, active, stored, unfinished, identities,
                   running, signal, saveFailures>>
    /\ UNCHANGED <<toolVars, modelVars, skillVars, turnVars>>

CancelCalls(c) ==
    /\ Running("python") /\ interrupts > 0
    /\ \/ CancelCall(c)
       \/ /\ tc[c].st = "idle" /\ Goes(c, "canceled")
          /\ UNCHANGED <<tool, permits, breaker, window, owned>>
    /\ UNCHANGED <<piVars, modelVars, skillVars, turnVars>>

CancelPrompt ==
    /\ Running("prompt") /\ interrupts > 0
    /\ CancelCompletion
    /\ UNCHANGED <<toolVars, piVars, skillVars, turnVars>>

-----------------------------------------------------------------------------
(* The components *)

Tooling(c) ==
    /\ Running("python")
    /\ ToolStep(c)
    /\ UNCHANGED <<piVars, modelVars, skillVars, turnVars>>

ToolTime ==
    /\ Running("python")
    /\ ToolClock
    /\ UNCHANGED <<piVars, modelVars, skillVars, turnVars>>

ToolRunLost ==
    /\ Running("python")
    /\ RunLost
    /\ UNCHANGED <<piVars, modelVars, skillVars, turnVars>>

Completing ==
    /\ Running("prompt")
    /\ ModelStep
    /\ UNCHANGED <<toolVars, piVars, skillVars, turnVars>>

ModelReconfigured ==
    /\ Running("prompt")
    /\ Reconfigure
    /\ UNCHANGED <<toolVars, piVars, skillVars, turnVars>>

PiWorker == Running("pi") /\ NodeStep /\ UNCHANGED <<toolVars, modelVars, skillVars, turnVars>>

PiHost == Running("pi") /\ HostStep /\ UNCHANGED <<toolVars, modelVars, skillVars, turnVars>>

PiStopped ==
    /\ Running("pi")
    /\ Interrupt \/ SetSignal
    /\ UNCHANGED <<toolVars, modelVars, skillVars, turnVars>>

\* the registry changes before the attempt and while an agent works
SkillChanged(s) ==
    /\ at = "load" \/ Running("prompt")
    /\ ChangeSkill(s)
    /\ UNCHANGED <<toolVars, piVars, modelVars, turnVars>>

\* an agent in the process activates a Skill
SkillActivated(s) ==
    /\ Running("prompt") /\ mc.st = "idle"
    /\ \E explicit \in BOOLEAN : ActivateSkill(s, explicit)
    /\ UNCHANGED <<toolVars, piVars, modelVars, turnVars>>

Init ==
    /\ ToolInit /\ PiInit /\ ModelInit /\ SkillInit
    /\ adapter \in {"pi", "python", "prompt"}
    /\ adapter # "python" => tool = CHOOSE t \in Tools : TRUE
    /\ at = "load"

Next ==
    \/ LoadAgent
    \/ \E c \in Calls : PythonCalls(c) \/ CancelCalls(c) \/ Tooling(c)
    \/ PythonEnds \/ PromptCompletes \/ PromptEnds \/ PiEnds
    \/ InterruptCalls \/ CancelPrompt
    \/ ToolTime \/ ToolRunLost \/ Completing \/ ModelReconfigured
    \/ PiWorker \/ PiHost \/ PiStopped
    \/ \E s \in Skills : SkillChanged(s) \/ SkillActivated(s)

Spec == Init /\ [][Next]_vars

\* the event loop runs what is ready, tools and models answer within their timeouts
\* and time passes; nothing is assumed of the Node worker
FairSpec ==
    /\ Spec
    /\ WF_vars(LoadAgent) /\ WF_vars(PythonEnds \/ PromptEnds \/ PiEnds)
    /\ WF_vars(PromptCompletes) /\ WF_vars(Completing \/ CancelPrompt)
    /\ \A c \in Calls : WF_vars(PythonCalls(c) \/ CancelCalls(c) \/ Tooling(c))
    /\ WF_vars(ToolTime) /\ WF_vars(PiHost)

-----------------------------------------------------------------------------
\* Every attempt comes to an end: in the process by itself; with a Pi worker, which may
\* hang at any step, once it is canceled, timed out or its run's signal is set.
AttemptEnds == (adapter # "pi" \/ signal \/ interrupts > 0) ~> (at = "ended")
=============================================================================

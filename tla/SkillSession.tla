---------------------------- MODULE SkillSession -----------------------------
(***************************************************************************)
(* The Skills of a run: the versions pinned in the run record when it was  *)
(* submitted (SkillRuntime.snapshots_for_agent), the session that an       *)
(* attempt resolves from the process's registry, which administrators and  *)
(* the watcher go on changing, and the activations within the session.     *)
(* A content stands for the content hash and the artifact id.              *)
(***************************************************************************)
EXTENDS Integers, FiniteSets, FiniteSetsExt

CONSTANTS
    Skills,     \* assigned to the agent
    Policy,     \* activation: "always", "auto" or "explicit"
    Size,       \* length of a Skill's instructions
    MaxActive,  \* max_active_skills
    MaxSize,    \* max_instruction_chars
    Contents,   \* contents of a Skill version
    NoContent   \* it is not registered

ASSUME SkillAssumption ==
    /\ NoContent \notin Contents
    /\ Policy \in [Skills -> {"always", "auto", "explicit"}]
    /\ Size \in [Skills -> Nat] /\ MaxActive \in Nat /\ MaxSize \in Nat

VARIABLES
    registry,  \* the registry's content of the pinned version
    pinned,    \* the run's snapshots
    session,   \* the session's copies
    loaded     \* activated Skills

skillVars == <<registry, pinned, session, loaded>>

NoSession == [s \in Skills |-> NoContent]

SkillInit ==
    /\ registry = [s \in Skills |-> CHOOSE content \in Contents : TRUE]
    /\ pinned = registry
    /\ session = NoSession /\ loaded = {}

\* the registry's version is replaced or removed
ChangeSkill(s) ==
    /\ \E content \in (Contents \cup {NoContent}) \ {registry[s]} :
          registry' = [registry EXCEPT ![s] = content]
    /\ UNCHANGED <<pinned, session, loaded>>

\* activate: the limits on the number of Skills and on their instructions
Fits(active) ==
    /\ Cardinality(active) <= MaxActive
    /\ MapThenSumSet(LAMBDA s : Size[s], active) <= MaxSize

Always == {s \in Skills : Policy[s] = "always"}

\* variant: a pinned version is looked up by its name and version only
ResolvedByVersion(s) == registry[s] # NoContent

\* _resolve_snapshots: the registry still has what was pinned
Resolved(s) == registry[s] = pinned[s]

SessionResolves == (\A s \in Skills : Resolved(s)) /\ Fits(Always)

\* create_session: copies of the registry's Skills, the "always" ones activated
CreateSession ==
    /\ SessionResolves
    /\ session' = registry /\ loaded' = Always
    /\ UNCHANGED <<registry, pinned>>

\* activate by the agent or by the model's skill_load; a Skill that is loaded stays so
ActivateSkill(s, explicit) ==
    /\ explicit \/ Policy[s] # "explicit"
    /\ s \in loaded \/ Fits(loaded \cup {s})
    /\ loaded' = loaded \cup {s}
    /\ UNCHANGED <<registry, pinned, session>>

-----------------------------------------------------------------------------
\* The instructions an agent works with are those of the versions pinned when its run
\* was submitted, whatever was published, replaced or removed before the attempt or
\* while it runs (skill/runtime.py, "Pinned Skill [...] no longer matches its run
\* snapshot").
SkillsArePinned == \A s \in loaded : session[s] = pinned[s]
=============================================================================

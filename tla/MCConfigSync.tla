---------------------------- MODULE MCConfigSync -----------------------------
(* Model-checking instances of ConfigSync. *)
EXTENDS ConfigSync, TLC

CONSTANTS p1, p2, t, u, h1, h2, v0, v1

Spec1(tags, on) == [tags |-> tags, enabled |-> on]

\* two versions of one agent, which agents.yaml has, and an agent of another name
\* that wants a tag of theirs and has the version of the first
MCAgentKeys == {<<1, 1>>, <<1, 3>>, <<2, 1>>}
MCAgentSpecs == (<<1, 1>> :> {Spec1({t, u}, FALSE)}) @@ (<<1, 3>> :> {Spec1({t}, TRUE)})
                @@ (<<2, 1>> :> {Spec1({t}, TRUE)})
MCSeeds == (<<1, 1>> :> Spec1({t, u}, TRUE)) @@ (<<1, 3>> :> Spec1({t}, TRUE))

\* a tag goes from an agent to one that is listed before it
MCHandoverKeys == {<<1, 1>>, <<2, 1>>}
MCHandoverSpecs == (<<1, 1>> :> {Spec1({t}, TRUE)}) @@ (<<2, 1>> :> {Spec1({t}, TRUE)})
MCHandoverSeeds == (<<2, 1>> :> Spec1({t}, TRUE))

\* two versions of a Skill, a tool of an admin and one of an MCP server
MCSkillKeys == {<<1, 1>>, <<1, 2>>}
MCOneSkill == {<<1, 1>>}
MCToolKeys == {<<1, 1>>}
MCMcpKeys == {<<2, 1>>}
MCEmpty == << >>
=============================================================================

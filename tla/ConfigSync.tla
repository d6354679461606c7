----------------------------- MODULE ConfigSync ------------------------------
(***************************************************************************)
(* The replicas' configuration: the tables of agents, tools, skills and    *)
(* platform settings that all processes share, and per process the         *)
(* registries and settings in force, which admin requests, the config      *)
(* watcher and a restart change (interfaces/http/server.py, routes/        *)
(* admin.py, orchestration/config_watcher.py, the config repositories).    *)
(*                                                                         *)
(* A handler, a tick of the watcher and a start of a process run without   *)
(* an await between their store calls, so only other processes come in     *)
(* between; they are one step each.  Saving a platform section is two: it  *)
(* reads the row it rewrites under a transaction-scoped advisory lock.     *)
(***************************************************************************)
EXTENDS Registry

CONSTANTS
    Procs,        \* processes with an HTTP API and a config watcher
    NoProc,       \* nobody
    Executors,    \* the processes that execute runs as well
    AgentKeys, AgentSpecs,  \* agents and, per agent, the specs an admin may register
    Tags,         \* their route tags
    Seeds,        \* agents.yaml: key -> spec
    ToolKeys,     \* tools an admin may register
    McpKeys,      \* tools the MCP servers of the agents offer
    SkillKeys,    \* skills, with an artifact hash from
    Hashes,
    Namespaces,   \* the settings sections, queue among them
    Values,       \* contents of a settings section, one of them the
    Default,      \* built-in default
    Absent,       \* no such row
    MaxWrites,    \* bound: admin requests and saved sections
    MaxStops      \* bound: process exits

ASSUME KeyAssumption ==
    /\ NoProc \notin Procs /\ Executors \subseteq Procs
    /\ "queue" \in Namespaces
    /\ Default \in Values /\ Absent \notin Values
    /\ DOMAIN Seeds \subseteq AgentKeys
    \* the rows of a table are finitely many, and a spec has its two fields
    /\ IsFiniteSet(AgentKeys) /\ IsFiniteSet(SkillKeys)
    /\ \A k \in AgentKeys \cup SkillKeys : k \in Nat \X Nat
    /\ \A k \in AgentKeys : AgentSpecs[k] \subseteq [tags: SUBSET Tags, enabled: BOOLEAN]
    /\ \A k \in DOMAIN Seeds : Seeds[k] \in [tags: SUBSET Tags, enabled: BOOLEAN]
    /\ MaxWrites \in Nat /\ MaxStops \in Nat

VARIABLES
    db,       \* ai_agent_config, ai_tool_config, ai_skill_config
    cfg,      \* per namespace: the stored section
    up,       \* per process: it is running
    agents, tools, skills,  \* per process: the registries
    inforce,  \* per process: the section each component was configured with
    active,   \* per process: active_platform_configs
    busy,     \* per process: the scheduler has active run holders
    lock,     \* holder of the config-write advisory lock
    saving,   \* per process: the section it saves and the row it has read
    writes, stops

registries == <<db, agents, tools, skills>>
platform == <<cfg, inforce, active, lock, saving>>
vars == <<registries, platform, up, busy, writes, stops>>

-----------------------------------------------------------------------------
(* Platform sections.  Most of them are columns of the ai_runtime_config row. *)

RuntimeNamespaces == Namespaces \ {"model", "callback", "auth"}

RowOf(ns) == IF ns \in RuntimeNamespaces THEN RuntimeNamespaces ELSE {ns}

Initialized == cfg["queue"] # Absent

\* _delete: a runtime section returns to its defaults, another one loses its row
Deleted(ns) == IF ns \in RuntimeNamespaces THEN Default ELSE Absent

\* merge_platform_configs
Merged(sections) ==
    [ns \in Namespaces |-> IF sections[ns] = Absent THEN Default ELSE sections[ns]]

NotSaving == [ns |-> "none", value |-> Absent, row |-> << >>]

Idle == [ns \in Namespaces |-> Absent]

\* variant: the write lock is not taken
SaveBeginUnlocked(p, ns, v) ==
    /\ up[p] /\ writes < MaxWrites /\ Initialized
    /\ saving[p] = NotSaving
    /\ saving' = [saving EXCEPT ![p] = [ns |-> ns, value |-> v,
                                        row |-> [n \in RowOf(ns) |-> cfg[n]]]]
    /\ writes' = writes + 1
    /\ UNCHANGED <<registries, cfg, inforce, active, lock, up, busy, stops>>

\* save and delete up to the read of the row
SaveBegin(p, ns, v) ==
    /\ up[p] /\ writes < MaxWrites /\ Initialized
    /\ lock = NoProc
    /\ lock' = p
    /\ saving' = [saving EXCEPT ![p] = [ns |-> ns, value |-> v,
                                        row |-> [n \in RowOf(ns) |-> cfg[n]]]]
    /\ writes' = writes + 1
    /\ UNCHANGED <<registries, cfg, inforce, active, up, busy, stops>>

\* the rewritten row is committed, which releases the lock
SaveCommit(p) ==
    LET s == saving[p]
    IN  /\ s # NotSaving
        /\ cfg' = [n \in Namespaces |->
                      IF n = s.ns THEN s.value ELSE IF n \in DOMAIN s.row THEN s.row[n] ELSE cfg[n]]
        /\ saving' = [saving EXCEPT ![p] = NotSaving]
        /\ lock' = IF lock = p THEN NoProc ELSE lock
        /\ UNCHANGED <<registries, inforce, active, up, busy, writes, stops>>

-----------------------------------------------------------------------------
(* create_app and lifespan *)

\* _load_agent_registry: the rows, and each YAML agent that has none
SeededAgents ==
    [k \in DOMAIN db.agents \cup DOMAIN Seeds |->
        IF k \in DOMAIN db.agents THEN db.agents[k] ELSE Seeds[k]]

\* list(db_specs.values()): the rows in their order, then the seeds
SeededOrder == Listed(DOMAIN db.agents) \o Listed(DOMAIN Seeds \ DOMAIN db.agents)

\* the sections that a first start stores, from the settings file
InitialSections == [ns \in Namespaces |-> Default]

\* _load_platform_settings: initialize() wins only where no row is there yet
StartSections == IF Initialized THEN cfg ELSE InitialSections

\* _register_mcp_tools: what the MCP servers of the agents offer is registered over the rows
WithMcpTools(registered) ==
    [n \in DOMAIN registered \cup {NameOf(k) : k \in McpKeys} |->
        IF \E k \in McpKeys : NameOf(k) = n
        THEN [version |-> VersionOf(CHOOSE k \in McpKeys : NameOf(k) = n), enabled |-> TRUE]
        ELSE registered[n]]

Start(p) ==
    LET loaded == RegisterAll(NoAgents, SeededOrder, SeededAgents)
    IN  /\ ~up[p]
        /\ Initialized \/ lock = NoProc
        /\ cfg' = StartSections
        /\ \A ns \in Namespaces \ {"auth"} : StartSections[ns] # Absent
        /\ db' = [db EXCEPT !.agents = SeededAgents]
        /\ loaded.ok
        /\ up' = [up EXCEPT ![p] = TRUE]
        /\ agents' = [agents EXCEPT ![p] = loaded.reg]
        /\ tools' = [tools EXCEPT ![p] = WithMcpTools(ToolsOf(db.tools))]
        /\ skills' = [skills EXCEPT ![p] = SkillsOf(db.skills)]
        /\ active' = [active EXCEPT ![p] = StartSections]
        /\ inforce' = [inforce EXCEPT ![p] = Merged(StartSections)]
        /\ UNCHANGED <<lock, saving, busy, writes, stops>>

\* the process ends; a transaction it has open is rolled back
Stop(p) ==
    /\ up[p] /\ stops < MaxStops
    /\ up' = [up EXCEPT ![p] = FALSE]
    /\ busy' = [busy EXCEPT ![p] = FALSE]
    /\ lock' = IF lock = p THEN NoProc ELSE lock
    /\ saving' = [saving EXCEPT ![p] = NotSaving]
    /\ stops' = stops + 1
    /\ UNCHANGED <<registries, cfg, inforce, active, writes>>

\* runs come and go in the scheduler of p
RunsChange(p) ==
    /\ up[p] /\ p \in Executors
    /\ busy' = [busy EXCEPT ![p] = ~@]
    /\ UNCHANGED <<registries, platform, up, writes, stops>>

-----------------------------------------------------------------------------
(* ConfigWatcher *)

\* the components whose section changed are reconfigured
Reconfigured(p) ==
    [ns \in Namespaces |-> IF cfg[ns] = active[p][ns] THEN inforce[p][ns] ELSE Merged(cfg)[ns]]

SchedulerRefuses(p) == cfg["queue"] # active[p]["queue"] /\ busy[p]

\* variant: a snapshot is recorded although the scheduler refused its part of it
ReloadedAnyway(p) ==
    [inforce |-> IF SchedulerRefuses(p) THEN inforce[p] ELSE Reconfigured(p),
     active  |-> cfg]

\* reload_platform_configs: scheduler.reconfigure comes first and raises while runs are active
Reloaded(p) ==
    IF SchedulerRefuses(p)
    THEN [inforce |-> inforce[p], active |-> active[p]]
    ELSE [inforce |-> Reconfigured(p), active  |-> cfg]

\* One tick, or POST reload-config.  An exception ends it where it is raised:
\* a refused agent, or (verified = FALSE) a skill artifact that cannot be verified.
Tick(p, verified) ==
    LET a == ReloadAgents(agents[p], db.agents)
    IN  /\ up[p]
        /\ UNCHANGED <<db, cfg, lock, saving, up, busy, writes, stops>>
        /\ agents' = [agents EXCEPT ![p] = a.reg]
        /\ tools' = IF a.ok THEN [tools EXCEPT ![p] = ToolsOf(db.tools)] ELSE tools
        /\ IF a.ok /\ verified
           THEN /\ skills' = [skills EXCEPT ![p] = ReloadSkills(@, db.skills)]
                /\ inforce' = [inforce EXCEPT ![p] = Reloaded(p).inforce]
                /\ active' = [active EXCEPT ![p] = Reloaded(p).active]
           ELSE UNCHANGED <<skills, inforce, active>>

-----------------------------------------------------------------------------
(* routes/admin.py.  saved = FALSE: the store call after the registry's     *)
(* change raises; the handler answers with an error and undoes nothing.     *)

Admin(p) ==
    /\ up[p] /\ writes < MaxWrites
    /\ writes' = writes + 1
    /\ UNCHANGED <<platform, up, busy, stops>>

SaveAgent(k, spec, saved) ==
    /\ db' = IF saved THEN [db EXCEPT !.agents = Put(@, k, spec)] ELSE db
    /\ UNCHANGED <<tools, skills>>

RegisterAgent(p, k, spec, makeDefault, saved) ==
    /\ Admin(p)
    /\ ~Refused(agents[p], k, spec, makeDefault)
    /\ agents' = [agents EXCEPT ![p] = Register(@, k, spec, makeDefault)]
    /\ SaveAgent(k, spec, saved)

DisableAgent(p, k, saved) ==
    /\ Admin(p)
    /\ k \in DOMAIN agents[p].agents
    /\ agents' = [agents EXCEPT ![p] = Disable(@, k)]
    /\ SaveAgent(k, agents'[p].agents[k], saved)

DeregisterAgent(p, k, saved) ==
    /\ Admin(p)
    /\ k \in DOMAIN agents[p].agents
    /\ agents' = [agents EXCEPT ![p] = Deregister(@, k)]
    /\ db' = IF saved THEN [db EXCEPT !.agents = Drop(@, {k})] ELSE db
    /\ UNCHANGED <<tools, skills>>

\* the row is saved as this process knows it; the route itself is not stored
SetDefaultAgent(p, k, saved) ==
    /\ Admin(p)
    /\ CanBeDefault(agents[p], k)
    /\ agents' = [agents EXCEPT ![p] = SetDefault(@, k)]
    /\ SaveAgent(k, agents[p].agents[k], saved)

SaveTool(p, k, enabled, saved) ==
    /\ tools' = [tools EXCEPT ![p] =
                    Put(@, NameOf(k), [version |-> VersionOf(k), enabled |-> enabled])]
    /\ db' = IF saved THEN [db EXCEPT !.tools = Put(@, k, enabled)] ELSE db
    /\ UNCHANGED <<agents, skills>>

RegisterTool(p, k, enabled, saved) == Admin(p) /\ SaveTool(p, k, enabled, saved)

DisableTool(p, n, saved) ==
    /\ Admin(p)
    /\ n \in DOMAIN tools[p] /\ tools[p][n].enabled
    /\ SaveTool(p, <<n, tools[p][n].version>>, FALSE, saved)

\* the store first; a known version with other content is refused
PublishSkill(p, k, spec, makeDefault) ==
    /\ Admin(p)
    /\ k \in DOMAIN skills[p].skills => skills[p].skills[k].hash = spec.hash
    /\ db' = [db EXCEPT !.skills = Put(@, k, spec)]
    /\ skills' = [skills EXCEPT ![p] = RegisterSkill(@, k, spec, makeDefault)]
    /\ UNCHANGED <<agents, tools>>

DisableSkillVersion(p, k, saved) ==
    /\ Admin(p)
    /\ k \in DOMAIN skills[p].skills
    /\ skills' = [skills EXCEPT ![p] = DisableSkill(@, k)]
    /\ db' = IF saved THEN [db EXCEPT !.skills = Put(@, k, skills'[p].skills[k])] ELSE db
    /\ UNCHANGED <<agents, tools>>

-----------------------------------------------------------------------------
Init ==
    /\ db = [agents |-> << >>, tools |-> << >>, skills |-> << >>]
    /\ cfg = Idle
    /\ up = [p \in Procs |-> FALSE]
    /\ agents = [p \in Procs |-> NoAgents]
    /\ tools = [p \in Procs |-> << >>]
    /\ skills = [p \in Procs |-> NoSkills]
    /\ inforce = [p \in Procs |-> Merged(Idle)]
    /\ active = [p \in Procs |-> Idle]
    /\ busy = [p \in Procs |-> FALSE]
    /\ lock = NoProc
    /\ saving = [p \in Procs |-> NotSaving]
    /\ writes = 0 /\ stops = 0

AdminStep(p) ==
    \/ \E k \in AgentKeys, mk, saved \in BOOLEAN :
          \/ \E spec \in AgentSpecs[k] : RegisterAgent(p, k, spec, mk, saved)
          \/ DisableAgent(p, k, saved)
          \/ DeregisterAgent(p, k, saved)
          \/ SetDefaultAgent(p, k, saved)
    \/ \E k \in ToolKeys, on, saved \in BOOLEAN : RegisterTool(p, k, on, saved)
    \/ \E k \in ToolKeys \cup McpKeys, saved \in BOOLEAN : DisableTool(p, NameOf(k), saved)
    \/ \E k \in SkillKeys, h \in Hashes, on, mk \in BOOLEAN :
          PublishSkill(p, k, [hash |-> h, enabled |-> on], mk)
    \/ \E k \in SkillKeys, saved \in BOOLEAN : DisableSkillVersion(p, k, saved)

Next ==
    \E p \in Procs :
        \/ Start(p) \/ Stop(p) \/ RunsChange(p)
        \/ \E verified \in BOOLEAN : Tick(p, verified)
        \/ AdminStep(p)
        \/ \E ns \in Namespaces, v \in Values : SaveBegin(p, ns, v)
        \/ \E ns \in Namespaces : SaveBegin(p, ns, Deleted(ns))
        \/ SaveCommit(p)

Spec == Init /\ [][Next]_vars

\* A watcher ticks for ever (run_forever catches every exception), artifacts are
\* readable again some time, and an open transaction ends.
FairSpec ==
    /\ Spec
    /\ \A p \in Procs : WF_vars(Tick(p, TRUE))
    /\ WF_vars(\E p \in Procs : SaveCommit(p))

-----------------------------------------------------------------------------
(* Properties *)

\* A route always leads to a registered, enabled agent that has the tag, after any
\* sequence of register, disable, deregister, set-default and reload
\* (AgentRegistry's _agents and _routes are two maps changed one after the other).
RoutesServe ==
    \A p \in Procs : \A t \in DOMAIN agents[p].routes :
        agents[p].routes[t] \in Serving(agents[p].agents, t)

\* A skill name has a default exactly when one of its versions is enabled, and the
\* default is one of those (SkillRegistry's _skills and _defaults).
DefaultsServe ==
    \A p \in Procs :
        LET s == skills[p]
        IN  /\ DOMAIN s.defaults = {n \in {NameOf(k) : k \in SkillKeys} : Enabled(s.skills, n) # {}}
            /\ \A n \in DOMAIN s.defaults : <<n, s.defaults[n]>> \in Enabled(s.skills, n)

\* The sections that share a row do not overwrite one another: a stored section
\* changes only by the commit of a save of that section, or when nothing was stored
\* (PlatformConfigRepository reads, changes and writes a whole row).
NoLostSection ==
    [][\A ns \in Namespaces :
          cfg'[ns] # cfg[ns] =>
              ~Initialized \/ \E p \in Procs : saving[p].ns = ns /\ saving'[p] = NotSaving]_vars

InSync(p) ==
    /\ agents[p].agents = db.agents
    /\ tools[p] = ToolsOf(db.tools)
    /\ skills[p].skills = db.skills
    /\ inforce[p] = Merged(cfg)

\* a stored agent that p does not have yet asks for a tag which p routes to an
\* agent of another name: register() raises, and so does every tick
TagTaken(p) ==
    \E k \in DOMAIN db.agents :
        /\ k \notin DOMAIN agents[p].agents \/ agents[p].agents[k] # db.agents[k]
        /\ Refused(agents[p], k, db.agents[k], TRUE)

\* Once the writes are over, every running replica comes to the stored registries and
\* settings and stays there, whatever store calls failed half way, unless runs
\* keep starting and ending there (the scheduler refuses a reload while one is active)
\* or a stored agent's tag stays routed there to an agent of another name.
ReplicasConverge ==
    \A p \in Procs : <>[](up[p] => InSync(p)) \/ []<>busy[p] \/ <>[]TagTaken(p)

\* two enabled agents of different names are stored with one tag
StoredConflict ==
    \E j, k \in DOMAIN db.agents :
        /\ NameOf(j) # NameOf(k)
        /\ db.agents[j].enabled /\ db.agents[k].enabled
        /\ db.agents[j].tags \cap db.agents[k].tags # {}

\* "Any writer of the DB is picked up here" (config_watcher.py): rows that do not
\* conflict among themselves come to every running replica.
AnyWriterIsPickedUp ==
    \A p \in Procs : <>[](up[p] => InSync(p)) \/ []<>busy[p] \/ []<>StoredConflict

\* "Skill versions are immutable: publishing different content under an existing
\* (name, version) is rejected": the stored hash of a version never changes.
SkillsAreImmutable ==
    [][\A k \in DOMAIN db.skills :
          k \in DOMAIN db'.skills /\ db'.skills[k].hash = db.skills[k].hash]_vars
=============================================================================

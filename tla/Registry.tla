------------------------------ MODULE Registry -------------------------------
(***************************************************************************)
(* framework/registry.py: the in-memory registries of one process, as      *)
(* functions from a registry's value to its next value.                    *)
(*                                                                         *)
(* An agent or a skill is a key <<name, version>> of numbers, so that the  *)
(* order of names and of versions is that of the numbers.  A route holds a *)
(* spec object in the code and its key here: register() takes every route  *)
(* of the key away before it replaces the object, and disable() changes    *)
(* the object in place, so the routed object is always the registered one. *)
(***************************************************************************)
EXTENDS Integers, FiniteSets, Sequences, SequencesExt

NameOf(k) == k[1]

VersionOf(k) == k[2]

Before(j, k) ==
    NameOf(j) < NameOf(k) \/ (NameOf(j) = NameOf(k) /\ VersionOf(j) < VersionOf(k))

\* list(): ordered by name, then version
Listed(K) == CHOOSE s \in SetToSeqs(K) : \A i, j \in DOMAIN s : i < j => Before(s[i], s[j])

\* max(..., key=_version_key), where the keys have one name
Highest(K) == CHOOSE k \in K : \A j \in K : VersionOf(j) <= VersionOf(k)

Put(f, x, v) == [y \in DOMAIN f \cup {x} |-> IF y = x THEN v ELSE f[y]]

Drop(f, X) == [y \in DOMAIN f \ X |-> f[y]]

-----------------------------------------------------------------------------
(* AgentRegistry: agents[key] = spec, routes[tag] = key; order is the order of the
   entries of the _agents dict, which decides between agents of one version *)

NoAgents == [agents |-> << >>, routes |-> << >>, order |-> << >>]

Serving(agents, t) == {k \in DOMAIN agents : agents[k].enabled /\ t \in agents[k].tags}

\* the key of K that is first in the order
FirstOf(order, K) ==
    order[CHOOSE i \in DOMAIN order : order[i] \in K /\ \A j \in 1..(i - 1) : order[j] \notin K]

\* _latest_enabled_for_tag: of several agents of the highest version max() takes the first
Latest(agents, order, t) ==
    LET S == Serving(agents, t)
    IN  FirstOf(order, {k \in S : \A j \in S : VersionOf(j) <= VersionOf(k)})

\* each tag of T that somebody serves is routed to the latest, another one keeps what it has
Handed(agents, order, routes, T) ==
    LET S == {t \in T : Serving(agents, t) # {}}
    IN  [t \in DOMAIN routes \cup S |->
            IF t \in S THEN Latest(agents, order, t) ELSE routes[t]]

\* the entries of the dict after register: an entry that is replaced keeps its place
Entered(reg, k) == IF k \in DOMAIN reg.agents THEN reg.order ELSE Append(reg.order, k)

RoutedTo(reg, k) == {t \in DOMAIN reg.routes : reg.routes[t] = k}

\* a tag of the spec is routed to an agent of another name
Conflicts(reg, k, spec) ==
    \E t \in spec.tags \cap DOMAIN reg.routes : NameOf(reg.routes[t]) # NameOf(k)

Refused(reg, k, spec, makeDefault) == spec.enabled /\ makeDefault /\ Conflicts(reg, k, spec)

\* variant: the routes of the version that is replaced are left in place
RegisterKeepingRoutes(reg, k, spec, makeDefault) ==
    [agents |-> Put(reg.agents, k, spec),
     order  |-> Entered(reg, k),
     routes |-> IF spec.enabled /\ makeDefault
                THEN [t \in DOMAIN reg.routes \cup spec.tags |->
                         IF t \in spec.tags THEN k ELSE reg.routes[t]]
                ELSE reg.routes]

Register(reg, k, spec, makeDefault) ==
    LET agents == Put(reg.agents, k, spec)
        order  == Entered(reg, k)
        kept   == Drop(reg.routes, RoutedTo(reg, k))
    IN  [agents |-> agents,
         order  |-> order,
         routes |->
            IF spec.enabled /\ makeDefault
            THEN [t \in DOMAIN kept \cup spec.tags |-> IF t \in spec.tags THEN k ELSE kept[t]]
            ELSE IF k \in DOMAIN reg.agents THEN Handed(agents, order, kept, reg.agents[k].tags)
            ELSE kept]

\* what disable and deregister do to the routes of the key
Rerouted(reg, agents, order, k) ==
    [agents |-> agents,
     order  |-> order,
     routes |-> Handed(agents, order, Drop(reg.routes, RoutedTo(reg, k)), RoutedTo(reg, k))]

Disable(reg, k) == Rerouted(reg, [reg.agents EXCEPT ![k].enabled = FALSE], reg.order, k)

Deregister(reg, k) == Rerouted(reg, Drop(reg.agents, {k}), RemoveFirst(reg.order, k), k)

CanBeDefault(reg, k) ==
    /\ k \in DOMAIN reg.agents /\ reg.agents[k].enabled
    /\ ~Conflicts(reg, k, reg.agents[k])

SetDefault(reg, k) ==
    [reg EXCEPT !.routes = [t \in DOMAIN @ \cup reg.agents[k].tags |->
                               IF t \in reg.agents[k].tags THEN k ELSE @[t]]]

\* register() for each of a list; the first refusal raises and the rest is not done
RegisterAll(reg, keys, specs) ==
    FoldLeft(LAMBDA acc, k :
                 IF ~acc.ok \/ Refused(acc.reg, k, specs[k], TRUE) THEN [acc EXCEPT !.ok = FALSE]
                 ELSE [acc EXCEPT !.reg = Register(@, k, specs[k], TRUE)],
             [reg |-> reg, ok |-> TRUE], keys)

\* ConfigWatcher._reload_agents: removals, then the rows that differ
ReloadAgents(reg, rows) ==
    LET gone    == Listed(DOMAIN reg.agents \ DOMAIN rows)
        changed == {k \in DOMAIN rows : k \notin DOMAIN reg.agents \/ reg.agents[k] # rows[k]}
    IN  RegisterAll(FoldLeft(Deregister, reg, gone), Listed(changed), rows)

-----------------------------------------------------------------------------
(* ToolRegistry: tools[name] = [version, enabled]; ai_tool_config has a row per version *)

\* {s.name: s for s in store.tools.list()}: the highest version of each name
ToolsOf(rows) ==
    [n \in {NameOf(k) : k \in DOMAIN rows} |->
        LET k == Highest({j \in DOMAIN rows : NameOf(j) = n})
        IN  [version |-> VersionOf(k), enabled |-> rows[k]]]

-----------------------------------------------------------------------------
(* SkillRegistry: skills[key] = spec, defaults[name] = version *)

NoSkills == [skills |-> << >>, defaults |-> << >>]

Enabled(skills, n) == {k \in DOMAIN skills : NameOf(k) = n /\ skills[k].enabled}

\* _select_default, after the default of the name has been taken away
SelectDefault(skills, defaults, n) ==
    IF Enabled(skills, n) = {} THEN defaults
    ELSE Put(defaults, n, VersionOf(Highest(Enabled(skills, n))))

\* the skills have changed; a default that is no longer there is chosen again
Reselected(reg, skills, n, versions) ==
    [skills   |-> skills,
     defaults |-> IF n \in DOMAIN reg.defaults /\ reg.defaults[n] \in versions
                  THEN SelectDefault(skills, Drop(reg.defaults, {n}), n)
                  ELSE reg.defaults]

RegisterSkill(reg, k, spec, makeDefault) ==
    LET skills == Put(reg.skills, k, spec)
        n      == NameOf(k)
    IN  IF ~spec.enabled THEN Reselected(reg, skills, n, {VersionOf(k)})
        ELSE [skills   |-> skills,
              defaults |-> IF makeDefault THEN Put(reg.defaults, n, VersionOf(k))
                           ELSE IF n \in DOMAIN reg.defaults THEN reg.defaults
                           ELSE SelectDefault(skills, reg.defaults, n)]

\* variant: a version goes and the default that named it stays
DisableSkillOnly(reg, k) == [reg EXCEPT !.skills[k].enabled = FALSE]

DisableSkill(reg, k) ==
    Reselected(reg, [reg.skills EXCEPT ![k].enabled = FALSE], NameOf(k), {VersionOf(k)})

DeregisterSkill(reg, k) ==
    Reselected(reg, Drop(reg.skills, {k}), NameOf(k), {VersionOf(k)})

\* SkillRegistry(list): each name selects its highest enabled version
SkillsOf(rows) ==
    [skills   |-> rows,
     defaults |-> [n \in {NameOf(k) : k \in {j \in DOMAIN rows : rows[j].enabled}} |->
                      VersionOf(Highest(Enabled(rows, n)))]]

\* ConfigWatcher._reload_skills, once every row has been verified
ReloadSkills(reg, rows) ==
    LET gone    == Listed(DOMAIN reg.skills \ DOMAIN rows)
        changed == {k \in DOMAIN rows : k \notin DOMAIN reg.skills \/ reg.skills[k] # rows[k]}
        IsNew(r, k) == \A j \in DOMAIN r.skills : NameOf(j) # NameOf(k)
    IN  FoldLeft(LAMBDA acc, k : RegisterSkill(acc, k, rows[k], IsNew(acc, k)),
                 FoldLeft(DeregisterSkill, reg, gone), Listed(changed))
=============================================================================

SPECIFICATION FairSpec
CONSTANTS
    p1 = p1  p2 = p2  t = t  u = u  h1 = h1  h2 = h2  v0 = v0  v1 = v1
    NoProc = NoProc  Absent = Absent
    Procs = {p1, p2}
    Executors = {p1}
    AgentKeys <- MCAgentKeys
    AgentSpecs <- MCAgentSpecs
    Tags = {t, u}
    Seeds <- MCSeeds
    ToolKeys <- MCToolKeys
    McpKeys <- MCMcpKeys
    SkillKeys <- MCSkillKeys
    Hashes = {h1}
    Namespaces = {"queue", "worker", "model"}
    Values = {v0, v1}
    Default = v0
    MaxWrites = 2
    MaxStops = 1
INVARIANTS RoutesServe DefaultsServe
PROPERTIES NoLostSection ReplicasConverge
CHECK_DEADLOCK FALSE

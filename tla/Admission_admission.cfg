SPECIFICATION FairSpec
CONSTANTS
    p = p  c = c  g = g  d = d
    tp = tp  tc = tc  tg = tg  td = td  tb = tb
    NoRun = NoRun
    NoTask = NoTask
    Runs = {p, c, g, d}
    Tasks = {tp, tc, tg, td, tb}
    Lineage <- MCLineage
    RunOf <- MCRunOf
    By <- MCBy
    AgentMax <- MCAgentMax
    RouteMax <- MCRouteMax
    CallerMax <- MCCallerMax
    LimitChoices <- MCLimits
    MaxReloads = 1
INVARIANTS AgentLimitHolds LaneIsSingle
PROPERTY NobodyWaitsForEver

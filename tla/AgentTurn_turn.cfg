SPECIFICATION FairSpec
CONSTANTS
    a = a  b = b  m1 = m1  m2 = m2  m3 = m3  k1 = k1  k2 = k2  k3 = k3  d1 = d1  d2 = d2
    Calls = {a, b}
    CallIds = {a, b}
    Tools <- MCTools
    MaxConcurrency = 1
    ToolAttempts = 2
    Threshold = 2
    Qps = 1
    MaxTurns = 2
    MaxToolCalls = 2
    MaxParallel = 2
    MaxPending = 2
    MaxInterrupts = 2
    MaxSaveFailures = 1
    Configs <- MCConfigs
    NoModel = NoModel
    Skills = {k1, k2, k3}
    Policy <- MCPolicy
    Size <- MCSize
    MaxActive = 2
    MaxSize = 3
    Contents = {d1, d2}
    NoContent = NoContent
INVARIANTS NothingIsLeftBehind RecordsAreClosed ToolsFollowStoredTurns WorkerKeepsProtocol AnswerIsRecorded SkillsArePinned
PROPERTY AttemptEnds
CHECK_DEADLOCK FALSE

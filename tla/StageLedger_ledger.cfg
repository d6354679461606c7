CONSTANTS
    p1 = p1  p2 = p2  i1 = i1  i2 = i2  o1 = o1  o2 = o2  c1 = c1  c2 = c2
    None = None
    Executors = {p1, p2}
    MaxAttempts = 2
    Inputs = {i1, i2}
    Outputs = {o1, o2}
    Checkpoints = {c1, c2}
    Disturbances = {"claim", "shutdown"}
SPECIFICATION Spec
SYMMETRY ValueSymmetry
CHECK_DEADLOCK FALSE
INVARIANTS TypeOK AtMostOneEffect OutputIsConfirmed OneResult CheckpointIsOwners
PROPERTY StageIsFinal

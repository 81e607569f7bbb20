CONSTANTS
    Message = {m1, m2}
    Conn = {c1}
    SendBuffer = 2
    BatchSize = 2
    MaxFaults = 0
SPECIFICATION Spec
INVARIANT BacklogFirst
CHECK_DEADLOCK FALSE

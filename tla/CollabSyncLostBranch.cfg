CONSTANTS
    d1 = d1
    d2 = d2
    Device = {d1, d2}
    Writer = {d1}
    MaxEdits = 2
    MaxUndos = 0
    MaxSeq = 3
    MaxCheckpoints = 2
    MaxFaults = 0
SPECIFICATION Spec
PROPERTY PublishedStaysRecoverable
CHECK_DEADLOCK FALSE

CONSTANTS
    d1 = d1
    d2 = d2
    Device = {d1, d2}
    Writer = {d1}
    MaxEdits = 2
    MaxUndos = 1
    MaxSeq = 3
    MaxCheckpoints = 2
    MaxFaults = 1
SPECIFICATION FairSpec
PROPERTIES ImplementsSharedEditing EditsReachServer
CHECK_DEADLOCK FALSE

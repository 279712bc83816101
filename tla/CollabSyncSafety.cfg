CONSTANTS
    d1 = d1
    d2 = d2
    Device = {d1, d2}
    Writer = {d1, d2}
    MaxEdits = 1
    MaxUndos = 0
    MaxSeq = 2
    MaxCheckpoints = 2
    MaxFaults = 1
SYMMETRY DeviceSymmetry
SPECIFICATION Spec
INVARIANTS TypeOK SequenceNeverReused BaseWasAccepted UnacceptedIsQueued
    FreshOperationIds
PROPERTY CompactionKeepsBranches
CHECK_DEADLOCK FALSE

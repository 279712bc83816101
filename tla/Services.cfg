CONSTANTS
    ja = ja
    jx = jx
    jm = jm
    GateJobs <- Jobs
    JobLimit <- Limits
    ClipCount <- Clips
    MergeJobs = {jm}
    ArchiveJob = ja
    OtherJobs = {jx}
    Collections = {c1}
    EntryIds = {e1, e2, e3}
    KEEP_DONE = 1
    MaxKills = 1
    Detections = {t1, t2, t3}
    MaxDaemons = 2
    MaxDeaths = 2
    Sends = 0
    KeepDone = 1
    MaxBoxKills = 0
    MaxHostChanges = 2
    Peers = {w1, w2}
    CanWrite = {w1, w2}
    MaxPeerEdits = 2
    MaxNetFaults = 1
SPECIFICATION ServicesSpec
INVARIANTS ServicesTypeOK SlotsAreExact
    DaemonsServeTheirHolder
PROPERTIES NoClipWaitsForEver AnnouncedWorkIsDone
    EveryDetectionEnds HostOperationsSettle EditsReachWriters
CHECK_DEADLOCK FALSE

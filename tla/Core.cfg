CONSTANTS
    Dirs = {d1, d2}
    Archives = {r1}
    MaxShots = 3
    MaxContents = 3
    MayReturn = FALSE
    MayRelocate = TRUE
    MaxMishaps = 1
    HostProjects = {p1, p2}
    Timelines = {t1, t2}
    CheckpointEvery = 2
    MaxChanges = 1
    MaxLosses = 1
    Sends = 2
    KeepDone = 1
    MaxBoxKills = 1
    MaxHostChanges = 2
    Op = {a, b}
    Bracketed = {a}
    MaxCalls = 5
    MaxFaults = 1
    MaxOps = 2
    Projects = {p, q}
    Downloads = {f1}
    BlobChunks = 2
    MaxBlobRuns = 3
    MaxBlobMishaps = 2
    MaxReferences = 3
    Peers = {w1, w2, rd}
    CanWrite = {w1, w2}
    MaxPeerEdits = 2
    MaxNetFaults = 1
    MaxRequests = 2
    Tokens = {k1, k2}
    NoToken = NoToken
    PROXY_MAX_HI = 2
    PROXY_MAX_LO = 1
    HEAL_STREAK = 1
    BusyTries = 1
    EncodeRetries = 1
    MarkLimit = 1
    Lines = {c1, c2, c3}
    NoLine = NoLine
    THROTTLE = 3
    MaxVersions = 4
    STEP = 12
    MediaScale = 3
    MovieScale = 1
    HeadSizes = {0, 2}
    ShotSizes = {1, 2, 3}
    Tails = {{}, {1}, {2}}
    TimeBases = {1, 7, 11}
    Sounds = {4}
    Turns = {u1, u2}
    CliTurns = {u2}
    NoTurn = NoTurn
    MaxTools = 2
    MaxSettings = 1
    ShareShots = {s1, s2}
    ShareProjects = {q1, q2}
    NoShare = NoShare
    BatchSize = 1
    MaxShareFaults = 1
SPECIFICATION CoreSpec
INVARIANTS CoreTypeOK EntriesAreFaithful SendsAreKept AnswersMatch
    HandlesStayValid StoredIsWhole WritersFinishEqual RequestsAreServed PresenceIsHonest CutsAreExact ToolsRunAsAgreed
    SharesAgree
PROPERTIES CommitsOrphanNothing ACaptureIsComplete ReferencedIsKept
CHECK_DEADLOCK FALSE

CONSTANTS
    Projects = {p}
    Downloads = {f1, f2}
    BlobChunks = 2
    MaxBlobRuns = 3
    MaxBlobMishaps = 2
    MaxReferences = 3
SPECIFICATION BlobSpec
INVARIANTS StoredIsWhole
CHECK_DEADLOCK FALSE

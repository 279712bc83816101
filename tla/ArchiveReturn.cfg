CONSTANTS
    Dirs = {d1, d2}
    Archives = {r1}
    MaxShots = 3
    MaxContents = 4
    MayReturn = TRUE
    MayRelocate = FALSE
    MaxMishaps = 0
SPECIFICATION CollSpec
PROPERTIES CommitsAreFaithful
CHECK_DEADLOCK FALSE

CONSTANTS
    Pages = {p1, p2}
    Mine = {a}
    Theirs = {x}
    MaxVisits = 1
    MaxCallFailures = 1
    MaxSessions = 1
SPECIFICATION NotebookSpec
INVARIANTS NotebookTypeOK SessionIsFaithful
PROPERTIES SessionsCatchUp
CHECK_DEADLOCK FALSE

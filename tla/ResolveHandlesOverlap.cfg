CONSTANTS
    a = a
    b = b
    Op = {a, b}
    Bracketed = {a, b}
    MaxCalls = 6
    MaxFaults = 0
    MaxOps = 2
SPECIFICATION Spec
INVARIANT HandlesStayValid
CHECK_DEADLOCK FALSE

CONSTANTS
    alice = alice
    bob = bob
    a1 = a1
    a2 = a2
    b1 = b1
    b2 = b2
    NoKey = NoKey
    Account = {alice}
    Owner = alice
    Device = {a1, a2}
    AccountOf <- TwoOfOwner
    MaxEpoch = 1
    MaxChanges = 0
    MaxEdits = 2
    MaxFaults = 0
SPECIFICATION Spec
INVARIANT OneContentKeyPerEpoch
CHECK_DEADLOCK FALSE

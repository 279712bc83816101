CONSTANTS
    alice = alice
    bob = bob
    a1 = a1
    a2 = a2
    b1 = b1
    b2 = b2
    NoKey = NoKey
    Account = {alice, bob}
    Owner = alice
    Device = {a1, b1, b2}
    AccountOf <- TwoOfMember
    MaxEpoch = 3
    MaxChanges = 4
    MaxEdits = 1
    MaxFaults = 1
SPECIFICATION Spec
CONSTRAINT SafetyBound
INVARIANTS TypeOK KeysAreDrawnOnce StoredStaysReadable EnvelopesOnlyForMembers
CHECK_DEADLOCK FALSE

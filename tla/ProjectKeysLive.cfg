CONSTANTS
    alice = alice
    bob = bob
    a1 = a1
    a2 = a2
    b1 = b1
    b2 = b2
    NoKey = NoKey
    Account = {alice, bob}
    Owner = alice
    Device = {a1, b1}
    AccountOf <- OneDeviceEach
    MaxEpoch = 3
    MaxChanges = 2
    MaxEdits = 2
    MaxFaults = 1
SPECIFICATION FairSpec
PROPERTIES DevicesGetTheirKeys EditsArePublished
CHECK_DEADLOCK FALSE

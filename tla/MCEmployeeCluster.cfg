CONSTANTS
    s = s
    h = h
    a = a
    Sidecar = s
    Handshakes <- MCHandshakes
    Applied <- MCApplied
    Slots = 2
    Desired = 1
    MaxIterations = 5
    MaxFaults = 1
    MaxMishaps = 1

SPECIFICATION FairSpec

INVARIANTS
    RefusalIsShortage
    ApprovalIsEarned

PROPERTIES
    WorkComesToRest

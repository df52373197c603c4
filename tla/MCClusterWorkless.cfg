CONSTANTS
    s = s
    h = h
    a = a
    Sidecar = s
    Handshakes <- MCHandshakes
    Applied <- MCNone
    Slots = 5
    Desired = 2
    MaxIterations = 5
    MaxFaults = 0
    MaxMishaps = 0

SPECIFICATION FairSpec

PROPERTIES
    WorkIsRun

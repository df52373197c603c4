CONSTANTS
    s = s
    Sidecars <- MCOneSidecar
    Desired = 2
    MaxFiles = 2
    MaxDeletes = 1
    MaxFaults = 2

SPECIFICATION FairSpec

INVARIANTS
    TypeOK
    PoolIsBounded
    BurstsArePaid

PROPERTIES
    PoolReachesSize
    BatchIsServed

CHECK_DEADLOCK FALSE

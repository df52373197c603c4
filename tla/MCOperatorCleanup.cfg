CONSTANTS
    t = t
    p = p
    op = op
    oq = oq
    NoPod = NoPod
    Failed = Failed
    NoTask = NoTask
    Tasks <- MCOneTask
    Operators <- MCOperators
    Prefixes <- MCPrefixes
    Prefix <- MCOnePrefix
    Schemas = {FALSE}
    MaxSeconds = 2
    MaxEdits = 1
    MaxFaults = 0

SPECIFICATION Spec

INVARIANTS
    CleanupIsHandled

CHECK_DEADLOCK FALSE

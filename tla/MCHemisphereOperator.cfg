CONSTANTS
    t = t
    p = p
    op = op
    oq = oq
    NoPod = NoPod
    Failed = Failed
    NoTask = NoTask
    Tasks <- MCOneTask
    Operators <- MCReplicas
    Prefixes <- MCPrefixes
    Prefix <- MCOnePrefix
    Schemas = {TRUE, FALSE}
    MaxSeconds = 2
    MaxEdits = 2
    MaxFaults = 1

SPECIFICATION FairSpec

INVARIANTS
    TypeOK
    ExtraPodsHaveCauses

PROPERTIES
    EverySpecHandled
    DeletedTaskGoes

CHECK_DEADLOCK FALSE

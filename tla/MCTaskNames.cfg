CONSTANTS
    Plain <- MCPlain
    Capitals <- MCCapitals
    Marks = {"_", "."}
    Foreign <- MCForeign
    LowerOf <- MCLowerOf
    Ids <- MCIds
    DigitOf <- MCDigitOf
    FragmentMax = 6
    LabelMax = 11
    PodMax = 8
    StandbyPrefix <- MCStandbyPrefix
    Seconds = 2
    Indexes = {0}
    MaxPlans = 2
    MaxStandby = 1
    NoPod = NoPod

SPECIFICATION Spec

INVARIANTS
    ConflictsPassInASecond
    OnlyCutIdsAreRefused
    FailedTaskHasAReason
    IdleMeansStandby

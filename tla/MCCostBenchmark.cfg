CONSTANTS
    Profiles <- MCProfiles
    Frequency <- MCFrequency
    LowRisk <- MCLowRisk
    Days = 2
    States <- MCStates
    Tokens <- MCTokens
    AfterTokens <- MCAfterTokens
    Hit <- MCHit
    AfterCoin <- MCAfterCoin
    PodCost <- MCPodCost
    AfterPod <- MCAfterPod

SPECIFICATION Spec

INVARIANTS
    WorkloadsAgree
    NeverDearerThanOpus
    OptionsNeverCostMore
    BatchPaysForOnePlan

CHECK_DEADLOCK FALSE

CONSTANTS
    Plans = {p1, p2}
    Room = 1
    MaxStalls = 3
    MaxFailures = 1
    MaxPods = 3

SPECIFICATION Spec

INVARIANTS
    LossHasACause

PROPERTIES
    SidecarRecovers
    WaitingPlanIsDispatched

CHECK_DEADLOCK FALSE

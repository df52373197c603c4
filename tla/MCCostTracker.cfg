CONSTANTS
    i1 = i1
    i2 = i2
    w = w
    Intents <- MCIntents
    Models <- MCModels
    Usages <- MCUsages
    Infra <- MCInfra
    PodRate = 4
    Timers <- MCTimers
    MaxPhases = 2
    MaxSecond = 1
    MaxRestarts = 1
    MaxFaults = 1

SPECIFICATION Spec

INVARIANTS
    OneRecordPerIntent
    ReportIsWhole
    SavingsNeverNegative

PROPERTIES
    OverwrittenReportIsCovered

CHECK_DEADLOCK FALSE

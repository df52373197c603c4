CONSTANTS
    a = a
    b = b
    ab = ab
    NoFile = NoFile
    Torn = Torn
    NoIntent = NoIntent
    Intents <- MCIntents
    Names <- MCNames
    SafeName <- MCSafeName
    Unwritable <- MCNone
    Rejected <- MCNone
    MaxPlans = 2
    MaxFaults = 2

SPECIFICATION FairSpec

INVARIANTS
    TypeOK
    PlannedOnceIsKept
    ProcessedIntentRan
    TasksCarryWholePlans
    DuplicatesNeedFaults

PROPERTIES
    NeverDispatchOlder
    EveryQueuedPlanDispatched
    EveryQueuedPlanRetired

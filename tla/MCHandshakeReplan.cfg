CONSTANTS
    a = a
    b = b
    ab = ab
    NoFile = NoFile
    Torn = Torn
    NoIntent = NoIntent
    Intents <- MCIntents
    Names <- MCNames
    SafeName <- MCSafeName
    Unwritable <- MCNone
    Rejected <- MCNone
    MaxPlans = 2
    MaxFaults = 0

SPECIFICATION Spec

INVARIANTS
    ProcessedPlanRan

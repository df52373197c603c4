CONSTANTS
    a = a
    b = b
    c = c
    ab = ab
    n = n
    NoFile = NoFile
    Torn = Torn
    NoIntent = NoIntent
    Intents <- MCIntents
    Names <- MCNames
    SafeName <- MCSafeName
    Unwritable <- MCUnwritable
    Rejected <- MCRejected
    MaxPlans = 1
    MaxFaults = 2

SPECIFICATION FairSpec

PROPERTIES
    KeepsPromise

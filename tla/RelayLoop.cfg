\* The range of a float, and the longest outage the loop gets over.
CONSTANTS
    LargestExponent = 1023
    MaxOutage = 1024
SPECIFICATION FairSpec
INVARIANTS
    TypeOK
    ResourcesOutliveLoop
    NothingLeftOpen
    ErrorsSurvived
PROPERTIES
    StopEnds
    KeepsPolling
CHECK_DEADLOCK FALSE

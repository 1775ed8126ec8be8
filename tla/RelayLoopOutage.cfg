\* One poll more.
CONSTANTS
    LargestExponent = 1023
    MaxOutage = 1025
SPECIFICATION FairSpec
INVARIANTS
    ErrorsSurvived
CHECK_DEADLOCK FALSE

SPECIFICATION Spec
CONSTANTS
    Requests = {r1, r2}
    Keys = {k1}
    Orders = {o1}
    Metadata <- MCMetadata
    Stored <- MCStored
    None = None
    MaxFaults = 0
INVARIANT
    SameRequestTwice
CHECK_DEADLOCK FALSE

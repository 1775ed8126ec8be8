\* One publisher whose commit succeeds but raises.
CONSTANTS
    Publishers = {a}
    Events = {1}
    None = None
    BatchSize = 1
    MaxAttempts = 2
    LateHolders = FALSE
    LostReplies = TRUE
    MaxFaults = 1
SPECIFICATION Spec
PROPERTIES
    OnlyUnpublishedRelayed

\* Two publishers, claims that time out under them and commits whose reply is lost.
CONSTANTS
    Publishers = {a, b}
    Events = {1, 2}
    None = None
    BatchSize = 1
    MaxAttempts = 2
    LateHolders = TRUE
    LostReplies = TRUE
    MaxFaults = 2
SPECIFICATION Spec
SYMMETRY Symmetry
INVARIANTS
    TypeOK
    SettledWasSent
    FailedWasTried
    NothingStranded

\* Two publishers whose claims do not time out under them: a rolling restart.
CONSTANTS
    Publishers = {a, b}
    Events = {1, 2}
    None = None
    BatchSize = 2
    MaxAttempts = 2
    LateHolders = FALSE
    LostReplies = FALSE
    MaxFaults = 2
SPECIFICATION FairSpec
INVARIANTS
    ClaimsExclusive
    CopiesCurrent
    PublishBudget
PROPERTIES
    OnlyUnpublishedRelayed
    SettledIsFinal
    EventuallySettled
    EventuallyPurged

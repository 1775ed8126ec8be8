\* Two overlapping handlers, one payment, a duplicate publication, two faults.
CONSTANTS
    Consumers = {c1, c2}
    Payments = {p1}
    Events = {e1}
    PaymentOf <- MCPaymentOf
    None = None
    MaxAttempts = 2
    MaxPublish = 2
    MaxFaults = 2
SPECIFICATION Spec
SYMMETRY Symmetry
INVARIANTS
    TypeOK
    ToldTheTruth
    SettledAsCharged
    NoEventLost
    InboxMeansDelivered
    RetriesBounded
    CopiesBounded
    AttemptsBudget
CHECK_DEADLOCK FALSE

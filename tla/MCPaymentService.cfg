\* A request and its repetition, one process of each kind.
CONSTANTS
    Requests = {1, 2}
    Keys = {k1}
    Orders = {o1}
    Metadata = {m1}
    Stored <- MCStored
    None = None
    Publishers = {a}
    BatchSize = 1
    PublishAttempts = 2
    Consumers = {c1}
    HandleAttempts = 1
    MaxFaults = 1
SPECIFICATION Spec
INVARIANTS
    AcceptedIsCarried
    OneOutcomePerKey
PROPERTIES
    ImplementsLifecycle
CHECK_DEADLOCK FALSE

\* Every event is handled and the queues drain, whatever fails MaxFaults times.
CONSTANTS
    Consumers = {c1, c2}
    Payments = {p1}
    Events = {e1}
    PaymentOf <- MCPaymentOf
    None = None
    MaxAttempts = 3
    MaxPublish = 1
    MaxFaults = 1
SPECIFICATION FairSpec
PROPERTIES
    ImplementsLifecycle
    EventuallyHandled
    EventuallyQuiet
CHECK_DEADLOCK FALSE

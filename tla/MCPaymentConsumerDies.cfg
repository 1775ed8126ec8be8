\* A process that dies while its handler is about to forward a message.
CONSTANTS
    Consumers = {c1}
    Payments = {p1}
    Events = {e1}
    PaymentOf <- MCPaymentOf
    None = None
    MaxAttempts = 3
    MaxPublish = 1
    MaxFaults = 1
SPECIFICATION Spec
PROPERTIES
    DeadHandlerDeadLetters
CHECK_DEADLOCK FALSE

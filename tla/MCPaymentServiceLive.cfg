\* One payment from the request to the webhook; one fault anywhere.
CONSTANTS
    Requests = {1}
    Keys = {k1}
    Orders = {o1}
    Metadata = {m1}
    Stored <- MCStored
    None = None
    Publishers = {a}
    BatchSize = 1
    PublishAttempts = 1
    Consumers = {c1}
    HandleAttempts = 2
    MaxFaults = 1
SPECIFICATION FairSpec
PROPERTIES
    AcceptedIsProcessed
CHECK_DEADLOCK FALSE

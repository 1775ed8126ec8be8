SPECIFICATION FairSpec
CONSTANTS
    Requests = {r1, r2, r3}
    Keys = {k1}
    Orders = {o1, o2}
    Metadata <- MCMetadata
    Stored <- MCStored
    None = None
    MaxFaults = 2
INVARIANTS
    TypeOK
    OnePaymentPerKey
    EventPerPayment
    AnswersAgree
    ConflictIsReal
PROPERTIES
    RequestsAnswered
CHECK_DEADLOCK FALSE

SPECIFICATION Spec
CONSTANTS
    MaxRecords = 3
    MaxConsume = 2
    MaxKA = 2
    MaxBuf = 2
    MaxWire = 2
    KeepAlives = TRUE
    KaWait = FALSE
    Faults = {"send", "partial_record", "partial_ka", "ka_error", "join", "consume", "ack", "agency"}
CHECK_DEADLOCK FALSE
INVARIANT TypeOK
INVARIANT AcknowledgedWasSent
INVARIANT FirstSentInOrder

SPECIFICATION FairSpec
CONSTANTS
    MaxRecords = 2
    MaxConsume = 2
    MaxKA = 2
    MaxBuf = 2
    MaxWire = 2
    KeepAlives = TRUE
    KaWait = TRUE
    Faults = {"send", "partial_record", "consume", "ack", "agency"}
CHECK_DEADLOCK FALSE
INVARIANT NotGarbled
 
INVARIANT AnswersAreExpected
PROPERTY EventuallySent

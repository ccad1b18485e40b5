SPECIFICATION FairSpec
CONSTANTS
    MaxRecords = 1
    MaxConsume = 1
    MaxKA = 0
    MaxBuf = 1
    MaxWire = 1
    KeepAlives = FALSE
    KaWait = FALSE
    Faults = {"join"}
CHECK_DEADLOCK FALSE
PROPERTY EventuallySent

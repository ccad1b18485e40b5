SPECIFICATION FairSpec
CONSTANTS
    None = None
    Collectors = {c1}
    Liids = {l1}
    Fds = {f1, f2}
    Events = {"rmq", "tls", "password", "listener", "loss", "broker", "fatal"}
    MaxRecords = 2
    MaxLosses = 1
    MaxReloads = 1
CHECK_DEADLOCK FALSE
INVARIANT TypeOK
 
 
INVARIANT StoredIsDeclared
PROPERTY HeldIsRead
PROPERTY DisconnectCompletes

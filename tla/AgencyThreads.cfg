SPECIFICATION Spec
CONSTANTS
    None = None
    Agencies = {a1}
    Liids = {l1, l2}
    Events = {"cease", "withdraw", "provisioner", "reload", "handover", "fatal"}
    MaxMessages = 6
    MaxRecords = 1
CHECK_DEADLOCK FALSE
INVARIANT TypeOK
 
INVARIANT ConfirmedStaysActive

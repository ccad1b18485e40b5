SPECIFICATION FairSpec
CONSTANTS
    None = None
    Agencies = {a1, a2}
    Liids = {l1}
    Events = {"withdraw", "provisioner", "handover"}
    MaxMessages = 4
    MaxRecords = 1
CHECK_DEADLOCK FALSE
 
PROPERTY HaltCompletes
 

SPECIFICATION Spec
CONSTANTS
    None = None
    Agencies = {a1, a2}
    Liids = {l1}
    Events = {"cease", "handover"}
    MaxMessages = 5
    MaxRecords = 0
CHECK_DEADLOCK FALSE
INVARIANT NoStolenRecords

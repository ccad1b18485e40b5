SPECIFICATION Spec
CONSTANTS
    None = None
    Collectors = {c1}
    Liids = {l1}
    Fds = {f1, f2}
    Events = {"listener"}
    MaxRecords = 1
    MaxLosses = 1
    MaxReloads = 1
CHECK_DEADLOCK FALSE
INVARIANT DisconnectedIsClosed

SPECIFICATION Spec
CONSTANTS
    None = None
    Freed = Freed
    Mediators = {1, 2}
    Addrs = {a1}
    Fds = {5, 6, 7}
    Messages = {"announce", "drop", "dropall", "flag", "reconnect"}
    Results = {1}
    Unannounced = FALSE
    TLS = FALSE
    MinSend = 1
    MaxBuf = 1
    MaxMessages = 3
    MaxSlots = 2
INVARIANT TypeOK
INVARIANT SlotLeadsToOwner
PROPERTY ConfirmedNotPurged

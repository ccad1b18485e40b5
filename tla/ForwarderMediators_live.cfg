SPECIFICATION FairSpec
CONSTANTS
    None = None
    Freed = Freed
    Mediators = {1}
    Addrs = {a1, a2}
    Fds = {5, 6}
    Messages = {"announce", "move", "reconnect"}
    Results = {1}
    Unannounced = TRUE
    TLS = TRUE
    MinSend = 2
    MaxBuf = 2
    MaxMessages = 2
    MaxSlots = 2
INVARIANT ConnectedIsWatched
PROPERTY BufferedIsSent

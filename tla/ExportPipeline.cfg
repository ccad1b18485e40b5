SPECIFICATION FairSpec
CONSTANTS
    d1 = d1
    d2 = d2
    m1 = m1
    m2 = m2
    w1 = w1
    w2 = w2
    None = None
    Liids = {l1}
    Kinds = {"cc"}
    Cins = {c1}
    Workers = {w1, w2}
    Details = {d1, d2}
    Idents = {i1, i2}
    Mediators = {m1, m2}
    DestOf <- OneMediator
    Told = {l1}
    Events = {"change", "reload", "withdraw", "encode_error", "no_memory"}
    MaxSeq = 2
    MaxBatch = 2
    VersionMod = 4
    MaxPublished = 3
CHECK_DEADLOCK FALSE
INVARIANT TypeOK
 
INVARIANT InOrderExport
INVARIANT NothingReadyHeld
INVARIANT HeaderCurrent
PROPERTY EventuallyExported

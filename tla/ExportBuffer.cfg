SPECIFICATION Spec
CONSTANTS
    None = None
    TLS = FALSE
    RecordSizes = {1, 3}
    AllocSize = 4
    ShrinkFactor = 2
    Frequency = 3
    ByteLimit = 6
    MaxBytes = 10
CHECK_DEADLOCK FALSE
INVARIANT TypeOK
INVARIANT WithinBuffer
INVARIANT ContiguousStream
INVARIANT NothingSkipped
INVARIANT BatchFound

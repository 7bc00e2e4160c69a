SPECIFICATION Spec
SYMMETRY Symmetry
CONSTANTS
    Refs = {r1, r2}
    Limits <- SomeLimits
    Values = {0, 2}
    Dispenses <- SomeDispenses
    Ops <- TreasuryOps
    MaxU256 = 3
    AuditCapacity = 6
    MaxKeys = 2
    MaxBatch = 1
    MaxRows = 3
    KeySize = 2
    RowSize = 1
    RecordSize = 1
    MaxBlob = 20
    MaxEpoch = 8
    MaxBackups = 2
    MaxPublished = 2
INVARIANTS SpendWithinLimits
PROPERTIES EpochOnlyTouchesMarks MarksMoveForward

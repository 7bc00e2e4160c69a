SPECIFICATION Spec
SYMMETRY Symmetry
CONSTANTS
    Refs = {r1, r2}
    Limits <- SomeLimits
    Values = {0, 1, 3}
    Dispenses <- SomeDispenses
    Ops <- BackupOps
    MaxU256 = 3
    AuditCapacity = 3
    MaxKeys = 2
    MaxBatch = 1
    MaxRows = 3
    KeySize = 2
    RowSize = 1
    RecordSize = 1
    MaxBlob = 8
    MaxEpoch = 6
    MaxBackups = 2
    MaxPublished = 2
INVARIANTS AuditKept

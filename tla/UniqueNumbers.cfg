\* Small batches over three files of a table.
CONSTANTS
    Columns <- AllColumns
    MaxFiles = 3
    MaxUint64 = 255
    Narrow = 16
    Byte = 256
    MaxRowsInBatch = 4
SPECIFICATION Spec
INVARIANTS UniqueInFile ShareInBatch InRange PoolsBounded
CHECK_DEADLOCK FALSE

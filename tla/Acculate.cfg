\* Counts, jumps and lines of a file over three files of a table.
CONSTANTS
    Columns <- AllColumns
    MaxFiles = 3
    Modulus = 64
    Narrow = 32
    Byte = 256
    Now = 5
    Second = 3
SPECIFICATION Spec
INVARIANTS InRange CountsOn SameEveryFile ShareInBatch
CHECK_DEADLOCK FALSE

\* The percentages that a MultiFile column is written with.
CONSTANTS
    Templates <- MCTemplates
    Hundred = 4
    Byte = 8
    Unsigned = 8
    MaxUint64 = 15
    RandMax = 3
SPECIFICATION Spec
INVARIANTS HundredAccepted
CHECK_DEADLOCK FALSE

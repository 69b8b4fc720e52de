\* The functions of MCRandomFunc.
CONSTANTS
    Templates <- MCTemplates
    Hundred = 4
    Byte = 8
    Unsigned = 8
    MaxUint64 = 15
    RandMax = 3
SPECIFICATION Spec
INVARIANTS DrawsTheColumn ShareOfFiles EvenInWindow 
CHECK_DEADLOCK FALSE

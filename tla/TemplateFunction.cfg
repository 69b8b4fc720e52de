\* Templates that name functions they do not define.
CONSTANTS
    Templates <- MCTemplates
    Requests = 2
    Word = 16
    Whole = 10
    Memory = 14
    Junk = {0, 3}
SPECIFICATION Spec
INVARIANTS UnknownFunctionRefused
CHECK_DEADLOCK FALSE

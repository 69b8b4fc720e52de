\* TableObject.h:173: have all the files been generated when a stream says so?
CONSTANTS
    ta = ta
    tb = tb
    tc = tc
    Tables = {ta, tb, tc}
    Order <- NameOrder
    RowNum <- Rows
    Templates <- StreamTemplates
    MayFail = FALSE
SPECIFICATION Spec
INVARIANTS FullMeansAllFiles
CHECK_DEADLOCK FALSE

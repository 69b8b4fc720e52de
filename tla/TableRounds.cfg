\* Every graph over three tables, one to three files each, files or stream.
CONSTANTS
    ta = ta
    tb = tb
    tc = tc
    Tables = {ta, tb, tc}
    Order <- NameOrder
    RowNum <- Rows
    Templates <- AllTemplates
    MayFail = TRUE
SPECIFICATION FairSpec
INVARIANTS RowsFit ReadsThisRound StackBounded EveryFileMade
PROPERTIES InLockStep ProductionEnds
CHECK_DEADLOCK FALSE

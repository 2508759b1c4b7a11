SPECIFICATION FairSpec
CONSTANTS
    t1 = t1
    None = None
    Tables = {t1}
    Cursors = {1,2}
    Gens = {1,2,3}
    RowCount <- TwoRows
    Faults = {"error", "interrupt"}
    MaxDepth = 2
INVARIANTS
    TypeOK
    RowsInOrder
    ShortScanExplained
PROPERTIES
    RowsArePrivate
    ScanEnds
CHECK_DEADLOCK FALSE

SPECIFICATION Spec
CONSTANTS
    t1 = t1
    None = None
    Tables = {t1}
    Cursors = {1,2,3}
    Gens = {1,2,3,4}
    RowCount <- TwoRows
    Faults = {}
    MaxDepth = 2
INVARIANTS
    SlotOwner
    OneHolder
    NoScanLeft
PROPERTY
    ImplementsTableScan
CHECK_DEADLOCK FALSE

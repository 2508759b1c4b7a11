SPECIFICATION Spec
CONSTANTS
    c1 = c1
    c2 = c2
    c3 = c3
    n1 = n1
    n2 = n2
    Cursors <- MCCursors
    Names <- MCNames
    Plans <- PrivatePlans
    Faults = {"create", "prepare", "step"}
    MaxDepth = 3
INVARIANTS TypeOK NoOrphan OwnTables

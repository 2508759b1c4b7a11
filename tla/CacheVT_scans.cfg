SPECIFICATION Spec
CONSTANTS
    c1 = c1
    c2 = c2
    l1 = l1
    l2 = l2
    l3 = l3
    Null = 0
    MaxValue = 2
    Rows <- TwoRows
    Cursors = {c1, c2}
    Queries <- AllQueries
    Args <- AllArgs
    Lists = {l1, l2, l3}
    NoList = NoList
    Faults = {"interrupt"}
INVARIANTS TypeOK ScanAnswers RowsKept IndexFresh FailsOnEmpty
SYMMETRY Alike

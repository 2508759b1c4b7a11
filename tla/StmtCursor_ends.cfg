SPECIFICATION FairSpec
CONSTANTS
    None = None
    query = query
    two = two
    script = script
    setup = setup
    tail = tail
    Cursors = {c1, c2}
    Stmts = {1, 2, 3}
    Sqls = {two}
    Given = {two}
    RowCount <- TwoRows
    Rest <- TwoRest
    CacheSize = 1
    Faults = {"step"}
    Rereaders = {}
    MaxDepth = 2
PROPERTY
    ReadEnds
CHECK_DEADLOCK FALSE

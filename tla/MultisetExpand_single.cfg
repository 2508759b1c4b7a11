SPECIFICATION XSpec
CONSTANTS
    None = None
    none = none
    one = one
    two = two
    three = three
    Cursors = {x}
    Stmts = {1}
    Sqls = {none, one, two, three}
    Given = {one}
    RowCount <- Rows
    Rest <- NoRest
    CacheSize = 1
    Faults = {}
    Rereaders = {x}
    MaxDepth = 1
    Reader = x
    Headless = Headless
    Columns = 1
    Sizes <- OneOrTwo
INVARIANT
    ExpandsRows
CHECK_DEADLOCK FALSE

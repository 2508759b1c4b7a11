SPECIFICATION XSpec
CONSTANTS
    None = None
    none = none
    one = one
    two = two
    three = three
    Cursors = {x, c}
    Stmts = {1, 2}
    Sqls = {none, one, two, three}
    Given = {none, three}
    RowCount <- Rows
    Rest <- NoRest
    CacheSize = 1
    Faults = {}
    Rereaders = {x}
    MaxDepth = 1
    Reader = x
    Headless = Headless
    Columns = 2
    Sizes <- NoneOrMore
INVARIANTS
    ExpandsRows
    GeneratorsFreed
CHECK_DEADLOCK FALSE

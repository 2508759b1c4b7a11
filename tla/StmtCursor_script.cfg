SPECIFICATION Spec
CONSTANTS
    None = None
    query = query
    two = two
    script = script
    setup = setup
    tail = tail
    Cursors = {c1, c2}
    Stmts = {1, 2, 3}
    Sqls = {script, setup, query, tail}
    Given = {script, setup, tail}
    RowCount <- ScriptRows
    Rest <- ScriptRest
    CacheSize = 2
    Faults = {"prepare", "bind", "step"}
    Rereaders = {}
    MaxDepth = 2
SYMMETRY Symmetry
INVARIANTS
    TypeOK
    StatementPrivate
    LockReleased
    NothingDangles
    ReadsScript
CHECK_DEADLOCK FALSE

SPECIFICATION Spec
CONSTANTS
    Null = 0
    MaxValue = 3
    MaxRows = 3
    MaxSorted = 6
    Tables <- OneAndTwoColumns
    Queries <- OnOneOrTwo
CHECK_DEADLOCK FALSE
INVARIANTS TypeOK NoneMissed
PROPERTIES ImplementsIndexScan

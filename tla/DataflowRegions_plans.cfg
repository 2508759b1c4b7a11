SPECIFICATION Spec
CONSTANTS
    Plans <- MCPlans
    Vars <- MCVars
INVARIANTS TypeOK Ordered Collected BlocksWhole
CHECK_DEADLOCK FALSE

SPECIFICATION Spec
CONSTANTS
    WORD = 4
    INT_WIDEN_LIMIT = 3
    FUEL = 120
    Graphs <- MCGraphs
    Args <- MCArgs
CHECK_DEADLOCK FALSE
INVARIANTS UpToDate TypesAreSound SameResults
PROPERTIES ForwardProgress

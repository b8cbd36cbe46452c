SPECIFICATION Spec
CONSTANTS
    NoMemory = 0
    Blocks <- MCBlocks
CHECK_DEADLOCK FALSE
INVARIANTS NothingLeft 
PROPERTIES OrderedAsPromised Terminates

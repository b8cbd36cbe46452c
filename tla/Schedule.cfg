SPECIFICATION Spec
CONSTANT Graphs <- MCGraphs
CHECK_DEADLOCK FALSE
INVARIANTS DominanceIsExact ControlIsPartitioned ReadsCurrentValues MemoryInOrder

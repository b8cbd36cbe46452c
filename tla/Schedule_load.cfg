SPECIFICATION Spec
CONSTANT Graphs <- LoadAbove
CHECK_DEADLOCK FALSE
INVARIANT MemoryInOrder

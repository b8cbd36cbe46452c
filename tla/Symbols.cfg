SPECIFICATION Spec
CONSTANTS
    T1 = T1
    T2 = T2
    Threads = {T1, T2}
    None = None
    Builds <- MCBuilds
CHECK_DEADLOCK FALSE
INVARIANTS EverySymbolWalked UsesLink OneBody SameText
PROPERTY NamesSettle

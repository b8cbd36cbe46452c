SPECIFICATION Spec
CONSTANTS
    Free = Free
    Tombstone = Tombstone
    None = None
    NoIdentifiers <- MCNoIdentifiers
    Names <- MCNames
    Slots <- MCSlots
    Probe <- Apart
    Programs <- MCPrograms
    MaxScopeDepth = 3
CHECK_DEADLOCK FALSE
INVARIANTS MatchesReference
PROPERTY GuardIsInvisible

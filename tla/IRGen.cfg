SPECIFICATION Spec
CONSTANTS
    None = None
    NoData = NoData
    Effects = {"x", "y", "z"}
    Lvalues = {"a", "b"}
    IfConds = {"a"}
    Bits = 3
    Programs <- MCPrograms
CHECK_DEADLOCK FALSE
INVARIANTS ParsedAsWritten PhisMatchRegions SamePaths CrashesAreUnreachable

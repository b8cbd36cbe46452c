SPECIFICATION Spec
CONSTANTS
    T1 = T1  T2 = T2  T3 = T3
    a = a  p1 = p1  p2 = p2  q1 = q1  q2 = q2  q3 = q3  q4 = q4  r1 = r1
    Threads = {T1, T2, T3}
    Vals = {a, p1, p2, q1, q2, q3, q4, r1}
    Nil = Nil
    Key <- MCKey
    Hash <- MCHash
    Preloaded <- MCPreloaded
    Calls <- MCThree
    InitExp = 2
    Batch = 3
    MaxTables = 3
CHECK_DEADLOCK FALSE
INVARIANT OneRepresentative

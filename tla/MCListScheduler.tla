---------------------------- MODULE MCListScheduler ----------------------------
(***************************************************************************)
(* Blocks for ListScheduler: four instructions, each with up to two of the *)
(* earlier ones as inputs, and what ends the block.  The stores follow     *)
(* each other, a load reads the memory the block begins with or that of a  *)
(* store before it.                                                        *)
(***************************************************************************)
EXTENDS ListScheduler, FiniteSets, FiniteSetsExt

N4 == 1 .. 4
End == 5
Live == 6     \* the memory at the start
Latency == [add |-> 1, mul |-> 3, load |-> 4, store |-> 5, call |-> 1]
OpOf(k) == IF k \in {"add", "mul"} THEN "op" ELSE k

Writers(k) == {n \in N4 : k[n] \in {"store", "call"}}
LastWriter(k, n) == Max({Live - End} \cup {w + 1 : w \in {w \in Writers(k) : w < n}}) - 1

\* The memory before node n: that of the last store, Live if there is none.
MemoryAt(k, n) == IF LastWriter(k, n) = 0 THEN Live ELSE LastWriter(k, n)
Memories(k, n) == {MemoryAt(k, m) : m \in 1 .. n}
Inputs(k, n) == {S \in SUBSET {m \in 1 .. (n - 1) : k[m] # "store"} : Cardinality(S) <= 2}

\* A block that returns: what nobody uses goes to the return.
Block(k, ins, mem) ==
    LET in(n) == ins[n] \cup ({mem[n]} \cap N4)
        unused == {n \in N4 : \A m \in N4 : n \notin in(m)}
    IN  [op |-> [n \in 1 .. End |-> IF n = End THEN "return" ELSE OpOf(k[n])],
         in |-> [n \in 1 .. End |-> IF n = End THEN unused \cup ({MemoryAt(k, End)} \cap N4) ELSE in(n)],
         mem |-> [n \in 1 .. End |-> IF n = End THEN MemoryAt(k, End) ELSE mem[n]],
         lat |-> [n \in 1 .. End |-> IF n = End THEN 1 ELSE Latency[k[n]]],
         end |-> End]

\* The memories the nodes of kinds k may have.
MemoriesOf(k) ==
    LET of(n) == IF k[n] \in {"store", "call"} THEN {MemoryAt(k, n)}
                 ELSE IF k[n] = "load" THEN Memories(k, n) ELSE {NoMemory}
    IN  {<<a, b, c, d>> : a \in of(1), b \in of(2), c \in of(3), d \in of(4)}
BlocksOf(kinds) ==
    UNION {{Block(k, <<{}, a, b, c>>, mem) :
              a \in Inputs(k, 2), b \in Inputs(k, 3), c \in Inputs(k, 4), mem \in MemoriesOf(k)}
           : k \in kinds}

\* What BlockOrder says of one block.
Any == INSTANCE BlockOrder WITH Blocks <- {}

Kinds == {k \in [N4 -> {"add", "mul", "load", "store"}] : k[3] # "mul" /\ k[4] # "mul" /\ k[1] # "add"}
Returns == {b \in BlocksOf(Kinds) : Any!Orderable(b)}

\* Blocks that end with a branch: it needs any two nodes or less, and may test one of them.
Branch(b, ins, test) ==
    [b EXCEPT !.op[End] = "branch", !.in[End] = ins, !.mem[End] = NoMemory,
              !.lat = [n \in 1 .. End |-> IF n \in test THEN 0 ELSE b.lat[n]]]
BranchesFrom(b) ==
    LET values == {n \in N4 : b.op[n] # "store"}
    IN  UNION {{Branch(b, ins, test) : test \in {{}} \cup {{n} : n \in ins}}
               : ins \in {S \in SUBSET values : Cardinality(S) <= 2}}
Branches ==
    {b \in UNION {BranchesFrom(b) : b \in BlocksOf({<<"load", k, "add", l>> : k, l \in {"add", "store"}})}
       : Any!Orderable(b)}

MCBlocks == Returns \cup Branches

\* x = y ^ z; v = p[x - w]; f(x); return v: the call and the difference need x.
MCCallBlocks == {Block(<<"add", "add", "load", "call">>, <<{}, {1}, {2}, {1}>>, <<NoMemory, NoMemory, Live, Live>>)}
===============================================================================

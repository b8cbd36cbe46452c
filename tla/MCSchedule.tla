------------------------------- MODULE MCSchedule ------------------------------
(***************************************************************************)
(* Graphs for Schedule: the shapes of control the optimizer leaves (one or *)
(* two joins, a loop tested on entry or at its end, one in another, one    *)
(* with two entries), each with every choice of what its nodes read.       *)
(* Values that no return, branch or store needs are dead and stay.         *)
(***************************************************************************)
EXTENDS Schedule

N(op, in) == [op |-> op, in |-> in, data |-> 0]
CProj(branch, i) == [op |-> "cproj", in |-> <<branch>>, data |-> i]
\* 1 to 4
Roots == <<N("start", <<>>), N("mem", <<1>>), N("rpc", <<1>>), N("param", <<1>>)>>
Ops == {"op", "slow"}

\* if (c) .. else ..: the phi and what follows it take any two values.
Diamonds ==
    {Roots \o <<N(o, <<0, 4>>), N("op", <<0, a, 5>>), N("branch", <<1, c>>),                 \* 5 6 7
                CProj(7, 0), CProj(7, 1), N("region", <<8, 9>>), N("phi", <<10, u, v>>),       \* 8 .. 11
                N(o, <<0, w, 11>>), N("return", <<10, 2, 3, r>>)>>                             \* 12 13
     : o \in Ops, a \in {4, 5}, c \in {4, 6}, u \in {4, 5, 6}, v \in {4, 5, 6}, w \in {5, 6}, r \in {6, 11, 12}}
DiamondGraphs == {g \in Diamonds : g[11].in[2] # g[11].in[3]}

\* A store in one arm or both, a load of the memory before or after it in the same arm.
Stores ==
    {Roots \o <<N("branch", <<1, 4>>), CProj(5, 0), CProj(5, 1),                               \* 5 6 7
                N("store", <<6, 2, 4, s>>), N("load", <<6, m, 4>>),                            \* 8 9
                N("store", <<7, 2, 4, 4>>), N("region", <<6, 7>>),                             \* 10 11
                N("memphi", <<11, 8, k>>), N("phi", <<11, u, 4>>),                             \* 12 13
                N("store", <<11, 12, 4, 13>>), N("return", <<11, 14, 3, r>>)>>                 \* 14 15
     : s \in {4, 9}, m \in {2, 8}, k \in {2, 10}, u \in {3, 9}, r \in {4, 13}}
StoreGraphs == {g \in Stores : g[8].in[4] = 9 => g[9].in[2] = 2}

\* for (;c;) ..: a value of the loop, one that does not change, and one from after it;
\* the body joins two ways if b.
WhileLoops ==
    {Roots \o <<N(o, <<0, 4>>), N("loop", <<1, 12>>), N("phi", <<6, 4, i>>),                   \* 5 6 7
                N("op", <<0, 7, a>>), N(o, <<0, 7, b>>), N("branch", <<6, c>>),                \* 8 9 10
                CProj(10, x), CProj(10, 1 - x), N(o, <<0, p, 5>>), N("return", <<11, 2, 3, r>>)>>
     : o \in Ops, i \in {5, 8, 9, 13}, a \in {4, 5}, b \in {4, 5, 8}, c \in {7, 8}, x \in {0, 1},
       p \in {4, 8, 9}, r \in {7, 9, 13}}

\* do .. while (c): the projection leads straight back into the loop.
DoLoops ==
    {Roots \o <<N(o, <<0, 4>>), N("loop", <<1, 10>>), N("phi", <<6, 4, i>>),                   \* 5 6 7
                N(o, <<0, 7, a>>), N("branch", <<6, c>>), CProj(9, x), CProj(9, 1 - x),        \* 8 .. 11
                N("load", <<11, 2, p>>), N("return", <<11, 2, 3, r>>)>>                        \* 12 13
     : o \in Ops, i \in {5, 8}, a \in {4, 5}, c \in {7, 8}, x \in {0, 1}, p \in {7, 8}, r \in {5, 7, 8, 12}}

\* A loop in a loop, and a choice in the inner one; a store goes round the outer one.
NestedLoops ==
    {Roots \o <<N("loop", <<1, 13>>), N("phi", <<5, 4, i>>), N("memphi", <<5, 2, 22>>),        \* 5 6 7
                N("branch", <<5, 6>>), CProj(8, 0), CProj(8, 1),                               \* 8 9 10
                N("loop", <<10, 20>>), N("branch", <<11, 14>>), CProj(12, 0),                  \* 11 12 13
                N("phi", <<11, a, j>>), N(o, <<0, 4, b>>), N("branch", <<16, 15>>),            \* 14 15 16*
                CProj(16, 0), CProj(16, 1), CProj(12, 1), N("region", <<17, 18>>),             \* 17 .. 20
                N("phi", <<20, 15, 14>>), N("store", <<13, 7, 6, 15>>),                        \* 21 22
                N("return", <<9, 7, 3, r>>)>>                                                  \* 23
     : o \in Ops, i \in {14, 15}, a \in {4, 6}, j \in {15, 21}, b \in {4, 6, 14}, r \in {4, 6}}
\* The inner branch hangs on the projection into the inner loop.
NestedGraphs == {[g EXCEPT ![16].in[1] = 19] : g \in NestedLoops}

\* if (4) goto M; L: if (e) ..; M: if (c) goto L; a loop with two ways in.
Gotos ==
    {Roots \o <<N("branch", <<1, 4>>), CProj(5, x), CProj(5, 1 - x),                           \* 5 6 7
                N("region", <<6, 15>>), N("phi", <<8, 4, u>>), N(o, <<0, 9, a>>),              \* 8 9 10
                N("region", <<7, 8>>), N("phi", <<11, 4, v>>), N("branch", <<11, 12>>),        \* 11 12 13
                CProj(13, y), CProj(13, 1 - y), N("return", <<14, 2, 3, r>>)>>                 \* 14 15 16
     : o \in Ops, x \in {0, 1}, y \in {0, 1}, u \in {12, 3}, a \in {4, 9}, v \in {9, 10}, r \in {4, 12}}

MCGraphs == DiamondGraphs \cup StoreGraphs \cup WhileLoops \cup DoLoops \cup NestedGraphs \cup Gotos

\* v = *p; if (c) *p = v2; return v: the only use of the load is below the store.
LoadAbove ==
    {Roots \o <<N("load", <<1, 2, 4>>), N("branch", <<1, 4>>), CProj(6, 0), CProj(6, 1),
                N("store", <<7, 2, 4, 4>>), N("region", <<7, 8>>), N("memphi", <<10, 9, 2>>),
                N("op", <<0, 4, 4>>), N("return", <<10, 11, 3, r>>)>> : r \in {4, 5, 12}}
===============================================================================

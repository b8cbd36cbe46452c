------------------------------ MODULE MCConstProp ------------------------------
(***************************************************************************)
(* Graphs for ConstProp, as the peepholes leave them: loops tested on      *)
(* entry around nothing, a choice, or a choice in a choice, whose phis     *)
(* start from constants or parameters, and a join of many constants; every *)
(* value is used.  K(c) stands for the constant c and is replaced by a     *)
(* node when the graph is closed.                                          *)
(***************************************************************************)
EXTENDS GraphReference

MCArgs == {-8, -1, 0, 1, 2, 7}
\* The width of the values of a graph.
Widths == {3, WORD}

K(c) == 100 + c
IsK(i) == i > 50
Roots(ret, w) ==
    <<Node("root", <<0, ret>>, TupleType, 0, 0), Node("proj", <<Root>>, Ctrl, 0, 0),
      Node("proj", <<Root>>, w, 1, 0), Node("proj", <<Root>>, w, 2, 0)>>
Loop(a, b) == Node("region", <<a, b>>, Ctrl, 0, 0)
Join(a, b) == Node("region", <<a, b>>, Ctrl, 0, 0)
Phi(r, a, b, w) == Node("phi", <<r, a, b>>, w, 0, 0)
Bin(op, a, b, w) == Node(op, <<0, a, b>>, w, 0, 0)
Cmp(op, a, b) == Node(op, <<0, a, b>>, 1, 0, 0)
Branch(c, k) == Node("branch", <<c, k>>, TupleType, 0, 0)
IfTrue(b) == Node("bproj", <<b>>, Ctrl, 0, 0)
IfFalse(b) == Node("bproj", <<b>>, Ctrl, 1, 0)
Case(b, k) == Node("bproj", <<b>>, Ctrl, 1, k)
Select(c, a, b, w) == Node("select", <<0, c, a, b>>, w, 0, 0)
Return(c, v) == Node("return", <<c, v>>, Ctrl, 0, 0)

Constants_(nodes) == UNION {{i \in ToSet(nodes[n].in) : IsK(i)} : n \in DOMAIN nodes}
Close(nodes, w) ==
    LET ks == SetToSeq(Constants_(nodes))
        at(i) == IF IsK(i) THEN Len(nodes) + (CHOOSE j \in DOMAIN ks : ks[j] = i) ELSE i
    IN  [n \in DOMAIN nodes |-> [nodes[n] EXCEPT !.in = [i \in DOMAIN @ |-> at(@[i])]]]
        \o [j \in DOMAIN ks |-> Node("iconst", <<Root>>, w, ks[j] - 100, 0)]
\* What the peepholes would have removed.
Used(nodes) == \A n \in DOMAIN nodes : nodes[n].op \in {"phi", "add", "sub"} \cup Compares => Users(nodes, n) \ {n} # {}

\* x = i; while (C) x = x + 1; return .. and, in whole words, with x - 1.
Counting ==
    {Close(Roots(11, s[2]) \o <<Loop(2, 9), Phi(5, i, 12, s[2]), Cmp(o, t, K(k)),             \* 5 6 7
                             Branch(5, 7), IfTrue(8), IfFalse(8), Return(10, r),        \* 8 .. 11
                             Bin(s[1], 6, K(1), s[2])>>, s[2])                          \* 12
     : i \in {3, K(0)}, o \in {"ne", "slt"}, t \in {6, 12}, k \in {0, 2}, r \in {6, 12},
       s \in ({"add"} \X Widths) \cup {<<"sub", WORD>>}}

\* x = 1; y = a; while (y < 2) { if (x == 1) y = y + 1; else { x = 2; y = 7 } }, and with
\* the arms or the test the other way round: as long as x is 1 one arm is dead, and the
\* constant propagates because of it.
Choosing ==
    LET arms == {<<6, 20>>, <<K(2), K(7)>>}
    IN  {Close(Roots(11, WORD) \o <<Loop(2, 15), Phi(5, K(1), 16, WORD), Phi(5, 3, 17, WORD),   \* 5 6 7
                             Branch(5, 18), IfTrue(8), IfFalse(8), Return(10, 7),              \* 8 .. 11
                             Branch(9, 19), IfTrue(12), IfFalse(12), Join(13, 14),             \* 12 .. 15
                             Phi(15, i[1], j[1], WORD), Phi(15, i[2], j[2], WORD),             \* 16 17
                             Cmp("slt", 7, K(2)), Cmp(o, 6, K(1)),                             \* 18 19
                             Bin("add", 7, K(1), WORD)>>, WORD)                                \* 20
         : <<i, j>> \in {<<i, j>> \in arms \X arms : i # j}, o \in {"eq", "ne"}}
\* x = 1; y = a; while (y < 2) { if (x == 1) ..; else { if (b) x = 2; else x = 3 } y = y + x }:
\* a join in the dead arm.
Nesting ==
    {Close(Roots(11, WORD) \o <<Loop(2, 19), Phi(5, K(1), 20, WORD), Phi(5, 3, 21, WORD),       \* 5 6 7
                             Branch(5, 22), IfTrue(8), IfFalse(8), Return(10, 7),              \* 8 .. 11
                             Branch(9, 23), IfTrue(12), IfFalse(12),                           \* 12 13 14
                             Branch(14, 4), IfTrue(15), IfFalse(15), Join(16, 17),             \* 15 .. 18
                             Join(13, 18), Phi(19, i, 24, WORD), Bin("add", 7, 6, WORD),       \* 19 20 21
                             Cmp("slt", 7, K(2)), Cmp("eq", 6, K(1)),                          \* 22 23
                             Phi(18, K(2), K(3), WORD)>>, WORD)                                \* 24
     : i \in {6, K(2)}}

\* x = 1; y = a; while (y < 2) { switch (x) { case 1: break; default: x = d }
\* y = x < 2 ? y + 1 : 2 }.
Deciding ==
    {Close(Roots(11, WORD) \o <<Loop(2, 15), Phi(5, K(1), 16, WORD), Phi(5, 3, 17, WORD),       \* 5 6 7
                             Branch(5, 18), IfTrue(8), IfFalse(8), Return(10, 7),              \* 8 .. 11
                             Branch(9, 6), IfTrue(12), Case(12, 1), Join(13, 14),              \* 12 .. 15
                             Phi(15, K(d), 6, WORD), Select(19, 20, K(2), WORD),               \* 16 17
                             Cmp("slt", 7, K(2)), Cmp("slt", 6, K(2)),                         \* 18 19
                             Bin("add", 7, K(1), WORD)>>, WORD)                                \* 20
     : d \in {1, 2}}

\* if (a == 1) x = 1; else if (b == 2) x = 2; .. else x = 0; return x + 1: seven constants whose
\* edges come alive one at a time, more than a phi has steps.
Tests == 6
ElseIf(t) ==
    LET b == 2 + 3 * t
    IN  <<Branch(IF t = 1 THEN 2 ELSE b - 2, 3 + (t % 2)), IfTrue(b), Case(b, t)>>                  \* b .. b + 2
Merging ==
    {Close(Roots(26, WORD) \o FlattenSeq([t \in 1 .. Tests |-> ElseIf(t)]) \o                     \* 5 .. 22
           <<Node("region", [t \in 1 .. Tests |-> 4 + 3 * t] \o <<21>>, Ctrl, 0, 0),              \* 23
             Node("phi", <<23>> \o [t \in 1 .. Tests |-> K(t)] \o <<K(0)>>, WORD, 0, 0),          \* 24
             Bin("add", 24, K(1), WORD), Return(23, 25)>>, WORD)}                                 \* 25 26

MCGraphs == Counting \cup Choosing \cup Nesting \cup Deciding \cup Merging
===============================================================================

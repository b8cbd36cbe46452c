----------------------------- MODULE GraphBuilder -----------------------------
(***************************************************************************)
(* The graph builder of new_builder.c: a client draws control flow with    *)
(* labels, branches and loops, and the builder places the regions and the  *)
(* phis of TB's graph.                                                     *)
(*                                                                         *)
(* A node is known by its index in nodes, 0 is NULL.  Nodes 1 to 5 are     *)
(* what tb_function_set_prototype makes: the start of control, the         *)
(* incoming memory, the return address, and the region and the memory phi  *)
(* of the function's one return; node 6 is the phi of its value.  A phi's  *)
(* first input is its region, the rest go with the region's inputs.  A     *)
(* symbol table's inputs are the last and the first control of its label,  *)
(* then the current memory and the return address.  g.curr is the symbol   *)
(* table the client builds on, g.out what the last call returned.          *)
(*                                                                         *)
(* The value numbering each function ends with never finds an equal node   *)
(* for what is built here and is left out.                                 *)
(***************************************************************************)
EXTENDS Integers, Sequences, SequencesExt

CONSTANT NoData

Node(op, in, data) == [op |-> op, in |-> in, data |-> data, complete |-> FALSE]
New(node, g) == [g EXCEPT !.nodes = Append(@, node), !.out = Len(g.nodes) + 1]
SetInput(g, n, slot, in) == [g EXCEPT !.nodes[n].in[slot] = in]
AddInput(g, n, in) == [g EXCEPT !.nodes[n].in = Append(@, in)]

Start == 1
Return == 4
ReturnMem == 5
ReturnValue == 6
Bot == 1
Top == 2
Mem == 3
Defs == <<3, 4>>

Input(g, n, slot) == g.nodes[n].in[slot]
TopOf(g, label) == Input(g, label, Top)
PredCount(g, label) == Len(g.nodes[TopOf(g, label)].in)

\* tb_builder_enter of a function without parameters that returns a value.
Enter ==
    [nodes |-> <<Node("start", <<>>, NoData), Node("mem", <<>>, NoData), Node("rpc", <<>>, NoData),
                 Node("region", <<>>, NoData), Node("phi", <<Return>>, NoData), Node("phi", <<Return>>, NoData),
                 Node("syms", <<Start, Start, 2, 3>>, NoData)>>,
     curr |-> 7, out |-> 7]

-----------------------------------------------------------------------------
\* Straight-line code.
Load(g, addr) == New(Node("load", <<Input(g, g.curr, Bot), Input(g, g.curr, Mem)>>, addr), g)
Store(g, addr) ==
    LET h == New(Node("store", <<Input(g, g.curr, Bot), Input(g, g.curr, Mem)>>, addr), g)
    IN  SetInput(h, h.curr, Mem, h.out)
Const(g, value) == New(Node("const", <<>>, value), g)

-----------------------------------------------------------------------------
\* A label to jump forward to: a region without inputs and a table without definitions.
LabelMake(g) ==
    LET h == New(Node("region", <<>>, NoData), g)
    IN  New(Node("syms", <<h.out, h.out, 0, 0>>, NoData), h)

LabelKill(g, label) ==
    IF g.nodes[label].op = "null" THEN g ELSE [g EXCEPT !.nodes[label] = Node("null", <<>>, NoData)]

\* identity_phi: the one node other than the phi itself among its inputs, if there is one.
IdentityPhi(g, phi) ==
    LET others == ToSet(Tail(g.nodes[phi].in)) \ {phi}
    IN  IF \A a, b \in others : a = b THEN CHOOSE a \in others : TRUE ELSE phi

\* subsume_node: all users of n use k instead, and n is gone.
SubsumeNode(g, n, k) ==
    [g EXCEPT !.nodes = [i \in DOMAIN @ |->
        IF i = n THEN Node("null", <<>>, NoData)
        ELSE [@[i] EXCEPT !.in = [j \in DOMAIN @ |-> IF @[j] = n THEN k ELSE @[j]]]]]

\* Any phi among the definitions is looked at, also one of another label.
Simplify(g, n) ==
    IF g.nodes[n].op # "phi" \/ IdentityPhi(g, n) = n THEN g ELSE SubsumeNode(g, n, IdentityPhi(g, n))
LabelComplete(g, label) ==
    LET h == [g EXCEPT !.nodes[label].complete = TRUE]
    IN  IF g.nodes[label].complete THEN g
        ELSE IF PredCount(g, label) = 0 THEN h
        ELSE FoldLeft(LAMBDA b, slot : Simplify(b, Input(b, label, slot)), h, Defs)

\* Mutant: a label needs two jumps to be reachable.
MutOneJump(g, label) ==
    LET h == LabelComplete(g, label)
    IN  [h EXCEPT !.curr = IF PredCount(h, label) = 1 /\ h.nodes[TopOf(h, label)].op = "region" THEN 0 ELSE label]

LabelSet(g, label) ==
    LET h == LabelComplete(g, label)
    IN  [h EXCEPT !.curr = IF PredCount(h, label) = 0 THEN 0 ELSE label]

-----------------------------------------------------------------------------
\* tb_builder_if returns its two labels in paths; both are complete.
Path(g, cproj, from) ==
    New([Node("syms", <<cproj, cproj, Input(g, from, 3), Input(g, from, 4)>>, NoData) EXCEPT !.complete = TRUE], g)
If(g, cond) ==
    LET b == New(Node("branch", <<Input(g, g.curr, Bot), cond>>, NoData), g)
        c == SetInput(b, b.curr, Bot, b.out)
        c0 == New(Node("cproj", <<b.out>>, 0), c)
        c1 == New(Node("cproj", <<b.out>>, 1), c0)
        p0 == Path(c1, c0.out, g.curr)
        p1 == Path(p0, c1.out, g.curr)
    IN  [g |-> [p1 EXCEPT !.curr = 0], paths |-> <<p0.out, p1.out>>]

\* Mutant: the new phi lacks the definition of the first jump.
MutMergeDef(g, target, syms, slot) ==
    LET top == TopOf(g, target)
        old == Input(g, target, slot)
        new == Input(g, syms, slot)
        h == New(Node("phi", <<top>> \o [j \in 1 .. PredCount(g, target) - 1 |-> old] \o <<new>>, NoData), g)
    IN  IF old = 0 THEN SetInput(g, target, slot, new)
        ELSE IF g.nodes[old].op = "phi" /\ Input(g, old, 1) = top THEN AddInput(g, old, new)
        ELSE IF g.nodes[top].op = "loop" \/ old # new THEN SetInput(h, target, slot, h.out)
        ELSE g

\* One definition of a jump: the target takes it over, adds it to its phi, or gets a phi
\* when it differs from what every earlier jump brought.
MergeDef(g, target, syms, slot) ==
    LET top == TopOf(g, target)
        old == Input(g, target, slot)
        new == Input(g, syms, slot)
        h == New(Node("phi", <<top>> \o [j \in 1 .. PredCount(g, target) |-> old] \o <<new>>, NoData), g)
    IN  IF old = 0 THEN SetInput(g, target, slot, new)
        ELSE IF g.nodes[old].op = "phi" /\ Input(g, old, 1) = top THEN AddInput(g, old, new)
        ELSE IF g.nodes[top].op = "loop" \/ old # new THEN SetInput(h, target, slot, h.out)
        ELSE g
Br(g, target) ==
    LET h == FoldLeft(LAMBDA b, slot : MergeDef(b, target, g.curr, slot), g, Defs)
    IN  IF g.curr = 0 THEN g
        ELSE [AddInput(h, TopOf(h, target), Input(h, h.curr, Bot)) EXCEPT !.curr = 0]

\* Mutant: no phis until a jump back brings another definition.
MutLoop(g) ==
    LET r == New(Node("loop", <<Input(g, g.curr, Bot)>>, NoData), g)
        s == New(Node("syms", <<r.out, r.out, Input(g, g.curr, 3), Input(g, g.curr, 4)>>, NoData), r)
    IN  [s EXCEPT !.curr = s.out]

\* tb_builder_loop: a header with a phi for every definition, which is then current.
Loop(g) ==
    LET r == New(Node("loop", <<Input(g, g.curr, Bot)>>, NoData), g)
        m == New(Node("phi", <<r.out, Input(g, g.curr, 3)>>, NoData), r)
        p == New(Node("phi", <<r.out, Input(g, g.curr, 4)>>, NoData), m)
        s == New(Node("syms", <<r.out, r.out, m.out, p.out>>, NoData), p)
    IN  [s EXCEPT !.curr = s.out]

\* tb_builder_ret with a value, or without one (0): the phi gets poison.
Poisoned(g) == New(Node("poison", <<>>, NoData), g)
Ret(g, value) ==
    LET m == AddInput(g, ReturnMem, Input(g, g.curr, Mem))
        p == Poisoned(m)
        v == IF value # 0 THEN AddInput(m, ReturnValue, value) ELSE AddInput(p, ReturnValue, p.out)
    IN  [AddInput(v, Return, Input(g, g.curr, Bot)) EXCEPT !.curr = 0]

\* tb_builder_exit: the first table and the last one are freed.
Exit(g) ==
    LET h == IF g.curr # 7 THEN LabelKill(g, 7) ELSE g
    IN  IF h.curr = 0 THEN h ELSE LabelKill(h, h.curr)
===============================================================================

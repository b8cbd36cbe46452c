------------------------------- MODULE FlowGraph -------------------------------
(***************************************************************************)
(* Basic blocks of a sea of nodes: passes.h (queries on control) and cfg.h *)
(* (reverse postorder, dominators).                                        *)
(*                                                                         *)
(* nodes is a graph as GraphBuilder makes it: the inputs of a node are     *)
(* in[1], in[2], ..., so that inputs[i] of the code is in[i + 1], and 0 is *)
(* NULL.  A block is known by its first node.  idom maps blocks to their   *)
(* immediate dominators and to 0 (NULL) while they have none.              *)
(***************************************************************************)
EXTENDS Integers, Sequences, FiniteSets, SequencesExt

LOCAL INSTANCE FiniteSetsExt

RootProjs == {"start", "mem", "rpc", "param"}
Projs == RootProjs \cup {"cproj", "proj"}
Regions == {"region", "loop"}
Control == {"start", "cproj", "branch", "return"} \cup Regions
MemoryOut == {"mem", "store", "memphi"}

\* node_flags of the nodes used here.
IsFork(op) == op = "branch"
IsTerminator(op) == op \in {"branch", "return"}
IsEndpoint(op) == op = "return"

Users(nodes, n) == {u \in DOMAIN nodes : n \in ToSet(nodes[u].in)}
UsersAt(nodes, n, slot) == {u \in DOMAIN nodes : Len(nodes[u].in) >= slot /\ nodes[u].in[slot] = n}
FirstOf(S) == IF S = {} THEN 0 ELSE Min(S)

NextControl0(nodes, n) == FirstOf({u \in UsersAt(nodes, n, 1) : nodes[u].op \in Control})
NextControl(nodes, n) == FirstOf({u \in Users(nodes, n) : nodes[u].op \in Control})

\* Mutant: a block runs on through the header of a loop it falls into.
MutEndOfBB(nodes, bb) ==
    LET end[n \in DOMAIN nodes] ==
          LET next == NextControl0(nodes, n)
          IN  IF IsTerminator(nodes[n].op) \/ next = 0 THEN n
              ELSE IF nodes[next].op = "region" THEN n ELSE end[next]
    IN  end[bb]

\* The block runs to its terminator or to the region it falls into.
EndOfBB(nodes, bb) ==
    LET end[n \in DOMAIN nodes] ==
          LET next == NextControl0(nodes, n)
          IN  IF IsTerminator(nodes[n].op) \/ next = 0 THEN n
              ELSE IF nodes[next].op \in Regions THEN n ELSE end[next]
    IN  end[bb]

DataPhis(nodes, r) == {p \in UsersAt(nodes, r, 1) : nodes[p].op = "phi"}
SingleUse(nodes, n) == Cardinality(Users(nodes, n)) = 1

\* The block a branch goes to over proj: the region behind it, unless the projection is
\* used more than once, or two ways out of the branch lead to phis and this is one of them.
NextBBAfterCproj(nodes, proj) ==
    LET r == FirstOf(Users(nodes, proj))
        paths == {p \in UsersAt(nodes, nodes[proj].in[1], 1) : SingleUse(nodes, p)}
        toPhis == {p \in paths : \E q \in Users(nodes, p) :
                       nodes[q].op \in Regions /\ DataPhis(nodes, q) # {}}
    IN  IF \/ ~SingleUse(nodes, proj) \/ nodes[r].op \notin Regions
           \/ Cardinality(toPhis) > 1 /\ DataPhis(nodes, r) # {}
        THEN proj ELSE r

\* create_block: the successors of the block, in the order of the branch.
Succs(nodes, bb) ==
    LET end == EndOfBB(nodes, bb)
        cprojs == UsersAt(nodes, end, 1)
    IN  IF IsFork(nodes[end].op)
        THEN [i \in 1 .. Cardinality(cprojs) |->
                NextBBAfterCproj(nodes, CHOOSE p \in cprojs : nodes[p].data = i - 1)]
        ELSE IF IsEndpoint(nodes[end].op) THEN <<>> ELSE <<NextControl(nodes, end)>>

\* tb_compute_rpo: a depth-first walk that takes the last successor first.  stack holds
\* the blocks under way with the number of successors still to visit.
RECURSIVE Walk(_, _, _, _)
Walk(nodes, stack, seen, post) ==
    IF stack = <<>> THEN Reverse(post)
    ELSE LET top == stack[Len(stack)]
             succ == Succs(nodes, top.bb)[top.i]
             less == [stack EXCEPT ![Len(stack)].i = @ - 1]
         IN  IF top.i = 0 THEN Walk(nodes, Front(stack), seen, Append(post, top.bb))
             ELSE IF succ \in seen THEN Walk(nodes, less, seen, post)
             ELSE Walk(nodes, Append(less, [bb |-> succ, i |-> Len(Succs(nodes, succ))]), seen \cup {succ}, post)
ComputeRpo(nodes, start) ==
    Walk(nodes, <<[bb |-> start, i |-> Len(Succs(nodes, start))]>>, {start}, <<>>)

\* cfg_get_pred: the block the edge comes from.
GetPred(nodes, blocks, bb, slot) ==
    LET up[n \in DOMAIN nodes] ==
          IF n \in blocks \/ nodes[n].op \in Regions THEN n ELSE up[nodes[n].in[1]]
    IN  up[nodes[bb].in[slot]]
Preds(nodes, blocks, bb) ==
    IF nodes[bb].op = "start" THEN <<>>
    ELSE [slot \in DOMAIN nodes[bb].in |-> GetPred(nodes, blocks, bb, slot)]
-----------------------------------------------------------------------------
\* tb_compute_dominators: where the two fingers a and b meet, walking up by rpo number.
RECURSIVE Intersect(_, _, _, _)
Intersect(rpo, idom, a, b) ==
    LET id(n) == CHOOSE i \in DOMAIN rpo : rpo[i] = n
        up(i) == IF idom[rpo[i]] = 0 THEN 1 ELSE id(idom[rpo[i]])
    IN  IF a = b THEN a
        ELSE IF a > b THEN Intersect(rpo, idom, up(a), b) ELSE Intersect(rpo, idom, a, up(b))

\* Mutant: the first predecessor that has a dominator decides.
MutNewIdom(nodes, rpo, idom, b) ==
    LET processed == SelectSeq(Preds(nodes, ToSet(rpo), b), LAMBDA p : p \in DOMAIN idom /\ idom[p] # 0)
    IN  processed[1]

\* The predecessors that already have a dominator, met one after the other.
NewIdom(nodes, rpo, idom, b) ==
    LET id(n) == CHOOSE i \in DOMAIN rpo : rpo[i] = n
        processed == SelectSeq(Preds(nodes, ToSet(rpo), b), LAMBDA p : p \in DOMAIN idom /\ idom[p] # 0)
        meet(n, p) == rpo[Intersect(rpo, idom, id(p), id(n))]
    IN  FoldLeft(meet, processed[1], processed)

\* One round over the blocks in reverse postorder.
DominatorRound(nodes, rpo, idom) ==
    FoldLeft(LAMBDA d, b : [d EXCEPT ![b] = NewIdom(nodes, rpo, d, b)], idom, Tail(rpo))
InitialIdom(rpo) == [b \in ToSet(rpo) |-> IF b = rpo[1] THEN b ELSE 0]

DomDepth(idom, b) ==
    LET depth[x \in DOMAIN idom] == IF idom[x] = x THEN 0 ELSE 1 + depth[idom[x]] IN depth[b]

\* The blocks that dominate b, as tb_is_dominated_by and slow_dommy walk them.
Dominators(idom, b) ==
    LET up[x \in DOMAIN idom] == IF idom[x] = x THEN {x} ELSE {x} \cup up[idom[x]] IN up[b]
===============================================================================

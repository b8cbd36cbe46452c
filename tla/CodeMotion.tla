------------------------------ MODULE CodeMotion -------------------------------
(***************************************************************************)
(* Global code motion, tb_global_schedule of gcm.h: every node of the      *)
(* graph gets a block.  Nodes of the control flow are pinned, the others   *)
(* start in the earliest block their inputs allow and then move down       *)
(* towards their uses, slow ones only where that makes them run less.      *)
(*                                                                         *)
(* sched maps nodes to blocks, 0 to the ones without.  t is what the first *)
(* steps found of the blocks: rpo, idom, and loop, the header of the loop  *)
(* a block is taken to be in (0 if none).  latency is TB_GetLatency.       *)
(***************************************************************************)
EXTENDS FlowGraph

LOCAL INSTANCE FiniteSetsExt

IsPinned(nodes, n) == nodes[n].op \in Control \cup Projs \cup {"phi", "memphi"}

Depth(t, b) == DomDepth(t.idom, b)

\* "compute dumb loop nests": a block that is not a header belongs to the next loop above
\* whose back edge it dominates.
LoopOf(nodes, t, b) ==
    LET around == {h \in Dominators(t.idom, b) \ {b, t.rpo[1]} :
                     /\ nodes[h].op = "loop"
                     /\ b \in Dominators(t.idom, GetPred(nodes, ToSet(t.rpo), h, 2))}
    IN  IF nodes[b].op = "loop" THEN b
        ELSE IF around = {} THEN 0
        ELSE CHOOSE h \in around : \A k \in around : Depth(t, k) <= Depth(t, h)

\* The exponent of 10 in the block's frequency: the loops met going up from it.
Freq(t, b) ==
    LET up[h \in DOMAIN t.loop \cup {0}] == IF h = 0 THEN 0 ELSE 1 + up[t.loop[t.idom[h]]]
    IN  up[t.loop[b]]
-----------------------------------------------------------------------------

\* A projection of the root goes to the first block, a phi to its region, the rest of the
\* control flow to the block of the first node above it that has one.
Pinned(nodes, rpo) ==
    LET block[n \in DOMAIN nodes] ==
          IF n \in ToSet(rpo) THEN n
          ELSE IF nodes[n].op \in RootProjs THEN rpo[1]
          ELSE IF nodes[n].in = <<>> \/ nodes[n].in[1] = 0 THEN 0
          ELSE IF IsPinned(nodes, n) THEN block[nodes[n].in[1]] ELSE 0
    IN  [n \in DOMAIN nodes |-> IF IsPinned(nodes, n) THEN block[n] ELSE 0]

\* What the nodes of S need, through nodes that are not pinned.
RECURSIVE Needed(_, _)
Needed(nodes, S) ==
    LET more == {i \in UNION {ToSet(nodes[n].in) : n \in S} \ {0} : ~IsPinned(nodes, i)}
    IN  IF more \subseteq S THEN {n \in S : ~IsPinned(nodes, n)} ELSE Needed(nodes, S \cup more)

\* One node of the early schedule: the deepest block of its inputs.
EarlyNode(nodes, t, sched, n) ==
    LET ins == ({sched[i] : i \in ToSet(nodes[n].in) \ {0}} \ {0}) \cup {t.rpo[1]}
    IN  [sched EXCEPT ![n] = CHOOSE b \in ins : \A c \in ins : Depth(t, c) <= Depth(t, b)]
-----------------------------------------------------------------------------
\* find_lca
Lca(t, a, b) ==
    LET both == Dominators(t.idom, a) \cap Dominators(t.idom, b)
    IN  CHOOSE c \in both : \A e \in both : Depth(t, e) <= Depth(t, c)

\* Mutant: a phi uses its inputs in its own block.
MutUseBlock(nodes, sched, n, user) == sched[user]

\* find_use_block: a phi uses n where its edge comes from, at the first edge that has n.
UseBlock(nodes, sched, n, user) ==
    LET edge == Min({i \in 2 .. Len(nodes[user].in) : nodes[user].in[i] = n})
        from == sched[nodes[nodes[user].in[1]].in[edge - 1]]
    IN  IF nodes[user].op \in {"phi", "memphi"} /\ sched[user] # 0 /\ from # 0 THEN from ELSE sched[user]

\* try_to_hoist: of the blocks from late up to, but without, early the lowest with the
\* smallest frequency, for what takes more than a cycle.
TryToHoist(nodes, t, latency, n, early, late) ==
    LET span == {late} \cup (Dominators(t.idom, late) \ Dominators(t.idom, early))
    IN  IF latency[n] < 2 THEN late
        ELSE CHOOSE b \in span : \A c \in span : /\ Freq(t, c) >= Freq(t, b)
                                                 /\ Freq(t, c) = Freq(t, b) => Depth(t, c) <= Depth(t, b)

\* One node of the late schedule: below its early block, above all its uses.
LateNode(nodes, t, latency, sched, n) ==
    LET uses == {UseBlock(nodes, sched, n, u) : u \in Users(nodes, n)} \ {0}
        lca == FoldSet(LAMBDA a, b : IF b = 0 THEN a ELSE Lca(t, a, b), 0, uses)
    IN  IF uses = {} \/ Depth(t, lca) <= Depth(t, sched[n]) THEN sched
        ELSE [sched EXCEPT ![n] = TryToHoist(nodes, t, latency, n, sched[n], lca)]
===============================================================================

---------------------------- MODULE GreedyScheduler ----------------------------
(***************************************************************************)
(* tb_greedy_scheduler of scheduler.h: the nodes of one block in an order  *)
(* in which they can run, by a depth-first walk from the end of the block  *)
(* over what each node has to wait for.                                    *)
(***************************************************************************)
EXTENDS CodeMotion

\* Mutant: no anti-dependencies.
MutAntiDeps(nodes, n) == <<>>

\* Who else reads the memory a store replaces.
AntiDeps(nodes, n) ==
    IF nodes[n].op = "store" THEN SetToSortSeq(UsersAt(nodes, nodes[n].in[2], 2) \ {n}, <) ELSE <<>>

\* The end of the block comes after the values its successor's phis take from here and
\* after everything else that was placed in the block.
AtEnd(nodes, sched, bb, n) ==
    IF n = EndOfBB(nodes, bb) THEN SetToSortSeq({m \in DOMAIN nodes : sched[m] = bb} \ {n}, <) ELSE <<>>

\* What n waits for; the projections of a node come with it, a phi waits for nothing.
WaitsFor(nodes, sched, bb, n) ==
    LET inputs == IF nodes[n].op \in {"phi", "memphi"} THEN <<>> ELSE SelectSeq(nodes[n].in, LAMBDA i : i # 0)
        node(i) == IF nodes[i].op = "cproj" THEN nodes[i].in[1] ELSE i
    IN  [i \in DOMAIN inputs |-> node(inputs[i])] \o AntiDeps(nodes, n) \o AtEnd(nodes, sched, bb, n)

\* s has the nodes already met and the schedule so far.
RECURSIVE Place(_, _, _, _, _)
Place(nodes, sched, bb, s, n) ==
    LET below(r, m) == IF m \in r.seen \/ sched[m] # bb THEN r
                       ELSE Place(nodes, sched, bb, [r EXCEPT !.seen = @ \cup {m}], m)
        done == FoldLeft(below, s, WaitsFor(nodes, sched, bb, n))
    IN  [done EXCEPT !.order = Append(@, n)]

\* The first block begins with the projections of the root.
GreedySchedule(nodes, sched, bb) ==
    LET end == EndOfBB(nodes, bb)
        first == IF nodes[bb].op = "start"
                 THEN SetToSortSeq({n \in DOMAIN nodes : nodes[n].op \in RootProjs}, <) ELSE <<>>
    IN  Place(nodes, sched, bb, [seen |-> ToSet(first) \cup {end}, order |-> first], end).order
===============================================================================

-------------------------------- MODULE Schedule -------------------------------
(***************************************************************************)
(* From a graph to instructions in order, and the instructions run.        *)
(*                                                                         *)
(* The first steps are those of compile_function (wasm_target.c) and of    *)
(* the IR printers: blocks, dominators, loops, early and late schedule,    *)
(* then the local schedule of each block.  Run is any execution of the     *)
(* result.  fresh has the values that are computed and current, mem is the *)
(* node whose memory is the present one.                                   *)
(***************************************************************************)
EXTENDS GreedyScheduler

CONSTANTS Graphs

VARIABLES nodes, phase, t, pin, early, sched, todo, order, pc, fresh, mem
vars == <<nodes, phase, t, pin, early, sched, todo, order, pc, fresh, mem>>

Start == 1
Memory == 2
NoWhere == [bb |-> 0, i |-> 0]
Latency == [n \in DOMAIN nodes |-> IF nodes[n].op \in {"slow", "load"} THEN 3 ELSE 1]

Init ==
    /\ nodes \in Graphs
    /\ phase = "rpo"
    /\ t = [rpo |-> <<>>, idom |-> <<>>, loop |-> <<>>]
    /\ pin = <<>> /\ early = <<>> /\ sched = <<>> /\ todo = {}
    /\ order = <<>>
    /\ pc = NoWhere /\ fresh = {} /\ mem = Memory

Blocks == ToSet(t.rpo)
NotRunning == UNCHANGED <<pc, fresh, mem>>

Rpo ==
    /\ phase = "rpo"
    /\ LET rpo == ComputeRpo(nodes, Start)
       IN  t' = [rpo |-> rpo, idom |-> InitialIdom(rpo), loop |-> [b \in ToSet(rpo) |-> 0]]
    /\ phase' = "dominators"
    /\ UNCHANGED <<nodes, pin, early, sched, todo, order>> /\ NotRunning

\* Rounds until nothing changes.
FindDominators ==
    /\ phase = "dominators"
    /\ LET idom == DominatorRound(nodes, t.rpo, t.idom)
       IN  /\ t' = [t EXCEPT !.idom = idom]
           /\ phase' = IF idom = t.idom THEN "loops" ELSE "dominators"
    /\ UNCHANGED <<nodes, pin, early, sched, todo, order>> /\ NotRunning

LoopNest ==
    /\ phase = "loops"
    /\ t' = [t EXCEPT !.loop = [b \in Blocks |-> LoopOf(nodes, t, b)]]
    /\ phase' = "pins"
    /\ UNCHANGED <<nodes, pin, early, sched, todo, order>> /\ NotRunning

Pin ==
    /\ phase = "pins"
    /\ pin' = Pinned(nodes, t.rpo)
    /\ sched' = pin'
    /\ todo' = Needed(nodes, {n \in DOMAIN nodes : pin'[n] # 0})
    /\ phase' = "early"
    /\ UNCHANGED <<nodes, t, early, order>> /\ NotRunning

\* From what the pinned nodes need to the nodes themselves: a node is placed when all it
\* reads is.
EarlySchedule ==
    /\ phase = "early" /\ todo # {}
    /\ LET n == CHOOSE m \in todo : ToSet(nodes[m].in) \cap todo = {}
       IN  /\ sched' = EarlyNode(nodes, t, sched, n)
           /\ todo' = todo \ {n}
    /\ UNCHANGED <<nodes, phase, t, pin, early, order>> /\ NotRunning
EarlyDone ==
    /\ phase = "early" /\ todo = {}
    /\ early' = sched
    /\ todo' = {n \in DOMAIN nodes : pin[n] = 0 /\ sched[n] # 0}
    /\ phase' = "late"
    /\ UNCHANGED <<nodes, t, pin, sched, order>> /\ NotRunning

\* From the uses to what they use.
LateSchedule ==
    /\ phase = "late" /\ todo # {}
    /\ LET n == CHOOSE m \in todo : Users(nodes, m) \cap todo = {}
       IN  /\ sched' = LateNode(nodes, t, Latency, sched, n)
           /\ todo' = todo \ {n}
    /\ UNCHANGED <<nodes, phase, t, pin, early, order>> /\ NotRunning

LocalSchedule ==
    /\ phase = "late" /\ todo = {}
    /\ order' = [b \in Blocks |-> GreedySchedule(nodes, sched, b)]
    /\ phase' = "run"
    /\ pc' = [bb |-> Start, i |-> 1]
    /\ UNCHANGED <<nodes, t, pin, early, sched, todo, fresh, mem>>
-----------------------------------------------------------------------------
Running == phase = "run" /\ pc # NoWhere
AtNode == Running /\ pc.i <= Len(order[pc.bb])
Node == order[pc.bb][pc.i]
Phis(b) == {p \in UsersAt(nodes, b, 1) : nodes[p].op \in {"phi", "memphi"}}

\* The values a node reads: all inputs but control and memory.
DataOps == {"op", "slow", "load", "phi", "param", "rpc", "store"}
Reads(n) == {i \in ToSet(nodes[n].in) \ {0} : nodes[i].op \in DataOps \ {"store"}}
\* What goes stale when the values of S are computed anew.
Stale(S) ==
    LET from[n \in DOMAIN nodes] ==
          IF nodes[n].op = "phi" THEN FALSE ELSE \E i \in Reads(n) : i \in S \/ from[i]
    IN  {n \in fresh : from[n]}
Computed(S) == (fresh \ Stale(S)) \cup S

\* One instruction; a phi got its value on the way in.
Execute ==
    /\ AtNode
    /\ fresh' = IF Node \in Phis(pc.bb) THEN fresh ELSE Computed({Node})
    /\ mem' = IF nodes[Node].op = "store" THEN Node ELSE mem
    /\ pc' = [pc EXCEPT !.i = @ + 1]
    /\ UNCHANGED <<nodes, phase, t, pin, early, sched, todo, order>>

\* The ways out of the block: the edge each takes, and the block it leads to.
Exits(b) ==
    LET end == EndOfBB(nodes, b)
    IN  IF IsFork(nodes[end].op) THEN {[edge |-> p, to |-> NextBBAfterCproj(nodes, p)] : p \in UsersAt(nodes, end, 1)}
        ELSE IF IsEndpoint(nodes[end].op) THEN {} ELSE {[edge |-> end, to |-> NextControl(nodes, end)]}
\* What a phi of the block gets over the edge.
Taken(p, e) == {nodes[p].in[s + 1] : s \in {s \in DOMAIN nodes[e.to].in : nodes[e.to].in[s] = e.edge}}
\* The phis of the target take their values at once.
Leave ==
    /\ Running /\ ~AtNode
    /\ \E e \in Exits(pc.bb) :
         /\ pc' = [bb |-> e.to, i |-> 1]
         /\ fresh' = Computed({p \in Phis(e.to) : nodes[p].op = "phi"})
         /\ mem' = LET m == {p \in Phis(e.to) : nodes[p].op = "memphi"}
                   IN  IF m = {} THEN mem ELSE CHOOSE p \in m : TRUE
    /\ UNCHANGED <<nodes, phase, t, pin, early, sched, todo, order>>
Return ==
    /\ Running /\ ~AtNode /\ Exits(pc.bb) = {}
    /\ pc' = NoWhere
    /\ UNCHANGED <<nodes, phase, t, pin, early, sched, todo, order, fresh, mem>>

Next == Rpo \/ FindDominators \/ LoopNest \/ Pin \/ EarlySchedule \/ EarlyDone
        \/ LateSchedule \/ LocalSchedule
        \/ Execute \/ Leave \/ Return
Spec == Init /\ [][Next]_vars
-----------------------------------------------------------------------------
TypeOK ==
    /\ phase \in {"rpo", "dominators", "loops", "pins", "early", "late", "run"}
    /\ phase # "rpo" => DOMAIN t.idom = Blocks /\ \A b \in Blocks : t.idom[b] \in Blocks \cup {0}
    /\ phase \in {"early", "late", "run"} => \A n \in DOMAIN nodes : sched[n] \in Blocks \cup {0}
    /\ phase = "run" => /\ \A b \in Blocks : ToSet(order[b]) \subseteq DOMAIN nodes
                        /\ fresh \subseteq DOMAIN nodes

\* The blocks that can be reached from the blocks S without going through d.
RECURSIVE ReachedAround(_, _)
ReachedAround(S, d) ==
    LET more == UNION {ToSet(Succs(nodes, b)) : b \in S} \ {d}
    IN  IF more \subseteq S THEN S ELSE ReachedAround(S \cup more, d)

\* tb_compute_dominators finds the dominance of its definition: d dominates b if no path
\* from the start reaches b around d.
DominanceIsExact ==
    phase = "loops" =>
        \A d \in Blocks : {b \in Blocks : d \in Dominators(t.idom, b)} = Blocks \ ReachedAround({Start} \ {d}, d)

\* Every control node that can run belongs to one block.
ControlIsPartitioned ==
    phase = "dominators" =>
        LET chain(b) == LET up[n \in DOMAIN nodes] ==
                              IF n = b \/ nodes[n].in = <<>> THEN {n} ELSE {n} \cup up[nodes[n].in[1]]
                        IN  up[EndOfBB(nodes, b)]
        IN  /\ \A a, b \in Blocks : a # b => chain(a) \cap chain(b) = {}
            /\ \A n \in DOMAIN nodes : nodes[n].op \in Control \ {"cproj"} => \E b \in Blocks : n \in chain(b)

\* Whatever way is taken, each instruction and each phi reads values that were computed
\* before and not computed anew from other inputs since.
ReadsCurrentValues ==
    /\ AtNode /\ Node \notin Phis(pc.bb) => Reads(Node) \subseteq fresh
    /\ Running /\ ~AtNode =>
         \A e \in Exits(pc.bb) : \A p \in Phis(e.to) : nodes[p].op = "phi" => Taken(p, e) \subseteq fresh

\* Whatever way is taken, each load reads and each store replaces the memory its input
\* names, and the memory phis get what their edge names.
MemoryInOrder ==
    /\ AtNode /\ nodes[Node].op \in {"load", "store", "return"} => nodes[Node].in[2] = mem
    /\ Running /\ ~AtNode =>
         \A e \in Exits(pc.bb) : \A p \in Phis(e.to) : nodes[p].op = "memphi" => Taken(p, e) = {mem}
===============================================================================

------------------------------ MODULE ListScheduler ----------------------------
(***************************************************************************)
(* tb_list_scheduler of list_sched.h, as the x64 back end calls it: one    *)
(* functional unit (FUNCTIONAL_UNIT_COUNT and node_unit_mask of            *)
(* x64_target.c), so that one instruction is in flight at a time and the   *)
(* cycles do not matter.  Instruction selection has replaced each          *)
(* TB_BRANCH and TB_AFFINE_LATCH by a jump of the machine, so that         *)
(* sched.cmp stays NULL: no compare is delayed.                            *)
(*                                                                         *)
(* The ready list is sorted by latency, a node goes in after those of the  *)
(* same latency, and the last one that fits is taken.  Here it is a set,   *)
(* with the time at which each node got ready; nodes that get ready in one *)
(* step do so in the order of a hash set or of a list of users, which is   *)
(* any order.                                                              *)
(***************************************************************************)
EXTENDS Naturals, Sequences

CONSTANTS Blocks, NoMemory

VARIABLES block, placed,
          ready,      \* sched.ready
          readied,    \* sched.ready_set: what has ever been in ready
          since,      \* when it got there
          time,       \* how often nodes got ready
          active      \* the instruction in flight, 0 if none

vars == <<block, placed, ready, readied, since, time, active>>

Order == INSTANCE BlockOrder

Nodes == Order!Nodes(block)
Placed == Order!Placed

ASSUME ListSchedulerAssumption == \A b \in Blocks : Order!IsBlock(b)

\* is_mem_out_op or a node whose value is memory.  A call of the machine is neither: its
\* type is a tuple's.
IsMemOut(n) == block.op[n] = "store"
IsMemIn(n) == block.mem[n] # NoMemory
AntiDeps(n) == IF IsMemOut(n) /\ IsMemIn(n) THEN Order!ReadersOf(block, n) ELSE {}

\* Mutant: a store does not wait for those that read the memory it replaces.
MutIsNodeReady(n, done) == block.in[n] \subseteq done

\* is_node_ready: everything n waits for is in the schedule, retired or not.
IsNodeReady(n, done) == block.in[n] \subseteq done /\ AntiDeps(n) \subseteq done

CanReadyUser(n) == n \notin readied /\ n \notin Placed /\ IsNodeReady(n, Placed)

Init ==
    /\ block \in Blocks
    /\ placed = <<>>
    /\ ready = {n \in Nodes : IsNodeReady(n, {})}
    /\ readied = ready
    /\ since = [n \in Nodes |-> 0]
    /\ time = 0
    /\ active = 0

\* Mutant: the place of the only node, 0, is taken for no place.
MutNotFirst == {n \in ready : \E m \in ready : m # n}
\* Mutant: the list is in the order in which nodes got ready.
MutBest == {n \in ready : \A m \in ready : since[m] <= since[n]}

\* best_ready_node: the slowest, of these the last one to get ready.
Best == {n \in ready : \A m \in ready :
            \/ block.lat[m] < block.lat[n]
            \/ block.lat[m] = block.lat[n] /\ since[m] <= since[n]}

Dispatch ==
    /\ active = 0
    /\ \E n \in Best :
         /\ ready' = ready \ {n}
         /\ placed' = Append(placed, n)
         /\ active' = n
    /\ UNCHANGED <<block, readied, since, time>>

Users(n) == {u \in Nodes : n \in block.in[u]}
\* Mutant: a load that retires tells its users only.
MutSharers(n) == {}
\* "push all anti-deps": the others at the memory n has.
Sharers(n) == IF IsMemIn(n) THEN Order!ReadersOf(block, n) \ {block.end} ELSE {}

\* The instruction in flight is done: whoever waited for it may be ready now.
Retire ==
    /\ active # 0
    /\ LET new == {u \in Users(active) \cup Sharers(active) : CanReadyUser(u)}
       IN  /\ ready' = ready \cup new
           /\ readied' = readied \cup new
           /\ since' = [n \in Nodes |-> IF n \in new THEN time + 1 ELSE since[n]]
    /\ time' = time + 1
    /\ active' = 0
    /\ UNCHANGED <<block, placed>>

Next == Dispatch \/ Retire
\* The loop over the cycles goes on while there is something to do.
Spec == Init /\ [][Next]_vars /\ WF_vars(Next)

\* Nothing but the branch has to come after n.
NeededByBranch(n) == \A m \in Nodes : n \in Order!MustFollow(block, m) => m = block.end

Stopped == active = 0 /\ ready = {}
-----------------------------------------------------------------------------
TypeOK ==
    /\ block \in Blocks
    /\ placed \in Seq(Nodes)
    /\ ready \subseteq readied /\ readied \subseteq Nodes
    /\ since \in [Nodes -> Nat] /\ time \in Nat
    /\ active \in Nodes \cup {0}

\* The scheduler orders the nodes as BlockOrder allows: nothing twice, nothing before its
\* inputs, no store before the loads of the memory it replaces.
OrderedAsPromised == Order!Spec

\* Nothing is forgotten: is_node_ready is asked only when an input or a reader of the same
\* memory retires, so the last of them to be placed has to be one that asks.
NothingLeft == Stopped => Placed = Nodes

\* The schedule ends with n and then the end of the block.
EndsWith(n) == \E i \in DOMAIN placed : placed[i] = n /\ i + 1 = Len(placed) /\ placed[i + 1] = block.end

\* What the branch tests is free, so it is the last of the ready ones to be taken: when only the
\* branch needs it the branch follows it and is the last node of the block.  Otherwise a
\* jump comes before something the block has to do.
TestThenBranch ==
    Stopped => \A n \in Nodes : block.lat[n] = 0 /\ NeededByBranch(n) => EndsWith(n)

\* A block that begins to be scheduled is scheduled to its end.
Terminates == <>Stopped
===============================================================================

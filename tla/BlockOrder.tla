------------------------------- MODULE BlockOrder ------------------------------
(***************************************************************************)
(* What a local scheduler promises: each node of a basic block is put      *)
(* once, after all it has to follow.  ListScheduler implements it.         *)
(*                                                                         *)
(* A block is a record.  Its nodes are those the scheduler has to order:   *)
(* the first node of the block, its phis and the projections of the root   *)
(* are there before it starts, and the projections of a node come with it. *)
(*   op[n]     what n does                                                 *)
(*   in[n]     the nodes of the block n has as inputs, itself or through   *)
(*             their projections                                           *)
(*   mem[n]    the memory n reads or replaces (inputs[1]), NoMemory if n   *)
(*             does neither                                                *)
(*   lat[n]    its latency, 0 for what a branch at the end tests           *)
(*   end       the last node of the block's control flow, or 0 when that   *)
(*             is there from the start                                     *)
(***************************************************************************)
EXTENDS Naturals, Sequences

CONSTANTS Blocks, NoMemory

Ops == {"op", "load", "store", "call", "return", "branch"}
Nodes(b) == DOMAIN b.op

\* The nodes that replace the memory they get.
Replaces(b, n) == b.op[n] \in {"store", "call"} /\ b.mem[n] # NoMemory

\* The others that read a memory go before the node that replaces it.
ReadersOf(b, n) == {m \in Nodes(b) \ {n} : b.mem[m] = b.mem[n]}
MustFollow(b, n) == b.in[n] \cup (IF Replaces(b, n) THEN ReadersOf(b, n) ELSE {})

\* Some order is possible: of any nodes that are left one follows none of the others.
Orderable(b) ==
    \A S \in SUBSET Nodes(b) : S = {} \/ \E n \in S : MustFollow(b, n) \cap S = {}

\* node_latency: only what the branch at the end tests is free.  Nothing follows a branch.
TestIsFree(b) ==
    /\ \A n \in Nodes(b) : b.lat[n] = 0 => /\ b.end \in Nodes(b) /\ b.op[b.end] = "branch"
                                            /\ n \in b.in[b.end]
    /\ \A m, n \in Nodes(b) : b.lat[m] = 0 /\ b.lat[n] = 0 => m = n
    /\ b.end \in Nodes(b) /\ b.op[b.end] = "branch" => \A n \in Nodes(b) : b.end \notin MustFollow(b, n)

IsBlock(b) ==
    /\ Nodes(b) \subseteq Nat \ {0}
    /\ \A n \in Nodes(b) : b.op[n] \in Ops /\ b.in[n] \subseteq Nodes(b) /\ b.lat[n] \in Nat
    /\ b.end \in Nodes(b) => b.op[b.end] \in {"return", "branch"}
    /\ Orderable(b) /\ TestIsFree(b)

VARIABLES block,      \* the block being ordered
          placed      \* its nodes in order, as far as it is known

vars == <<block, placed>>

Placed == {placed[i] : i \in DOMAIN placed}

Init ==
    /\ block \in Blocks
    /\ placed = <<>>

Place(n) ==
    /\ n \notin Placed
    /\ MustFollow(block, n) \subseteq Placed
    /\ placed' = Append(placed, n)
    /\ UNCHANGED block

Next == \E n \in Nodes(block) : Place(n)
Spec == Init /\ [][Next]_vars
===============================================================================

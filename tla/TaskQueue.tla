------------------------------ MODULE TaskQueue ------------------------------
(***************************************************************************)
(* What the Cuik_IThreadpool interface (cuik.h:24) promises its callers:   *)
(* submit() hands a job over, some thread takes every job once, in the     *)
(* order in which the jobs were handed over, and runs it to its end.       *)
(* Nothing here says how the queue is stored: Threadpool implements it     *)
(* with one 32-bit word, a ring of slots and a semaphore.                  *)
(***************************************************************************)
EXTENDS Naturals, Sequences

CONSTANTS Jobs,       \* what callers submit
          Capacity    \* how many jobs may be handed over and not yet taken

VARIABLES pending,    \* the jobs handed over and not taken, oldest first
          running,    \* the jobs some thread has taken and not finished
          finished    \* the jobs whose function has returned

vars == <<pending, running, finished>>

TypeOK ==
    /\ pending \in Seq(Jobs)
    /\ running \subseteq Jobs
    /\ finished \subseteq Jobs

Init ==
    /\ pending = << >>
    /\ running = {}
    /\ finished = {}

Submit(j) ==
    /\ Len(pending) < Capacity
    /\ pending' = Append(pending, j)
    /\ UNCHANGED <<running, finished>>

Take ==
    /\ pending # << >>
    /\ Head(pending) \notin running \cup finished
    /\ running' = running \cup {Head(pending)}
    /\ pending' = Tail(pending)
    /\ UNCHANGED finished

Finish(j) ==
    /\ j \in running
    /\ running' = running \ {j}
    /\ finished' = finished \cup {j}
    /\ UNCHANGED pending

Next ==
    \/ \E j \in Jobs : Submit(j) \/ Finish(j)
    \/ Take

Spec == Init /\ [][Next]_vars
=============================================================================

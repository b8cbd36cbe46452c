-------------------------------- MODULE MCNbhs --------------------------------
(***************************************************************************)
(* Nbhs on small instances: the first table has four words, one of them    *)
(* preloaded, so the second new key makes it half full and the call after  *)
(* that resizes it; batches of three leave a last batch of one.            *)
(***************************************************************************)
EXTENDS Nbhs

CONSTANTS a, p1, p2, q1, q2, q3, q4, r1, T1, T2, T3

MCHash == [k \in 0 .. 3 |-> k]
MCPreloaded == <<a>>
MCKey == (a :> 0) @@ (p1 :> 0) @@ (p2 :> 1)
         @@ (q1 :> 2) @@ (q2 :> 1) @@ (q3 :> 0) @@ (q4 :> 3) @@ (r1 :> 1)

\* Two threads.  T1 first meets the preloaded key, then races T2 for key 1; T2
\* makes the table half full, resizes it and moves its entries up.
MCCalls == (T1 :> <<p1, p2>>) @@ (T2 :> <<q1, q2, q3, q4>>)

\* Three threads, all with key 1: one of them resizes the table on the way.
MCThree == (T1 :> <<p2>>) @@ (T2 :> <<q1, q2>>) @@ (T3 :> <<r1>>)
===============================================================================

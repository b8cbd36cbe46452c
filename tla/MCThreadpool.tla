---------------------------- MODULE MCThreadpool ----------------------------
(* Instances of Threadpool for TLC. *)
EXTENDS Threadpool

CONSTANTS w1, main, irgen

OneWorker == {w1}
MainOnly == {main}
MainAndIrgen == {main, irgen}
=============================================================================

---------------------------- MODULE MCBuildSteps ----------------------------
(* Instances of BuildSteps for TLC. *)
EXTENDS BuildSteps

CONSTANTS w1, w2, main

OneWorker == {w1}
TwoWorkers == {w1, w2}

Build(stmts, has_pool, syntax_only) ==
    [stmts |-> stmts, has_pool |-> has_pool, syntax_only |-> syntax_only]

\* One source over a pool; several without a pool; several over a pool up to sema.
SafeBuilds == {
    Build(<<5>>, TRUE, FALSE),
    Build(<<1, 3, 2>>, FALSE, FALSE),
    Build(<<1, 1, 1>>, TRUE, TRUE)}

TwoSmallSources == {Build(<<1, 1>>, TRUE, FALSE)}
OneSource == {Build(<<1>>, TRUE, FALSE)}
=============================================================================

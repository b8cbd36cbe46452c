\* A job of a worker (irgen) submits while the main thread submits.
SPECIFICATION Spec
CONSTANTS
    w1 = w1
    main = main
    irgen = irgen
    Workers <- OneWorker
    Producers <- MainAndIrgen
    Owner = main
    NJobs = 1
    QSIZE = 4
    HALF = 4
    SemMax = 20
    Clamp = FALSE
CHECK_DEADLOCK FALSE
INVARIANT RunsWhatWasSubmitted

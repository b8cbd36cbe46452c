\* The builds for which every property holds, each with every pattern of failures.
\* The thread that links may stay in futex_wait (BuildSteps_futex), so the system
\* really may stop.
SPECIFICATION FairSpec
CONSTANTS
    w1 = w1
    w2 = w2
    main = main
    Workers <- TwoWorkers
    Main = main
    Builds <- SafeBuilds
    Capacity = 2
    IRBatch = 2
    FuncBatch = 2
CHECK_DEADLOCK FALSE
INVARIANTS
    LinksWhatCompiled
    FailuresReachTheRoot
    IRGenWaitsForItsJobs
    IROnlyFromAllocated
    QuietWhenReturned
PROPERTIES
    CompileStepsEnd

\* POSIX. One worker and a main thread that submits four jobs and helps: two
\* consumers contend for a ring of two slots (one job at a time fits), the ring
\* wraps, and the head reaches bit 15 twice. Deadlock would show up as a
\* violation of EveryoneWakes.
SPECIFICATION FairSpec
CONSTANTS
    w1 = w1
    main = main
    irgen = irgen
    Workers <- OneWorker
    Producers <- MainOnly
    Owner = main
    NJobs = 4
    QSIZE = 2
    HALF = 2
    SemMax = 20
    Clamp = FALSE
INVARIANTS
    TypeOK
    ZeroMeansAllReturned
    NoLostWakeup
PROPERTIES
    ImplementsTaskQueue
    EveryJobReturns
    EveryoneWakes

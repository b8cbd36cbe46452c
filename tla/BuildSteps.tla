----------------------------- MODULE BuildSteps -----------------------------
(***************************************************************************)
(* libCuik/lib/driver/driver.c: the build graph main_driver.c runs, one    *)
(* link step that depends on one compile step per source file, spread over *)
(* a thread pool.                                                          *)
(*                                                                         *)
(* Every thread has a stack of frames, because a thread that waits inside  *)
(* a step (step_submit, irgen) calls work_one_job and may start another    *)
(* step, or another step's IR job, on top of the one it waits for.         *)
(* The pool is the TaskQueue that Threadpool implements: submit() appends  *)
(* to a bounded queue (and spins while it is full).                        *)
(*                                                                         *)
(* A translation unit is named after its source.  Of its contents only the *)
(* number of top-level statements matters; all of them are functions.      *)
(***************************************************************************)
EXTENDS Integers, Sequences, FiniteSets

CONSTANTS
    Workers,      \* the pool's threads, when there is a pool
    Main,         \* the thread that calls cuik_step_run
    Builds,       \* the builds to run: what main_driver.c takes from args
    Capacity,     \* how many jobs the pool's ring holds (127 in the code)
    IRBatch,      \* statements per IR job (good_batch_size, 8192)
    FuncBatch     \* functions per backend job (10000)

ASSUME BuildStepsAssumption ==
    /\ IsFiniteSet(Workers) /\ Workers # {} /\ Main \notin Workers
    /\ \A b \in Builds :
          /\ b.stmts \in Seq(Nat) /\ b.stmts # << >>
          /\ b.has_pool \in BOOLEAN /\ b.syntax_only \in BOOLEAN
    /\ Capacity \in Nat /\ Capacity > 0
    /\ IRBatch \in Nat /\ IRBatch > 0
    /\ FuncBatch \in Nat /\ FuncBatch > 0

VARIABLES
    args,        \* the build: stmts[s] top-level statements in each source s,
                 \* has_pool (args->threads > 1), syntax_only
    stack,       \* stack[t]: the calls thread t is in, innermost last
    queue,       \* the pool's queue of jobs
    remaining,   \* s->remaining of the link step: compile steps not done yet
    errors,      \* s->errors of the link step
    error_root,  \* the steps with error_root set
    cu,          \* the compilation unit's list of translation units
    flagged,     \* units whose statements have STMT_FLAGS_HAS_IR_BACKING
    allocated,   \* units whose statements have their IR symbol (backing.f)
    is_free,     \* units whose statements were destroyed
    left,        \* left[s]: `remaining` on the stack of s's call of irgen
    worklist,    \* worklist[f]: how many times cu->worklist holds function f
    opt_left,    \* backend jobs of the link step submitted and not finished
    result       \* what cuik_step_run returned: "none", "true" or "false"

\* The sources are numbered from 1; the link step is 0.
NSources == Len(args.stmts)
Sources == 1 .. NSources
Ld == 0
Steps == Sources \cup {Ld}
Threads == Workers \cup {Main}
HasPool == args.has_pool
SyntaxOnly == args.syntax_only
Funcs == UNION {{s} \X (1 .. args.stmts[s]) : s \in Sources}

steps == <<remaining, errors, error_root>>
units == <<cu, flagged, allocated, is_free, args>>
ir == <<left, worklist, opt_left>>
vars == <<stack, queue, steps, units, ir, result>>

-----------------------------------------------------------------------------
(* Frames and jobs: a job is the frame its thread will push.                *)
(*   at    where the call is         step  the build step it belongs to     *)
(*   i     a position: the sources submitted, the place in the unit list,   *)
(*         the functions handed out                                         *)
(*   tu    the unit of an IR job     lo, hi  its statements                 *)

Frame(at, step, i, tu, lo, hi) ==
    [at |-> at, step |-> step, i |-> i, tu |-> tu, lo |-> lo, hi |-> hi]
Call(at, step) == Frame(at, step, 0, 0, 0, 0)
IRJob(step, tu, lo, hi) == Frame("ir", step, 0, tu, lo, hi)

Top(t) == stack[t][Len(stack[t])]
Active(t, label) == stack[t] # << >> /\ Top(t).at = label
Below(t) == SubSeq(stack[t], 1, Len(stack[t]) - 1)
Become(t, frame) == stack' = [stack EXCEPT ![t] = Append(Below(t), frame)]
Goto(t, label) == Become(t, [Top(t) EXCEPT !.at = label])
Enter(t, label, frame) ==
    stack' = [stack EXCEPT ![t] = Below(t) \o <<[Top(t) EXCEPT !.at = label], frame>>]
Return(t) == stack' = [stack EXCEPT ![t] = Below(t)]

Min2(a, b) == IF a <= b THEN a ELSE b
CeilDiv(a, b) == (a + b - 1) \div b

\* cuik_num_of_top_level_stmts: none once the array is destroyed
StmtCount(s) == IF s \in is_free THEN 0 ELSE args.stmts[s]

\* The functions the units of the list still hold.
Listed == {f \in Funcs : f[1] \notin is_free /\ \E k \in 1 .. Len(cu) : cu[k] = f[1]}

Init ==
    /\ args \in Builds
    /\ stack = [t \in Threads |-> IF t = Main THEN <<Call("submit", Ld)>> ELSE << >>]
    /\ queue = << >>
    /\ remaining = NSources
    /\ errors = 0
    /\ error_root = {}
    /\ cu = << >>
    /\ flagged = {} /\ allocated = {} /\ is_free = {}
    /\ left = [s \in Sources |-> 0]
    /\ worklist = [f \in Funcs |-> 0]
    /\ opt_left = 0
    /\ result = "none"

-----------------------------------------------------------------------------
(* The pool                                                                 *)

\* CUIK_CALL(tp, submit, ...), which spins while the ring is full
Submit(job) ==
    /\ Len(queue) < Capacity
    /\ queue' = Append(queue, job)

\* do_work on an idle worker
TakeJob(w) ==
    /\ HasPool /\ stack[w] = << >> /\ queue # << >>
    /\ stack' = [stack EXCEPT ![w] = <<Head(queue)>>]
    /\ queue' = Tail(queue)
    /\ UNCHANGED <<steps, units, ir, result>>

\* while (remaining > 0) work_one_job(): in step_submit and in irgen
Waiting(t) == \/ Active(t, "wait_deps") /\ remaining > 0
              \/ Active(t, "wait_ir") /\ left[Top(t).step] > 0

WorkOneJob(t) ==
    /\ Waiting(t) /\ queue # << >>
    /\ stack' = [stack EXCEPT ![t] = Append(@, Head(queue))]
    /\ queue' = Tail(queue)
    /\ UNCHANGED <<steps, units, ir, result>>

-----------------------------------------------------------------------------
(* step_submit and cuik_step_run                                            *)

\* An only child is invoked at once, siblings go to the pool if there is one.
SubmitDep(t) ==
    /\ Active(t, "submit") /\ Top(t).i < NSources
    /\ LET dep  == Call("cpp", Top(t).i + 1)
           next == [Top(t) EXCEPT !.i = @ + 1]
       IN  IF HasPool /\ NSources > 1
           THEN Submit(dep) /\ Become(t, next)
           ELSE /\ stack' = [stack EXCEPT ![t] = Below(t) \o <<next, dep>>]
                /\ UNCHANGED queue
    /\ UNCHANGED <<steps, units, ir, result>>

DepsSubmitted(t) ==
    /\ Active(t, "submit") /\ Top(t).i = NSources
    /\ Goto(t, IF HasPool THEN "wait_deps" ELSE "check_deps")
    /\ UNCHANGED <<queue, steps, units, ir, result>>

\* Mutant of DepsDone: the wait is left while dependencies remain.
MutDepsDone(t) ==
    /\ Active(t, "wait_deps")
    /\ Goto(t, "check_deps")
    /\ UNCHANGED <<queue, steps, units, ir, result>>

DepsDone(t) ==
    /\ Active(t, "wait_deps") /\ remaining <= 0
    /\ Goto(t, "check_deps")
    /\ UNCHANGED <<queue, steps, units, ir, result>>

\* We can't run the step with broken deps. The link step is the root, so its
\* step_error() tells nobody.
CheckDeps(t) ==
    /\ Active(t, "check_deps")
    /\ \/ /\ errors # 0
          /\ error_root' = error_root \cup {Ld}
          /\ Goto(t, "return")
       \/ /\ errors = 0
          /\ Become(t, Call("backend", Ld))
          /\ UNCHANGED error_root
    /\ UNCHANGED <<queue, remaining, errors, units, ir, result>>

StepRunReturn(t) ==
    /\ Active(t, "return")
    /\ result' = IF errors = 0 THEN "true" ELSE "false"
    /\ Return(t)
    /\ UNCHANGED <<queue, steps, units, ir>>

-----------------------------------------------------------------------------
(* cc_invoke up to the IR                                                   *)

\* Mutant of FailStep: the parent is not told.
MutFailQuietly(t) ==
    /\ error_root' = error_root \cup {Top(t).step}
    /\ Goto(t, "done")
    /\ UNCHANGED <<queue, remaining, errors, units, ir, result>>

\* Mutant of FailStep: an early exit that skips step_done.
MutFailUndone(t) ==
    /\ errors' = errors + 1
    /\ error_root' = error_root \cup {Top(t).step}
    /\ Return(t)
    /\ UNCHANGED <<queue, remaining, units, ir, result>>

\* step_error, then on to step_done
FailStep(t) ==
    /\ errors' = errors + 1
    /\ error_root' = error_root \cup {Top(t).step}
    /\ Goto(t, "done")
    /\ UNCHANGED <<queue, remaining, units, ir, result>>

\* cuik_driver_preprocess and cuikparse_run
Preprocess(t) ==
    /\ Active(t, "cpp")
    /\ \/ FailStep(t)
       \/ Goto(t, "add") /\ UNCHANGED <<queue, steps, units, ir, result>>

\* cuik_add_to_compilation_unit, under the unit's lock
AddToUnit(t) ==
    /\ Active(t, "add")
    /\ cu' = Append(cu, Top(t).step)
    /\ Goto(t, "collect")
    /\ UNCHANGED <<queue, steps, flagged, allocated, is_free, args, ir, result>>

\* cuiksema_run: the collection sets HAS_IR_BACKING before anything is checked
SemaCollect(t) ==
    /\ Active(t, "collect")
    /\ flagged' = flagged \cup {Top(t).step}
    /\ Goto(t, "typecheck")
    /\ UNCHANGED <<queue, steps, cu, allocated, is_free, args, ir, result>>

\* Mutant of SemaTypeCheck: IR generation starts before the symbols are allocated.
MutSemaTypeCheck(t) ==
    /\ Active(t, "typecheck")
    /\ \/ FailStep(t)
       \/ /\ Goto(t, IF SyntaxOnly THEN "done" ELSE "count_ir")
          /\ UNCHANGED <<queue, steps, units, ir, result>>

SemaTypeCheck(t) ==
    /\ Active(t, "typecheck")
    /\ \/ FailStep(t)
       \/ /\ Goto(t, IF SyntaxOnly THEN "done" ELSE "allocate")
          /\ UNCHANGED <<queue, steps, units, ir, result>>

\* cuikcg_allocate_ir2
AllocateIR(t) ==
    /\ Active(t, "allocate")
    /\ allocated' = allocated \cup {Top(t).step}
    /\ Goto(t, "count_ir")
    /\ UNCHANGED <<queue, steps, cu, flagged, is_free, args, ir, result>>

-----------------------------------------------------------------------------
(* irgen and irgen_job                                                      *)

\* Mutant of CountIR: the last, partial batch is not counted.
MutCountIR(t) ==
    /\ Active(t, "count_ir")
    /\ left' = [left EXCEPT ![Top(t).step] =
                   IF HasPool THEN Cardinality(Listed) \div IRBatch ELSE 0]
    /\ Become(t, [Top(t) EXCEPT !.at = "next_unit", !.i = 1])
    /\ UNCHANGED <<queue, steps, units, worklist, opt_left, result>>

\* The first walk over the units sizes the tasks. `remaining` is their number.
CountIR(t) ==
    /\ Active(t, "count_ir")
    /\ left' = [left EXCEPT ![Top(t).step] =
                   IF HasPool THEN CeilDiv(Cardinality(Listed), IRBatch) ELSE 0]
    /\ Become(t, [Top(t) EXCEPT !.at = "next_unit", !.i = 1])
    /\ UNCHANGED <<queue, steps, units, worklist, opt_left, result>>

\* The second walk: statements lo .. hi of cu[i] remain to be handed out.
NextUnit(t) ==
    /\ Active(t, "next_unit") /\ Top(t).i <= Len(cu)
    /\ Become(t, [Top(t) EXCEPT !.at = "submit_ir", !.tu = cu[Top(t).i],
                                !.lo = 1, !.hi = StmtCount(cu[Top(t).i])])
    /\ UNCHANGED <<queue, steps, units, ir, result>>

\* With a pool one job per batch, else one call for the whole unit
SubmitIR(t) ==
    /\ Active(t, "submit_ir")
    /\ LET f    == Top(t)
           last == IF HasPool THEN Min2(f.lo + IRBatch - 1, f.hi) ELSE f.hi
           job  == IRJob(f.step, f.tu, f.lo, last)
           next == [f EXCEPT !.lo = last + 1]
       IN  \/ /\ f.lo > f.hi
              /\ Become(t, [f EXCEPT !.at = "next_unit", !.i = @ + 1])
              /\ UNCHANGED queue
           \/ /\ f.lo <= f.hi /\ HasPool
              /\ Submit(job) /\ Become(t, next)
           \/ /\ f.lo <= f.hi /\ ~HasPool
              /\ stack' = [stack EXCEPT ![t] = Below(t) \o <<next, job>>]
              /\ UNCHANGED queue
    /\ UNCHANGED <<steps, units, ir, result>>

AllSubmitted(t) ==
    /\ Active(t, "next_unit") /\ Top(t).i > Len(cu)
    /\ Goto(t, "wait_ir")
    /\ UNCHANGED <<queue, steps, units, ir, result>>

\* irgen_job: statements without HAS_IR_BACKING are skipped
GenerateIR(t) ==
    /\ Active(t, "ir")
    /\ LET done == IF Top(t).tu \in flagged
                   THEN {Top(t).tu} \X (Top(t).lo .. Top(t).hi) ELSE {}
       IN  worklist' = [f \in Funcs |-> worklist[f] + IF f \in done THEN 1 ELSE 0]
    /\ Goto(t, "ir_end")
    /\ UNCHANGED <<queue, steps, units, left, opt_left, result>>

\* futex_dec(task.remaining)
IRJobDone(t) ==
    /\ Active(t, "ir_end")
    /\ left' = IF HasPool THEN [left EXCEPT ![Top(t).step] = @ - 1] ELSE left
    /\ Return(t)
    /\ UNCHANGED <<queue, steps, units, worklist, opt_left, result>>

\* Mutant of IRDone: irgen returns without waiting for its jobs.
MutIRDone(t) ==
    /\ Active(t, "wait_ir")
    /\ is_free' = is_free \cup {Top(t).step}
    /\ Goto(t, "done")
    /\ UNCHANGED <<queue, steps, cu, flagged, allocated, args, ir, result>>

\* The threads have finished: cuik_destroy_translation_unit
IRDone(t) ==
    /\ Active(t, "wait_ir") /\ left[Top(t).step] <= 0
    /\ is_free' = is_free \cup {Top(t).step}
    /\ Goto(t, "done")
    /\ UNCHANGED <<queue, steps, cu, flagged, allocated, args, ir, result>>

\* step_done: the thread's last use of the step
StepDone(t) ==
    /\ Active(t, "done")
    /\ remaining' = remaining - 1
    /\ Return(t)
    /\ UNCHANGED <<queue, errors, error_root, units, ir, result>>

-----------------------------------------------------------------------------
(* ld_invoke                                                                *)

Generated == {f \in Funcs : worklist[f] > 0}

\* cuiksched_per_function, or a loop over the functions without a pool
PerFunction(t) ==
    /\ Active(t, "backend")
    /\ LET jobs == IF HasPool THEN CeilDiv(Cardinality(Generated), FuncBatch) ELSE 0
       IN  IF Top(t).i < jobs
           THEN /\ Submit(Call("opt", Ld))
                /\ Become(t, [Top(t) EXCEPT !.i = @ + 1])
                /\ opt_left' = opt_left + 1
           ELSE Goto(t, "wait_opt") /\ UNCHANGED <<queue, opt_left>>
    /\ UNCHANGED <<steps, units, left, worklist, result>>

\* per_func_task: the jobs done are counted, then one waiter is woken
OptimizeFunctions(t) ==
    /\ Active(t, "opt")
    /\ opt_left' = opt_left - 1
    /\ Goto(t, "signal")
    /\ UNCHANGED <<queue, steps, units, left, worklist, result>>

FutexSignal(t) ==
    /\ Active(t, "signal")
    /\ stack' = [u \in Threads |->
           IF u = t THEN Below(t)
           ELSE IF Active(u, "asleep")
           THEN Append(Below(u), [Top(u) EXCEPT !.at = IF opt_left # Top(u).lo
                                                       THEN "wait_opt" ELSE "futex"])
           ELSE stack[u]]
    /\ UNCHANGED <<queue, steps, units, ir, result>>

\* futex_wait_eq(&remaining, count): the thread that links does not help, and
\* reads the counter a second time for the value it passes to futex_wait.
OptimizeDone(t) ==
    /\ Active(t, "wait_opt") /\ opt_left = 0
    /\ is_free' = Sources
    /\ Goto(t, IF SyntaxOnly THEN "ld_end" ELSE "export")
    /\ UNCHANGED <<queue, steps, cu, flagged, allocated, args, ir, result>>

FutexTest(t) ==
    /\ Active(t, "wait_opt") /\ opt_left # 0
    /\ Goto(t, "reread")
    /\ UNCHANGED <<queue, steps, units, ir, result>>

FutexReread(t) ==
    /\ Active(t, "reread")
    /\ Become(t, [Top(t) EXCEPT !.at = "futex", !.lo = opt_left])
    /\ UNCHANGED <<queue, steps, units, ir, result>>

\* FUTEX_WAIT sleeps while the counter has the value given. Otherwise it fails
\* with EAGAIN and futex_wait calls it again with the same value: no step.
FutexWait(t) ==
    /\ Active(t, "futex") /\ opt_left = Top(t).lo
    /\ Goto(t, "asleep")
    /\ UNCHANGED <<queue, steps, units, ir, result>>

\* Exporting or linking may fail; the link step is the root, see CheckDeps.
Export(t) ==
    /\ Active(t, "export")
    /\ error_root' \in {error_root, error_root \cup {Ld}}
    /\ Goto(t, "ld_end")
    /\ UNCHANGED <<queue, remaining, errors, units, ir, result>>

LdDone(t) ==
    /\ Active(t, "ld_end")
    /\ Goto(t, "return")
    /\ UNCHANGED <<queue, steps, units, ir, result>>

-----------------------------------------------------------------------------
CompileStep(t) == \/ Preprocess(t) \/ AddToUnit(t) \/ SemaCollect(t)
                  \/ SemaTypeCheck(t) \/ AllocateIR(t) \/ StepDone(t)
IRGen(t) == \/ CountIR(t) \/ NextUnit(t) \/ SubmitIR(t) \/ AllSubmitted(t)
            \/ GenerateIR(t) \/ IRJobDone(t) \/ IRDone(t)
LinkStep(t) == \/ PerFunction(t) \/ OptimizeFunctions(t) \/ FutexSignal(t)
               \/ OptimizeDone(t) \/ FutexTest(t) \/ FutexReread(t) \/ FutexWait(t)
               \/ Export(t) \/ LdDone(t)
RunStep(t) == \/ SubmitDep(t) \/ DepsSubmitted(t) \/ DepsDone(t)
              \/ CheckDeps(t) \/ StepRunReturn(t)

Thread(t) == WorkOneJob(t) \/ RunStep(t) \/ CompileStep(t) \/ IRGen(t) \/ LinkStep(t)

\* cuik_step_run has returned and the workers have nothing to do.
Finished ==
    /\ result # "none" /\ queue = << >>
    /\ \A t \in Threads : stack[t] = << >>
    /\ UNCHANGED vars

Next ==
    \/ \E w \in Workers : TakeJob(w)
    \/ \E t \in Threads : Thread(t)
    \/ Finished

Spec == Init /\ [][Next]_vars

\* Every thread runs: the scheduler suspends none for ever.
Fairness == /\ \A t \in Threads : WF_vars(Thread(t))
            /\ \A w \in Workers : WF_vars(TakeJob(w))

FairSpec == Spec /\ Fairness

-----------------------------------------------------------------------------
(* Properties                                                               *)

Labels == {"submit", "wait_deps", "check_deps", "return", "cpp", "add", "collect",
           "typecheck", "allocate", "count_ir", "next_unit", "submit_ir", "wait_ir",
           "ir", "ir_end", "done", "backend", "opt", "signal",
           "wait_opt", "reread", "futex", "asleep", "export", "ld_end"}

Frames == UNION {{stack[t][k] : k \in 1 .. Len(stack[t])} : t \in Threads}
Jobs == {queue[k] : k \in 1 .. Len(queue)}

\* The IR jobs that were submitted and have not returned.
PendingIR == {j \in Frames \cup Jobs : j.at \in {"ir", "ir_end"}}

TypeOK ==
    /\ args \in Builds
    /\ \A t \in Threads : Len(stack[t]) <= NSources + 3
    /\ Len(queue) <= Capacity
    /\ \A f \in Frames \cup Jobs : f.at \in Labels /\ f.step \in Steps
    /\ remaining \in 0 .. NSources
    /\ errors \in 0 .. NSources
    /\ error_root \subseteq Steps
    /\ \A k \in 1 .. Len(cu) : cu[k] \in Sources
    /\ flagged \cup allocated \cup is_free \subseteq Sources
    /\ left \in [Sources -> Int]
    /\ worklist \in [Funcs -> Nat]
    /\ opt_left \in Nat
    /\ result \in {"none", "true", "false"}

LinkBegan == \E f \in Frames : f.at \in {"backend", "wait_opt", "reread", "futex", "asleep",
                                       "export", "ld_end"}

\* "once dependencies are complete, we can invoke the step", but not "with
\* broken deps" (driver.c:610, 614): when the link step starts every compile
\* step has ended, none is running on any stack or waiting in the queue, none
\* failed, and each has its unit in the compilation unit once.
LinksWhatCompiled ==
    LinkBegan =>
        /\ \A f \in Frames \cup Jobs : f.step = Ld
        /\ error_root \subseteq {Ld}
        /\ \A s \in Sources : Cardinality({k \in 1 .. Len(cu) : cu[k] = s}) = 1

\* No failed compile step is lost on its way to the root: the result is true
\* only if every source compiled.
FailuresReachTheRoot == result = "true" => error_root \subseteq {Ld}

\* "returns true on success" (cuik_driver.h:161): not if the link step failed.
TrueMeansSuccess == result = "true" => error_root = {}

\* irgen waits "for the threads to finish" (driver.c:897): while one of its jobs
\* is queued or running, the call whose stack holds their `remaining` is live.
IRGenWaitsForItsJobs ==
    \A j \in PendingIR : \E f \in Frames :
        f.step = j.step /\ f.at \in {"next_unit", "submit_ir", "wait_ir"}

\* irgen_job reads only statements that exist, and generates IR only for those
\* whose unit passed sema and got its symbols; at least as long as no unit of
\* the build was rejected.
IROnlyFromAllocated ==
    error_root = {} => \A j \in PendingIR : j.at = "ir" =>
        j.tu \notin is_free /\ (j.tu \in flagged => j.tu \in allocated)

\* The caller frees the steps and the pool after cuik_step_run: nothing that
\* could still touch a step is running or queued (a last futex_signal only passes
\* an address to the kernel).
QuietWhenReturned ==
    result # "none" => queue = << >> /\ \A f \in Frames : f.at = "signal"

\* Every compile step ends: nobody waits for ever for a job, for a place in the
\* ring or for another thread's part of a step.
CompileStepsEnd == <>(remaining = 0)

\* futex_wait_eq "leaves if *f == val" (futex.h:16): once the jobs of the backend
\* are over, the thread that waits for them goes on.
BackendWaitEnds ==
    (opt_left = 0 /\ Active(Main, "futex")) ~> ~Active(Main, "futex")

=============================================================================

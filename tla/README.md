# minivm-cuik in TLA+

cuik is a C11 compiler: a driver that spreads compile steps over a thread pool, a
front end (preprocessor, parser, type checker), an IR generator, and the back end TB
(tilde), an optimising sea-of-nodes code generator with its own object writers and
linker. This directory holds a verification development of it: TLA+ modules translated
from the C code, TLC configurations that check them on small instances, and TLAPS proofs.
Paths below are relative to the repository's root.

`tlc -config X.cfg M` checks a configuration, `tlapm M.tla` a proof module.
`PROJECT.json` lists components, runs, mutants, findings, hazards and theorems, and maps
every definition to the lines it translates.

## 1. Inventory

### The pipeline

```
 main_driver.c                    one Cuik_BuildStep per source, one link step above them
   cuik_step_run  (driver.c)      frames on the stacks of the main thread and the pool
     cc_invoke                    per source:
       cuikpp_run   (preproc/)      files -> tokens
       cuikparse_run (front/)       tokens -> statements, types, symbols
       cuik_add_to_compilation_unit   the unit joins a list shared by all steps
       cuiksema_run (front/sema.c)  which top-level names are used, exported, backed by IR
       cuikcg_allocate_ir2          a TB symbol per backed statement, the export table
       irgen -> irgen_job           a TB function per function body, in batches on the pool
     ld_invoke                    after all of them: optimise and compile each function on
                                  the pool, lay out sections, write an object or link
 tb/src/*                         module, symbols, optimiser, register allocation, emitters,
                                  object writers, linker, JIT
 common/*                         arenas, hash tables, the lock-free set nbhs, futex
```

### Components

| Component (source) | State | Operations | Shares with | Hard behaviour | What makes it correct | Status |
|---|---|---|---|---|---|---|
| Thread pool (`libCuik/lib/threadpool.c`) | one 32-bit word with head and tail, a ring of slots, `jobs_done`, a semaphore, `running` | submit, work_one_job, worker loop, wait, destroy | driver | lock-free ring, torn copies, CAS, wrap-around, sleeping workers | each job runs once with its argument, in order; no lost wakeup; destroy joins | `Threadpool`, `TaskQueue` |
| Build steps (`libCuik/lib/driver/driver.c`) | the graph, `remaining`, `errors`, per-call counters on stacks, cu->worklist | step_submit, cc_invoke, irgen, irgen_job, ld_invoke, per-function jobs | pool, compilation unit, TB module | a waiting thread runs other steps on its stack; failures; futex | link after all compiles; failures reach the caller; each function generated once; steps end | `BuildSteps` |
| Compilation unit (`libCuik/lib/compilation_unit.c`, `front/parser.c`) | list of units, export table, lock | add, destroy, walk | driver | the walk takes no lock | units live while walked | in `BuildSteps`, `Symbols` |
| nbhs (`common/nbhs.h`) | tables chained by `prev`, words empty/reserved/final, hazard pointers | intern, resize, migrate, detach, free | atoms, TB types, debug info | lock-free with migration and safe reclamation | interning is canonical; nothing lost; no use after free | `Nbhs` |
| Symbols of a build (`ir_gen.c`, `tb/src/symbols.c`, `tb.c`, `exporter.c`, `objects/`) | statements' backing, export table, `resolved`, symbol lists per thread, patches | ir_alloc_task, get_external, tb_thread_info, tb_symbol_append, tb_module_layout_sections, writers | compilation unit, pool | units meet a name in any order, on any thread | every use is linked to the right symbol; the object does not depend on the schedule | `Symbols` |
| Preprocessor (`libCuik/lib/preproc`) | stack of files with guard state, conditional scopes, macro table, once-list | each directive, text lines, expansion, end of file | lexer, parser | include-guard detection, tombstones, hide/paint during rescanning | output is what the C standard asks for | `Cpp`, `Macros`, `MacroTable` |
| Lexer, atoms | tables | next token, intern | preprocessor, nbhs | - | longest match | not modelled (generated table; user of nbhs) |
| Parser (`front/*_parser.h`) | symbol scopes, current breakable/continuable/switch, label table | declaration specifiers, declarators, statements, expressions | types, sema | context threaded through globals, error recovery | the tree is the one C's grammar asks for | statements in `StmtParser`, rest planned |
| Types and folding (`types.c`, `expr_fold.h`) | the type table | layout, equality, folding | parser, sema | widths, bitfields | layout rules; folding as C computes | planned |
| Sema of expressions (`sema.c`) | types and casts on nodes | check per expression | types, IR generation | conversions | usual arithmetic conversions | planned (top-level part in `Symbols`) |
| IR generation (`ir_gen2.c`, `tb/src/new_builder.c`) | the graph, the builder's symbol tables | one case per statement and expression; label make/complete, branch, loop, return | parser, optimiser | phis placed and removed while the graph grows | the graph runs as the program does | statements in `IRGen`, `GraphBuilder`; expressions planned |
| Optimiser (`tb/src/opt`) | graph, users, work list, value numbers, lattice values | peepholes, GVN, SCCP, mem2reg, SROA, loops, branches, GCM, list scheduling | IR, code generator | rewriting under a work list | semantics kept, work list complete, meet is a meet, schedule respects dominance | SCCP in `ConstProp`, `Lattice`; scheduling in `FlowGraph`, `CodeMotion`, `GreedyScheduler`, `Schedule`, `ListScheduler`; rest planned |
| Register allocation (`chaitin.c`, `rogers_ra.c`, `codegen_impl.h`) | intervals or an interference graph, spills | build, simplify, select, split | scheduler, emitters | spilling and coalescing loops | no two live values share a register | planned |
| Back ends (`x64/`, `aarch64/`, `mips/`, `wasm/`) | code buffer, patches | instruction selection, emit, disassemble | register allocation, exporter | encodings; wasm's structured control flow | decode(encode) is the identity; branches reach their block | call patches in `Symbols`, rest planned or left out |
| TB linker (`tb/src/linker`) | objects, archives, symbol table, sections, relocations | append, resolve, garbage collection, layout, relocate, export | object parsers | archives pulled in lazily | every reference resolved once | planned |
| TB module, arenas, JIT, debug info | thread infos, chunks, heap | create/destroy, alloc/restore, place | all of TB | lifetime on several threads | no dangling info; save/restore is a stack | symbol lists in `Symbols`, rest planned |
| futex, C11 threads (`common/common.c`, `c11threads/`) | - | wait, signal, mutex | driver | retry loop | a waiter leaves when the value changed | futex in `BuildSteps`; mutexes are atomic sections |
| Command line, file system, path, toolchains, system linker, printing, AST dump, logging, profiling, third-party code | - | - | - | pure I/O, formatting or vendored | - | not modelled |

`PROJECT.json` ("components") names the files of each and, for what is left out, why.

### Where the difficulty is

The hazards are listed in `PROJECT.json` with file and line. In groups:

* **Interleavings without locks.** The ring of the pool, nbhs, the walk over the unit
  list, the linking of thread infos, the check/export pair for inline functions.
* **Reads that go stale.** The job count of `irgen`, fixed by a first walk; the futex
  value read again; nbhs's `latest` after a failed CAS.
* **Partial failure.** One compile step of several fails; a unit fails after it joined the
  shared list; the root fails and has nobody to tell.
* **Progress.** Workers going to sleep while work arrives; threads that wait with other
  steps on top of their stack; bounded queues filled by the jobs that drain them.
* **Order independence.** A name used before, after or while it is defined elsewhere.
* **Long legal sequences.** Directives that leave the macro table or the guard detector
  in a state that only a later line shows; graphs in which a phi, an edge and a type change
  in an order of which only some are safe; rounds over irreducible graphs.
* **Order without an edge.** A load and the store that replaces its memory are ordered
  by nothing but their common input, in every scheduler.

## 2. What is modelled

Each module names its source functions in its comments; the variables keep the code's
names. An action is one access to shared memory where threads run without a lock
(`Threadpool`, `Nbhs`), one critical section or one stretch between calls of the pool where
they use one (`BuildSteps`, `Symbols`), one line of input in the preprocessor, and one statement
or one call of the graph builder in the walk over a function.

### TaskQueue, Threadpool (libCuik/lib/threadpool.c)

`TaskQueue` is the abstract specification: a bounded FIFO of jobs that are submitted,
taken and finished once. `Threadpool` is the code: `queue` is the 32-bit word as a
record of two halves of `2 * HALF` values (bit 15 of the code is the bit `HALF`), `work` the
ring of `QSIZE` slots whose function and argument are two separate stores, `jobs_done`,
`sem`, `isRunning`. A producer's submission is Peek, AvoidOverflow (clearing bit 15), PutFn,
PutArg, CountJob, Publish, SemPost; a consumer's is AskForWork, CopyFn, CopyArg, TakeJob (the
CAS), RunJob, UncountJob; destroy is StopRunning, WakeEveryone, JoinAll. `Clamp` selects the
Windows branch, where releasing more units than the semaphore's maximum adds none.
`claimed` and `submitted` are history variables: copies committed and jobs published, in
order. The refinement maps `pending` to what is submitted and not claimed and `running` to
what is claimed and not finished.

### BuildSteps (libCuik/lib/driver/driver.c)

Each thread has a stack of frames: a thread that waits for its dependencies or its IR jobs
calls `work_one_job` and runs whatever it takes from the queue on top of itself. The queue
is `TaskQueue`'s (a bounded sequence; `Submit` is not enabled while it is full, where the code
spins). A frame knows the step it belongs to and where it is; a unit is known by its
source and only its number of statements matters. Any source may fail in preprocessing or
parsing and any unit in sema's two phases; exporting may fail. What `irgen` does with the
list (two walks, a counter fixed by the first, jobs that decrement it through a pointer to
its stack) is kept step by step, as is the futex protocol of the link step: test, reread,
FUTEX_WAIT with the value reread, retried with that value for ever on EAGAIN.

### Nbhs (common/nbhs.h)

Every atomic access of `nbhs_intern` and what it calls is an action: hazard accesses (publish,
then confirm), claiming and copying a batch of the previous table, detaching and freeing it
after every other thread's hazard pointers have been waited for (a walk of the list that skips the own entry), growing, probing,
reserving a word, looking the key up in the older table, committing, and the check that
the table is still the latest. Tables are numbered in the order in which they are created
and never reused, so a use after free is visible. `assert`s of the code are collected in
AssertionsHold.

### Symbols (ir_gen.c, symbols.c, tb.c, exporter.c, elf64.c, coff.c)

A build is a set of units, each a sequence of statements with the statements its body
names. Units are compiled side by side on one or more threads: StartUnit; CheckInline and
ExportSymbol under the export table's lock; LoadFirst, LinkThread (the lock-free list of
thread infos), CreateSymbol; Reference for each use in a body (`get_external`) and NextBody.
WriteObject lays the functions out (walk of the threads' lists, then a sort: Text, InOrder), lists the
symbols and turns each patch into a relocation the way the COFF or the ELF writer does.

### MacroTable, Macros, Cpp, PreprocessorReference (libCuik/lib/preproc)

`MacroTable` is the open-addressing table with tombstones and hidden entries. `Macros` is the
expander as recursive operators over sequences of tokens: argument collection,
substitution with # ## and __VA_ARGS__, painting, rescanning, and the evaluator of
conditions. `Cpp` is the state machine over files: the stack of includes, the state of the
include-guard detector, conditional scopes, one action per directive.
`PreprocessorReference` says what the C standard asks for without a line of the code: active
groups, and Prosser's hide-set algorithm.

### StmtParser, GraphBuilder, IRGen, StatementReference (stmt_parser.h, new_builder.c, ir_gen2.c)

`StmtParser` is the recursive descent over statements; its record p holds the position, the
statements allocated so far (pointers are indices), the three thread-local variables that say
which statement a break, continue or case belongs to, and the label map. A loop puts back the first two and a switch
the first and the third, as the code does; a jump or case with nothing around it is a failed assertion, and the
parser stops there with status `abort`. `GraphBuilder` is
tb_builder_*: functions from a graph and the current symbol table to a graph, a node being
its kind and inputs. A symbol table has two definitions, the memory and the return address; the
latter never changes, so the removal of its phis is exercised all the time. `IRGen` is the
state machine: Parse runs the parser, then one action per statement (CgIf, CgWhile, ...)
and per later builder call (DoSet, DoBr, DoComplete, DoKill, DoDrop), the C stack being the list
`todo`. Reading `g->curr` while it is NULL, failing assertions and TODO()s end the walk in a
status of their own. Expressions are one token: an assignment, a variable or a constant.
`StatementReference` has the other side: a program is a tree, Tokens writes it down, Agrees
compares it with parsed statements, RunStmts runs statements and RunGraph runs a graph for
given values of the conditions.

### FlowGraph, CodeMotion, GreedyScheduler, Schedule (tb/src/opt: cfg.h, gcm.h, scheduler.h)

A graph is a sequence of nodes with their inputs, as `GraphBuilder` makes it. `FlowGraph` cuts it
into blocks: reverse postorder by the recursive walk, immediate dominators by rounds over it.
`CodeMotion` has the loop nest, the early block of a node (the deepest of its inputs' blocks),
the least common ancestor of its uses and the walk up from there to the block that runs least often.
`GreedyScheduler` orders the nodes of a block by a depth-first walk from its end, stores behind
the loads of the memory they replace. `Schedule` is the state machine: FindDominators (a round
each), LoopNest, Pin, EarlySchedule and LateSchedule (a node each, in any order the work list may
have), LocalSchedule; then Run executes the blocks along any path. `fresh` is the set of nodes whose
value was computed since they were last due, `mem` the node whose memory is present.

### BlockOrder, ListScheduler (tb/src/opt/list_sched.h)

`BlockOrder` says what a local scheduler promises: each node of the block once, after what it
has to follow. `ListScheduler` is tb_list_scheduler with the one functional unit of the x64 back end:
Dispatch takes the slowest ready node that got ready last, Retire asks the users and the readers of the
same memory whether they are ready. What the jump at the end of a block tests has latency 0 (node_latency,
x64_target.c:2256), which holds it back until nothing else is ready. The compare that
list_sched.h:164 would hold back is not modelled, because there is none on x64: it is looked for behind a TB_BRANCH or
TB_AFFINE_LATCH, and instruction selection has replaced these by jumps of the machine (x64_target.c:839-914).
`ready_set` is `readied`; the refinement maps the order that was placed.

### Lattice, ConstProp, GraphReference (tb/src/opt: lattice.h, peep_int.h, optimizer.c)

`Lattice` is the part of the lattice that integers, control and tuples use: ranges with known bits
and a widening count, the meet, addition, subtraction and comparison with their overflow tests,
in words of WORD bits. `ConstProp` is tb_opt_cprop. Pass 1: CpropNode pops a node, evaluates it and
pushes whoever is affected; `worklist` gives each node the level at which it was pushed, because the
code's stack is last-in-first-out but the order of the users of a node, pushed together,
depends on the node's history. Pass 2: RewriteNode takes the nodes of the list in the order of
their batches and rewrites them (`TryAsConst`: regions lose dead inputs, dead control becomes
`dead`, values under it poison, branches with one way are cut, values become constants), with the
interning, subsuming and killing of nodes that the code does on the way. `GraphReference` says what
a graph means: control goes from node to node, a phi gets its value on the way into its region.
The model is that of a release build: the assertions of a debug build are the properties
ForwardProgress and (`phase = "crashed"`) a part of SameResults.

## 3. Runs

| Run | Module, config | States | Checks |
|---|---|---|---|
| threadpool | MCThreadpool, Threadpool.cfg | full state space | TypeOK, ZeroMeansAllReturned, NoLostWakeup; ImplementsTaskQueue; EveryJobReturns, EveryoneWakes under fairness |
| threadpool_two_producers | MCThreadpool, Threadpool_two_producers.cfg | violation | RunsWhatWasSubmitted: two submitters lose a job and run a slot nobody wrote |
| build_steps | MCBuildSteps, BuildSteps.cfg | full | LinksWhatCompiled, FailuresReachTheRoot, IRGenWaitsForItsJobs, IROnlyFromAllocated, QuietWhenReturned; CompileStepsEnd under fairness |
| nbhs | MCNbhs, Nbhs.cfg | full | OneRepresentative, NoUseAfterFree, NothingLost, AssertionsHold; CallsProgress under fairness |
| nbhs_three | MCNbhs, Nbhs_three.cfg | violation | OneRepresentative: three threads, two pointers for one key |
| symbols | MCSymbols, Symbols.cfg | full | EverySymbolWalked, UsesLink, OneBody, SameText; NamesSettle |
| preprocess | MCCpp, Cpp.cfg | about 100 000 | MatchesReference; GuardIsInvisible |
| irgen | MCIRGen, IRGen.cfg | about 50 000 | ParsedAsWritten, PhisMatchRegions, SamePaths, CrashesAreUnreachable |
| schedule | MCSchedule, Schedule.cfg | full | DominanceIsExact, ControlIsPartitioned, ReadsCurrentValues, MemoryInOrder |
| schedule_load | MCSchedule, Schedule_load.cfg | violation | MemoryInOrder: a load sinks below a store |
| list_sched | MCListScheduler, ListScheduler.cfg | full | NothingLeft, TestThenBranch; OrderedAsPromised; Terminates under fairness |
| const_prop | MCConstProp, ConstProp.cfg | about 168 000 | UpToDate, TypesAreSound, SameResults; ForwardProgress |

The modules whose TypeOK no run checks keep it as the description of their state.
`ListSchedulerProofs` and `ThreadpoolProofs` prove theirs. Section 4 says which of the checked properties
are proved as well: all the safety properties of `threadpool`, `build_steps` and `list_sched`, all five of
`symbols`, of `nbhs` AssertionsHold and (for two threads) NoUseAfterFree, OneRepresentative and NothingLost, and one of `const_prop`.

A run that expects a violation checks one statement a comment or header of the repository
makes, which the code does not keep; "findings" quotes both.

### Bounds, and why they are enough

* **threadpool**: two consumers, a ring of two slots and a half-word of four values. The
  ring is full with one job in it, so the producer meets a full ring, both consumers race
  for every job, slots are reused while a loser still copies them, the indices wrap and the
  head reaches bit 15 twice. A consumer that sleeps between its load and its CAS while the
  tail goes round exactly once (65536 submissions, threadpool.c:76) is beyond it.
* **build_steps**: three builds, each with every pattern of failures: one source with
  five statements in batches of two on two workers (uneven last batch, several IR jobs and
  back-end jobs); three sources without a pool; three sources on a pool up to sema. Two
  sources over a pool through code generation break IRGenWaitsForItsJobs at once (section 5). Capacity = 2 keeps the queue small enough to fill.
* **nbhs**: two threads, six pointers with four keys, a first table of four words with
  one preloaded. The second new key makes it half full and the next call resizes, so every
  phase of the migration overlaps every phase of the other thread's calls; batches of
  three make the last one a batch of one. Addresses are not reused.
* **symbols**: three builds chosen so that a use comes before, after and during the
  definition, plus a missing name, two statics of one name, an inline function in a shared
  header; each on one thread and on two.
* **preprocess**: all main files of up to three lines out of thirteen before two fixed
  ones, with eight kinds of header; two families of longer programs (nested conditionals;
  macros that use each other). The names have slots of their own (`Apart`).

* **irgen**: about two thousand functions of a plain statement, a fork or loop (with forks, loops
  and returns inside) and an ending, plus pairs of forks and loops, each as main and as
  another function; and more with jumps, switches and labels, where code generation stops: cases inside
  a loop in a switch, which stay in the chain of that switch, and jumps and cases with nothing around
  them, at which the parser aborts (stmt_parser.h:328, 358). The
  comparison of executions tries every value of the first three conditions, so each
  loop goes round twice and leaves. Bodies of loops in this run store on every path
  of a fork and do-whiles store only inside a fork: without that the violations of
  section 5 appear. SamePaths forgets the value of an if's condition, which is used the
  wrong way round (section 5), and no other value.
* **schedule**: six families of graphs: one or two joins, stores in the arms of a branch,
  while and do loops, a loop in a loop with a store, a loop with two entries (which is not
  reducible); in each, every choice of what the nodes read. A run may take every path, and loops go
  round until no new state comes. Loads have a use in their own block or no store below them: without
  that schedule_load appears.
* **list_sched**: all blocks of four instructions (arithmetic of two latencies, loads and stores,
  each with up to two inputs and any memory that is there) and the return behind them; and blocks with a branch
  behind them that needs up to two nodes and tests one of these or a value from elsewhere. Four are enough for a store, two readers of what it replaces and a user of one of them.
* **const_prop**: words of four bits, the widening limit of the code and five families of graphs: a loop that counts
  (up in words of four bits and of three, down in words of four), a loop with a choice in it, one with a choice in a dead
  arm, one with a switch and a select, and a join of seven constants whose edges come alive one at a time, which is more
  than a phi has steps. Constants are only found because an arm is dead. Graphs are as the peepholes leave them. Some reach
  more than one fixed point, depending on the order of visits; all are sound. Left out: differences of two unknowns and narrow
  counters that go down, with which the violations of section 5 appear, and regions of three inputs one of which
  dies, for the second pass. Runs are compared for six values of each parameter; FUEL lets a loop go round more than the
  sixteen times a counter of four bits can.

### Fairness

`Threadpool`, `BuildSteps` and `Nbhs` assume weak fairness of each thread's steps: the operating
system suspends no thread for ever. A blocked thread (semaphore, mutex, full queue)
has no enabled step, so nothing is assumed about who gets a semaphore unit. Nothing makes a
thread start a further call (`Nbhs!Begin` has no fairness) or take a job while it does
something else. `ListScheduler` assumes that its loop goes on. `CHECK_DEADLOCK FALSE` is set where the system may stop: the link step in
futex_wait, a program that ends, threads with no further calls, a pass that is over.

## 4. Proofs

`ThreadpoolProofs` proves for any number of workers, producers, jobs, any ring size and half-word
width, and for both kinds of semaphore:

* **TypeCorrect**: `Spec => []TypeOK`. The counters and both halves of the word stay in range.
* **WakeupsKept**: `Spec => []NoLostWakeup`. While a published job waits and its producer has
  posted, the semaphore is positive or some worker is awake.

Assumptions: `ThreadpoolAssumption` (finite, disjoint sets of workers and producers, at least
one worker, the owner is a producer, a ring of at least two slots that divides the
half-word, a semaphore maximum no smaller than the number of workers).

TypeOK is not inductive: incrementing `jobs_done` or taking `CurrentJob` is well typed only for
a producer that has begun a job; Advance stays in Word but could turn an empty ring into one
that looks full unless the copier saw it non-empty; and `wakes` could exceed the number of
workers. `Shape` says these things, and `IInv == TypeOK /\ Shape` is inductive:
InvariantInit, InvariantStep (one step per action). Lemmas Sizes, Remainder,
SubtractMultiple and WordOps do the modular arithmetic of the word. NoLostWakeup is
then inductive relative to IInv (WakeupStep): a worker only sleeps after it saw
an empty ring, and whoever fills the ring is in `post` until the semaphore is raised.

Its second part is about the ring, for any number of workers (the owner takes jobs too while it waits) and any size:

* **CounterIsTrue**: `Spec => []ZeroMeansAllReturned`. `jobs_done` is 0 only when every published job has
  returned, and it never wraps.
* **JobsTakenOnce**: `Spec => []RunsWhatWasSubmitted`. What is called is a submitted job with its own argument,
  and none is called twice.
* **PoolIsTaskQueue**: `Spec => ImplementsTaskQueue`. The word, the ring and the CAS are a FIFO queue.

They have a hypothesis, `OneSubmitter == Producers = {Owner} /\ NJobs <= UNIT`, and both parts of it are needed. With two
submitters a job is lost (run threadpool_two_producers). And the CAS compares a word whose tail comes round
after UNIT jobs (65536 in the code): a thread that sleeps between its load and its CAS while UNIT jobs go by
takes one that was taken; TLC finds this for five jobs and a half-word of four values. The invariant `RInv`, beside IInv,
says what the word counts (WordCounts: the tail is the number of jobs taken, the head the slot
of the next one, at most QSIZE - 1 apart), that the submitter writes to a slot nobody may read (Room), that the
slots between are whole (SlotsHold), that a copy which the CAS may still accept is one of the job at the tail, because the tail has not
moved since it was made (CopiesFresh), that what was taken is run by one thread (TakenOnce), and which jobs `jobs_done`
counts (Counted). Quotient, NextRemainder, SameRemainder and TailCounts are the arithmetic; then one lemma per group of actions, and for the refinement
Abstraction (what the mapped state is under RInv) and RefinesSubmit, RefinesTake and RefinesFinish.

`ListSchedulerProofs` proves for any set of blocks (of any size, any latencies):

* **TypeCorrect**: `Spec => []TypeOK`.
* **NothingIsLeft**: `Spec => []NothingLeft`. When the scheduler stops, every node has been placed.
* **ImplementsBlockOrder**: `Spec => Order!Spec` when no call has memory. Nothing is placed twice or before
  what it has to follow; the hypothesis is needed (section 5).
* **BranchFollowsTest**: `Spec => []TestThenBranch`. When nothing else in the block needs the value the branch tests, the
  schedule ends with that value and the branch. This is what is left on x64 of "condition attached to the terminator
  branch should be scheduled right before it" (list_sched.h:87); the rest of it does not hold (section 5).

Assumption: `ListSchedulerAssumption` (what the nodes of a block have to follow has no cycle; only
what the branch tests is free, and nothing follows a branch). The invariant `IInv` adds to TypeOK that `readied` is the union of ready and placed
nodes, that what is ready is so by the code's own test (ReadyIsReady), and that a node which
could be ready and is not in the list will be asked when the instruction in flight retires
(AskedInTime). The last is what NothingLeft needs: asking only the users and the readers of the
memory of what retires is enough, because whatever a node waits for is one of those
(WaitersAreAsked). Lemmas: AppendPlaces, BlockShape, InitIInv, DispatchPlaces, DispatchIInv, RetireIInv,
StepIInv, and for the branch TestShape, FreeIsTakenLast, OnlyBranchLeft, DispatchThenBranch.

`ConstPropProofs` proves for any set of graphs, any width of words and any widening limit:

* **WorklistIsComplete**: `Spec => []UpToDate`. In pass 1 each node that is not a phi has the type its
  inputs give it, waits in the work list, or is as low as it goes.
* **MeetIsSound**: the meet of two integers has every value either has.

Assumptions: `LatticeAssumption` (a word has a bit), `GraphsAssumption` (`IsGraph`: what has a type of
its own hangs on the root, nodes have the inputs of their operation, and what reads one node
only is not read by another such node: the shape on which the immediate evaluation of such users relies).
UpToDate is not inductive before the root has its type; `IInv` says what holds
then (RootFirst: everything is at Top and only the root waits) and excuses what hangs on the
root (Heard). ValueFromInputs and NothingFromNothing are about the value functions, PopIInv and
ChangeIInv about the two outcomes of a visit. Phis are not covered: their
value depends on their own last type, so that they need not be at a fixed point of it.

`SymbolsProofs` proves for any units, statements and threads, and any order of their steps:

* **NamesAreSettledOnce**: `Spec => NamesSettle`. What the export table or `resolved` says of a name
  never changes (Tables keeps the tables' domains, StepSettles has the steps that write them).
* **NoThreadIsLost**: `Spec => []ThreadsStayListed`. Every thread that made a symbol is in the module's
  list of threads, and none is in it twice.
* **NoSymbolIsLost**: `Spec => []EverySymbolWalked`. The writers' walk over these threads' lists meets as many
  symbols as were made, each of them once.
* **OnePublicBody**: `Spec => [](InlineInHeaders => OneBody)`. A name has one public function with a body, although each
  unit that includes a header defines its inline functions.
* **UsesAreLinked**: `Spec => [](LinkableBuild => UsesLink)`. In a COFF object every use of a name leads to the right
  symbol, whichever unit met the name first: the unit's own definition, else one that C lets it use, with a body
  if it is a function; only a name nobody defines stays external.
* **TextIsReproducible**: `Spec => [](InlineInHeaders => SameText)`. The text section is a function of the build alone: the used
  functions of the units, in the order of the source.

Assumption: `SymbolsAssumption`. The second theorem needs an invariant that follows a thread to the list:
it is at one unit at a time, is linked before it makes its first definition, and a body needs an external only
after a definition of that unit was made (IInv).

The third adds WInv: the lists have `count` symbols (Lists), no two alike (Apart), because a definition that was made
is behind its unit's cursor and an external is in the export table (AllKnown). The walk is a fold over the list of threads. What it
gives is found without the library's induction theorems: the lengths of the list's prefixes at which the
claim holds have no smallest exception (Counting), so that WalkLays and WalkIsJoined hold for any list.

The fourth adds BInv: an inline function that its unit has exported and still backs is what the table has for the name
(Settled), and only such functions are generated (Stays). It needs that the table never has an external
for an inline name. A body makes an external for a declaration only, for what it names is used as well and allocated
before the bodies: UsedIsClosed, that the set sema marks is closed, which a closure computed in
Len steps is because it grows with each step until it is (ReachedIsClosed, by cardinality).
`InlineInHeaders` is a condition on the units: they have one public function of a name, except an inline one, which
each unit that names it defines. Without it OneBody fails (section 5). The builds of the run meet it.

The last two add LInv, one part per data structure, each kept by a lemma of its own: only inline functions lose
their backing (KeepTheirs), what a unit has gone past and kept is in a list (AllMade), what the table and `resolved` hold is offered
by a unit or an external that was made (Entries), a name that a unit has exported is in the table and resolved if it stands there as an
external (Entered), a statement is backed by its own symbol or by what the table has (Backings), compiled code has the
symbol of the statement it names (Patched), a unit has generated the bodies it came past (Generated). StepAdvances says what one step does to the
cursors and the backing; RootsAreReached that an external definition is used and so exported; MadeIsWalked that the writers meet what was made.
`LinkableBuild` is `InlineInHeaders`, that no file's own variable has the name of an external definition (StaticsAreOwn: the table
takes such a variable for a public one, sema.c:1798) and COFF (the ELF writer does not follow `resolved`, elf64.c:221; section 5 for both).
UsesLink itself excepts the unit that lost the race for an inline function (LostRace).

`BuildStepsProofs` proves for any number of sources, statements and workers, with and without a pool:

* **EveryFailureIsTold**: `Spec => []FailuresReachTheRoot`. cuik_step_run returns true only if every source
  compiled. Two-source builds are included, in which other properties of `BuildSteps` fail (section 5).

Assumption: `BuildStepsAssumption`. A step that ends while the link step has already looked at `errors` would
break it, so `IInv` has to say where each compile step is: to come, in the queue, or on one stack, in one place only
(OnePlace), that `remaining` is the number of steps that are not over (Counted), that the link step's call is the
first of the main thread and nobody else's (RootIsFirst), that without a pool the main thread is alone (MainAlone),
and that nobody is left when the wait is over (AfterAll). Popped, Swapped, Pushed, Taken and AtPopped .. AtTaken
are about one list of calls; NobodyMoves, OneStack, Advances, CallsJob and Returns about steps that leave every compile step
in its place; Takes, StepEnds and Submits about those that move one; then one lemma per group of actions.

`LinkProofs` goes on from there, for any build:

* **LinkBeginsOnItsUnits**: `Spec => []LinkFinds`. When the link step begins every compile step has ended, none
  failed, and the unit of each source is in the compilation unit's list, once. This is LinksWhatCompiled but for the
  jobs of irgen, which two sources over a pool leave behind (section 5).

Its invariant `GInv`, beside IInv, says whose each call and job is (JobsOwned), that the link step began on `errors = 0` and nothing
fails after that (BeganClean), that no unit is in the list twice (AddedOnce), what each compile step has done by the label it is
at (Staged: has it added its unit, allocated its symbols, may its unit be destroyed), and that `opt_left` is the number of back-end jobs
queued or running (OptCounted), without which the link step could export too early. `Pending(L)` counts the calls and jobs at the labels L over all
stacks and the queue; SpotsSwapped .. PendingNone say how a change of one stack or of the queue changes it.

`IRJobProofs` proves the other four properties of the run, for any number of workers and statements and any size of the batches and the queue:

* **LinkStartsWhenAllCompiled**: `Spec => [](OneIRGen => LinksWhatCompiled)`.
* **IRGenWaits**: `Spec => [](OneIRGen => IRGenWaitsForItsJobs)`. A call of irgen outlives the jobs that count
  down its local variable.
* **IRFromAllocated**: `Spec => [](OneIRGen => IROnlyFromAllocated)`. irgen_job finds its statements and
  their symbols.
* **QuietAfterReturn**: `Spec => [](OneIRGen => QuietWhenReturned)`. After cuik_step_run only a futex_signal is
  still running.

`OneIRGen == HasPool /\ ~SyntaxOnly => NSources = 1` is a condition on the build: no pool, or no code generation, or one
source. With two sources over a pool the code breaks all four: the two walks of irgen see different lists (driver.c:856, 877).
IRCounted says that over a pool the local `remaining` is the number of jobs queued or running and of batches to come,
`CeilDiv(Rest(f), IRBatch)` (NoBatch, OneBatch: handing out a batch lowers it by one, the uneven last one too); Nested that without
a pool the main thread is at most three calls deep, the link step's, a compile step's and an IR job's, so that a call of irgen is never
under another. CallOfJob finds the call that a job counts for, NoJobLeft says that without a call there is no job.

`NbhsProofs` proves for any pointers, keys and hashes, and any size of the first table and the batches, the first two for any number of threads, the others for two:

* **AssertionsNeverFail**: `Spec => []AssertionsHold`. The three asserts of nbhs_intern and nbhs_raw_intern: a table that is being migrated has no older
  one, when a look-up enters it and when it is detached, and no more of its entries are counted as moved than it has.
* **TablesFreedOnce**: `Spec => []OneDetacher`. Who detaches a table is the only one to do so and to free it, after
  everybody who copied from it has counted what they copied.
* **TwoNeverUseFreed**: `Cardinality(Threads) <= 2 => (Spec => []NoUseAfterFree)`. However often the table is resized, neither
  thread is about to read or write one that has been freed. The hypothesis is what the code needs: with three threads it fails (section 5).
* **TwoInternOnce**: `Cardinality(Threads) <= 2 => (Spec /\ []RetriesFit => [](OneRepresentative /\ NothingLost))`. Interning is canonical
  and migration loses nothing, through any number of resizes, in every execution in which no call that probes again, for what it has put in a
  table that was replaced meanwhile, finds the newer table full of other keys. With three threads it fails (run nbhs_three).
* **TwoReturnOnePointer**, **TwoLoseNothing**: the same without that condition, `Cardinality(Threads) <= 2 /\ FewKeys => (Spec => []OneRepresentative)` and
  `=> (Spec => []NothingLost)`, if there are no more keys than words of the first table, as in the run.

Assumption: `NbhsAssumption`. AssertionsHold says nothing of how threads come to hold a table. `IInv` says where each thread's tables come from
(Placed: its `prev` is the table before its `latest`, and its batch has been claimed), that only the latest table has one before it (Chained: a
table is not resized while its own migration goes on, which is what a thread at the CAS has seen), that two threads' batches of a table lie
apart (Apart), that what is counted and what is in flight add up to what is claimed (Counted, by cardinality: InFlightIs, InFlightWithin, BatchAdds), and
that a table whose count is complete is with its detacher or gone (Alone, Gone). Most steps leave the batches alone (QuietStep, RawGoesOn, LeaveKeeps,
AccessGoesOn); ClaimKeeps, CountKeeps, DetachKeeps, FreeKeeps and SwapKeeps are about those that do not. A freed table keeps its contents in the model, so
the theorems about its words say what the code does with tables as long as none is used after it was freed.

TwoNeverUseFreed adds `HInv`. Its core is Safe: where a thread relies on a hazard pointer for a table (Protects says which pointer, and from where to
where), that pointer names the table, the table is not freed, and no other thread that waits for the table to be let go has passed the pointer (Ahead:
the rest of its walk still comes to it). A hazard access makes it so because it reads the address again after it has published the pointer: by then a
detacher has either not unlinked the table, and so not begun to wait for it, or the second read finds another (LatestIsFresh, PrevIsFresh). Two places take a table
without reading again: after a failed CAS of `latest` (nbhs.h:154) and the move from pointer 4 to pointer 0 or 2 of a retry (nbhs.h:225).
NoneIsOlder covers both. An older table that is not freed is the one before `latest` or the one somebody is about to free (Live, Off), and the thread
still holds an older table than the one it takes. If the other thread waited for the table taken, nobody would be left to free that older one, although
only the latest table has one before it. A third thread breaks exactly this.
Registered keeps every thread that is past its first call in the list that the detacher walks; Held and Local are what a
thread knows in the middle of a hazard access and of a retry.
The model's walk is that of nbhs.h:340: it goes over the whole list and skips the thread's own entry.

The last three theorems add `CInv`, on top of IInv and HInv. WInv is about words: a pointer is where a probe for its key comes to (Tidy: every word
before it on the probe holds another key, so a key is in a table once, OneEach), words only go from empty to reserved to final (Grows), and what a thread
has seen of them stays true (Knows: the places its probe is past, its reservation, what it looked up). The rest is about time. A thread
may still be in a table that is no longer the latest, and what it finds there it may return (nbhs.h:209). Lag and OneStale say that this can only be the table
before the latest, and only one thread is there; NoneIsBehind is why: a table is only replaced after the one before it was detached, and with two
threads the one at the CAS is not in it, and the other one, if it is not done with it, is the detacher. Values then says that whatever has been returned, or might
still be by such a thread (MayReturn), is in the latest table, or it is in the one before, is yet to be copied (ToCopy: not
claimed, or in a batch that a thread is at), and the latest table either lacks its key or has it reserved by a thread that will
find it below (Ready). So a thread that commits a pointer of its own has looked where nobody put another, and a table is detached when
everything in it is above. Each step is a lemma: those that write a word (ReserveKeeps, CommitKeeps) rest on WriteMove and ValuesGrow, the others on
QuietMove, RawMove, BatchMove or SoundMove; LookupFinds is the look-up below, DetachLosesNone the detach, SwapCopies the CAS of a new table.
RetriesFit is needed because the code does not say what happens in a full table: nbhs_raw_intern then leaves the probe with the
result it had, of the older table, and returns that. FewKeysFit derives it from FewKeys by the pigeonhole principle. What the raw inserts leave in the
first table is an induction over them, which needs no operator parameter when it goes by the least counterexample (Least, from
WFMin): InsertsAre, that the recursive definition has the values it says, and InsertsFill. `NbhsAssumption` says for it that the
preloaded elements have different keys, which nbhs_raw_insert asserts (nbhs.h:272).

Only model-checked: liveness (fairness and ENABLED are outside the prover), the preprocessor (its expander is recursive),
`IRGen` (so is its parser; `GraphBuilder` is not), `Schedule` (so are its walks), the soundness of the types
of `ConstProp` and what its second pass leaves (they compare with recursive executions). So is ForwardProgress: a type
only goes down unless a phi it is computed from has used up its widening steps, when it may go up (optimizer.c:496, section 5). The run
has a join where that happens; the differences it leaves out also go up without it.

## 5. Where the code does something else than it says

Shown by a run: see "findings". Shown by a configuration that made way for others, or met while
modelling:

* driver.c:872: with two sources over a pool, irgen's two walks see different units and it returns
  before its jobs have run (IRGenWaitsForItsJobs fails).
* ir_gen2.c:587: the arm built as "// then" is paths[1], although loops (ir_gen2.c:625) and tb.h:1548 take
  paths[0] for the true one: the body of an if runs when its condition is 0 (MatchesProgram in `MCIRGen` fails).
* new_builder.c:430: completing a label removes the phi of a loop that is still open (SamePaths fails);
  new_builder.c:553/367: a store in the body of a do-while hides the header's phi (PhisMatchRegions fails).
* list_sched.h:23: an x64 call has an opcode outside the ranges of is_mem_out_op and does not wait for the loads
  of the memory it replaces (OrderedAsPromised fails for MCCallBlocks in `MCListScheduler`).
* list_sched.h:87 and 164: on x64 `sched.cmp` stays NULL, and nothing else puts the end of a block last. When the jump
  tests a value from another block or a phi it is ready from the start, with latency 1, and a node of latency 1 may be placed behind it; so may
  one of the other users of the value it tests. A run of the model with four independent instructions and such a branch ends with
  one of them after the jump.
* cpp_expand.h:381: `#define A # x` is reported as an error, although # means nothing in an object-like macro; neither caller
  of subst looks at its result, so the tokens come out as they should. A body that ends in # reads past its last token (cpp_expand.h:369).
* gcm.h:72: a phi that gets one value over two edges counts as a use in the first edge's block only.
  gcm.h:434: the back edge of a loop is input 1 by convention. scheduler.h:91 takes the next user of the end of a block
  rather than the projection. tb.h:475 and peeps.h:129 disagree on the control flags of machine nodes.
* peep_int.h:101: the overflow test of a difference accepts ranges that wrap: `z = y ? x - y : 5` has the type [1, 5] and
  `z < -2` is folded to false. peep_int.h:99: the inner `overflow` hides the outer one, and the known bits of a difference
  that overflowed are kept; a loop that swaps with a difference (`u = 0; w = 1; while (u != 2) { t = u - w; u = w; w = t; }`) fails
  the forward progress assertion, and where assertions are off pass 1 goes up and down for ever. peep_int.h:103 with constants: `INT_MIN < 1` folds to 0.
* optimizer.c:496: at the widening limit a phi gets the full range, and at its next visit the narrower meet: a region that joins about six
  constants which come alive one at a time fails the forward progress assertion (optimizer.c:1236; the run has one with
  seven, as the exception ForwardProgress makes), as do loops counting down
  from 0 and masked counters (`x = (x + 1) & 7`, in the peepholes' assertion, optimizer.c:1120). A cycle of phis raises the count without any range growing.
* optimizer.c:835: a region that loses a dead input and keeps two is returned as its own replacement: subsume_node2 asserts
  (optimizer.c:717). optimizer.c:905 writes the constant of a double into n instead of k.
* Peepholes: `(x * 3) * 5` fails an assertion (peep_int.h:41); `((x & 1) + (y & 1)) & 1` folds to 0; a 32-bit
  `(x << 24) >> 24` becomes x; `(x >> 1) << 3` becomes a shift by 62; a diamond with one phi fails branches.h:532; `x == x` makes 1, not -1.
  value_lookup has the known bits the wrong way round (optimizer.c:361); the tests of affine_iv are inverted; the dual of a memory slice is a tuple.

* common.c:404: futex_wait_eq reads the counter twice and futex_wait retries for ever with the
  second value (BackendWaitEnds in `BuildSteps` fails for one source).
* ir_gen.c:2154: an external made by a unit that only declares an inline function stays in the table, so that
  each unit that defines the function keeps its body (without InlineInHeaders OneBody fails). ir_gen.c:2110, 2156: the table
  takes `static inline` functions of one name for one: the calls in the second unit reach the first unit's body.
* elf64.c:221: the ELF writer takes the symbol id of a resolved external, which has none
  (UsesLink in `Symbols` fails for `MCElf`).
* threadpool.c:192/219: on Windows destroy releases `thread_count` units on a semaphore of that
  maximum; with one unit left over the call adds none and a sleeping worker is never joined
  (EveryoneWakes fails with `Clamp = TRUE`).
* driver.c:641: the root's own failure is not in `errors`: cuik_step_run returns true after
  a failed export (TrueMeansSuccess in `BuildSteps`).
* driver.c:305: a unit that sema rejects is already in the list that every later irgen walks.
* driver.c:877/894: units destroyed between the two walks of irgen leave its counter above
  zero for ever; more compile steps than ring slots and threads fill the ring and spin.
* threadpool.c:76: the CAS compares the word only. A thread that sleeps between its load and its CAS while exactly 65536
  jobs go by takes a job that was taken, and `jobs_done` is off by one (ImplementsTaskQueue fails for more than UNIT jobs).
* nbhs.h:225, 342: a thread that finds a newer table moves its hazard pointer from slot 4 to slot 0 or 2, while the detacher looks at the slots in
  ascending order: it passes slot 0 before the move and slot 4 after it, and frees a table that the other is about to probe, although
  "no one's referring to it" (nbhs.h:350). It takes a third thread that resizes again (NoUseAfterFree fails for three threads and batches of eight).
* nbhs.h:209: `return k` leaves the hazard pointer; if that thread makes no further call, the
  detacher spins (the one wait CallsProgress allows). nbhs.h:154: after a failed CAS `latest`
  is used before a hazard pointer names it. nbhs.h:254: nbhs_free's size is `1ull * exp`.
* nbhs.h:143: the load is tested only on entry, and never while a migration goes on; nbhs.h:213: a probe that has gone round a full table
  starts again. So a table can fill up before the last batch of the older one is copied: then who inserts and who copies go round it for ever,
  as the migration cannot end and nothing else makes room (CallsProgress fails for two threads, seven keys, a first table of two words and batches of one; with the
  batches of 32 and the first table of 256 words it takes a thread that stops for hundreds of insertions in the middle of its batch).
* elf64.c:209, coff.c:431: relocations of initializers take `symbol_id` without following
  `resolved`; elf64.c:28: private functions have no id there.
* sema.c:1798: a static variable counts as exported: another unit's declaration of the name gets it (without StaticsAreOwn UsesLink
  fails). ir_gen.c:2111: the unit that loses the
  race for an inline function calls a symbol without a body. ir_gen.c:2154: so does the third
  unit to define it. ir_gen.c:505: an external that was never made is dereferenced.
* Preprocessor: text before a guard's #ifndef, an #else of it or a later #undef of its name
  do not undo the guard (cpp_directive.h:353); insert_symtab reuses a tombstone without
  looking further (cpp_symtab.h:12; with `Collide` MatchesReference fails); ## sees an expanded
  left operand; an empty argument leaves a token of type 0; paint is lost when a painted
  token is passed as an argument; an expansion that ends in a function-like name may take
  its parenthesis from the file; the include stack is unchecked (cpp_directive.h:208);
  #else outside #if reads scope_eval[-1]; an unterminated #if is accepted; the number of
  arguments is unchecked; __COUNTER__ never moves.
* ir_gen2.c:742: a return hands on `v.n` instead of the value it computed: returning a variable
  hands on its address. ir_gen2.c:717: returning an aggregate never reaches tb_builder_ret.
  ir_gen2.c:401: compound assignment to a pointer stores through the return address's slot
  (mem_var 1) and fails an assertion. ir_gen2.c:626: statements after a jump read the NULL
  `g->curr`. new_builder.c:489, 552: the tables of a branch, loop or label that stop being
  current are never freed, although tb_builder.c:118 puts them in an arena of their own to free them.
* stmt_parser.h:598: a label takes no statement: as the body of an if it is the whole body.
  stmt_parser.h:143: the end of the file inside a block is never left.
* tb.c:251: destroying a module unlinks a thread's info without its neighbours when the thread
  has infos in two modules. tb.c:511: the test-and-set of the TLS index is inverted.
  symbols.c:8: the symbol iterator keeps its index when it goes to the next thread.
  lattice.h:427: the meet of NaN and a constant is not the greatest lower bound.

## 6. Not modelled, and why

The lexer's tables, formatting, diagnostics, dumps, the command line, file system and
toolchain discovery are I/O or generated data. Instruction selection is tables of
patterns. The experiments (`gccjit.h`, `glsl_parser.h`) are not reached, and the register allocator
rogers_ra.c is unfinished at this commit. Within the
modelled components the following is left out: sys steps and nested link steps (main never
builds them), dependency files, initializers, debug and unwind information in `Symbols`,
#embed, #error, source locations, wide strings and built-in macros in `Cpp`, nbhs_free; tuple nodes
other than branches and the root, renumbering and live sets in `Schedule`; several functional units in
`ListScheduler`; in `ConstProp` the affine loops of value_phi (made by a later pass), bitwise operations, shifts, casts, pointers,
floats and memory, and the peepholes that run before and after it.

## 7. Plan

The twelve runs are all used. Violation runs give way to new passing ones (section 5
keeps the result). Done: threads, build, symbols, preprocessor, statements to
graphs, scheduling, constant propagation. Next, in this order:

1. **Expressions to graphs**: `cg_subexpr` and as_rval over small expressions at C widths, with
   the conversions sema inserts; calls and parameters in `GraphBuilder`.
2. **Peepholes on those graphs**: value numbering, identities, mem2reg, branches and loops over
   `ConstProp`'s graphs; each rewrite keeps the executions of `GraphReference`.
3. **Register allocation**: interference, coalescing, spilling; live values have registers
   of their own.
4. **Front end**: declaration specifiers, declarators, scopes, record layout, conversions.
5. **TB linker, objects, module, arenas, JIT**: symbol resolution over archives, thread-info
   lifetime, save/restore.
6. **Proofs**: when a table of `Nbhs` cannot fill up (RetriesFit) with more keys; lemmas of `MacroTable`; the abstract side of the graph builder.

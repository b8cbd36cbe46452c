------------------------------ MODULE Threadpool ------------------------------
(***************************************************************************)
(* libCuik/lib/threadpool.c: a ring of work slots whose two ends live in   *)
(* one 32-bit atomic word (`queue`: head in the low half, tail in the high *)
(* half), a counter of unfinished jobs, and a semaphore that idle workers  *)
(* sleep on.                                                               *)
(*                                                                         *)
(* A step is one access to shared memory: every load, store, read-modify-  *)
(* write and semaphore call of the code is an action of its own, so all    *)
(* interleavings the atomics allow are explored.  The non-atomic copies of *)
(* a slot are split in two (`fn`, then `arg`), which makes a torn copy     *)
(* visible as a pair whose halves belong to different jobs.                *)
(*                                                                         *)
(* Producers are the threads that call submit(): the driver's main thread, *)
(* and any thread whose job submits more work (irgen).  Between two calls  *)
(* of submit() a producer may call work_one_job(), as step_submit() does.  *)
(***************************************************************************)
EXTENDS Naturals, Sequences, FiniteSets

CONSTANTS
    Workers,     \* threads created by cuik_threadpool_create
    Producers,   \* threads that call threadpool_submit
    Owner,       \* the producer that calls cuik_threadpool_destroy
    NJobs,       \* bound: how many jobs each producer submits
    QSIZE,       \* 1 << QEXP, the number of slots (128 in the code)
    HALF,        \* the overflow bit of the low half (0x8000 in the code)
    SemMax,      \* the largest value of the semaphore
    Clamp        \* TRUE: posting past SemMax fails and adds nothing (Windows)

\* The size of each half of the word: 1 << 16 in the code.
UNIT == 2 * HALF

ASSUME ThreadpoolAssumption ==
    /\ Workers \cap Producers = {} /\ IsFiniteSet(Producers)
    /\ IsFiniteSet(Workers) /\ Workers # {}
    /\ Owner \in Producers
    /\ NJobs \in Nat
    /\ QSIZE \in Nat /\ QSIZE > 1
    /\ HALF \in Nat /\ HALF > 0 /\ HALF % QSIZE = 0
    /\ SemMax \in Nat /\ Cardinality(Workers) <= SemMax
    /\ Clamp \in BOOLEAN

Threads == Workers \cup Producers
Jobs == Producers \X (1 .. NJobs)
NoJob == <<Owner, 0>>
JobOrNone == Jobs \cup {NoJob}

\* A work_t: the function pointer and its argument, written one after the other.
Slot == [fn : JobOrNone, arg : JobOrNone]
EmptySlot == [fn |-> NoJob, arg |-> NoJob]
Word == [head : 0 .. UNIT - 1, tail : 0 .. UNIT - 1]

VARIABLES
    isRunning,   \* threadpool->running
    queue,       \* threadpool->queue
    jobs_done,   \* threadpool->jobs_done: despite its name, the unfinished jobs
    work,        \* threadpool->work
    sem,         \* the semaphore's value
    pc,          \* where each thread is
    save,        \* each thread's private copy of the word (r, *save)
    tmp,         \* each thread's private copy of a slot
    made,        \* how many jobs each producer has begun to submit
    wakes,       \* how many times destroy has posted the semaphore
    submitted,   \* history: the jobs, in the order `queue += 1` published them
    claimed,     \* history: the slot copies, in the order the CAS took them
    finished     \* history: the jobs whose function has returned

vars == <<isRunning, queue, jobs_done, work, sem, pc, save, tmp, made,
          wakes, submitted, claimed, finished>>

-----------------------------------------------------------------------------
\* `queue += 1` is an addition to the whole word: it carries out of the low half.
Commit(q) == IF q.head + 1 = UNIT
             THEN [head |-> 0, tail |-> (q.tail + 1) % UNIT]
             ELSE [q EXCEPT !.head = @ + 1]

\* r & 0x8000, and queue &= ~0x8000
Flagged(q) == q.head >= HALF
\* Mutant of ClearFlag: bit 15 is never cleared.
MutClearFlag(q) == q

ClearFlag(q) == IF Flagged(q) THEN [q EXCEPT !.head = @ - HALF] ELSE q

\* save + 0x10000: the addition wraps at 32 bits, out of the high half.
Advance(q) == [q EXCEPT !.tail = (@ + 1) % UNIT]

HeadSlot(q) == q.head % QSIZE
TailSlot(q) == q.tail % QSIZE

Fits(q) == (HeadSlot(q) + 1) % QSIZE # TailSlot(q)

\* jobs_done is a uint32_t; its values are kept small by NJobs, so only the
\* wrap below zero needs a representation.
Wrapped == Cardinality(Producers) * NJobs + 1
Decrement(n) == IF n = 0 THEN Wrapped ELSE n - 1
Increment(n) == IF n = Wrapped THEN 0 ELSE n + 1

Post(n, s) == IF s + n > SemMax
              THEN IF Clamp THEN s ELSE SemMax
              ELSE s + n

CurrentJob(p) == <<p, made[p]>>

Goto(t, label) == pc' = [pc EXCEPT ![t] = label]

Init ==
    /\ isRunning = TRUE
    /\ queue = [head |-> 0, tail |-> 0]
    /\ jobs_done = 0
    /\ work = [i \in 0 .. QSIZE - 1 |-> EmptySlot]
    /\ sem = Cardinality(Workers)
    /\ pc = [t \in Threads |-> IF t \in Workers THEN "check" ELSE "idle"]
    /\ save = [t \in Threads |-> [head |-> 0, tail |-> 0]]
    /\ tmp = [t \in Threads |-> EmptySlot]
    /\ made = [p \in Producers |-> 0]
    /\ wakes = 0
    /\ submitted = << >>
    /\ claimed = << >>
    /\ finished = {}

-----------------------------------------------------------------------------
history == <<submitted, claimed, finished>>
caller == <<made, wakes>>

(* thread_func                                                             *)

\* while (threadpool->running)
CheckRunning(w) ==
    /\ pc[w] = "check"
    /\ Goto(w, IF isRunning THEN "ask" ELSE "exited")
    /\ UNCHANGED <<isRunning, queue, jobs_done, work, sem, save, tmp, caller, history>>

\* sem_wait, WaitForSingleObjectEx
SemWait(w) ==
    /\ pc[w] = "sleep"
    /\ sem > 0
    /\ sem' = sem - 1
    /\ Goto(w, "check")
    /\ UNCHANGED <<isRunning, queue, jobs_done, work, save, tmp, caller, history>>

-----------------------------------------------------------------------------
(* do_work, called by a worker's loop and by work_one_job                   *)

\* Where a thread goes when do_work returns: a worker naps when it found
\* nothing, a helper goes back to what it was waiting for.
AfterWork(t, empty) == IF t \in Producers THEN "idle"
                       ELSE IF empty THEN "sleep" ELSE "check"

AskForWork(t) ==
    /\ pc[t] = "ask"
    /\ save' = [save EXCEPT ![t] = queue]
    /\ Goto(t, IF HeadSlot(queue) # TailSlot(queue)
               THEN "copy_fn" ELSE AfterWork(t, TRUE))
    /\ UNCHANGED <<isRunning, queue, jobs_done, work, sem, tmp, caller, history>>

CopyFn(t) ==
    /\ pc[t] = "copy_fn"
    /\ tmp' = [tmp EXCEPT ![t].fn = work[TailSlot(save[t])].fn]
    /\ Goto(t, "copy_arg")
    /\ UNCHANGED <<isRunning, queue, jobs_done, work, sem, save, caller, history>>

CopyArg(t) ==
    /\ pc[t] = "copy_arg"
    /\ tmp' = [tmp EXCEPT ![t].arg = work[TailSlot(save[t])].arg]
    /\ Goto(t, "cas")
    /\ UNCHANGED <<isRunning, queue, jobs_done, work, sem, save, caller, history>>

\* Mutant of TakeJob: a plain store of the advanced word instead of the CAS.
MutTakeJob(t) ==
    /\ pc[t] = "cas"
    /\ queue' = Advance(save[t])
    /\ claimed' = Append(claimed, tmp[t])
    /\ Goto(t, "call")
    /\ UNCHANGED <<isRunning, jobs_done, work, sem, save, tmp, caller,
                   submitted, finished>>

\* atomic_compare_exchange_strong(&queue, &save, save + 0x10000)
TakeJob(t) ==
    /\ pc[t] = "cas"
    /\ \/ /\ queue = save[t]
          /\ queue' = Advance(queue)
          /\ claimed' = Append(claimed, tmp[t])
          /\ Goto(t, "call")
       \/ /\ queue # save[t]
          /\ Goto(t, "ask")
          /\ UNCHANGED <<queue, claimed>>
    /\ UNCHANGED <<isRunning, jobs_done, work, sem, save, tmp, caller,
                   submitted, finished>>

\* tmp.fn(tmp.arg)
RunJob(t) ==
    /\ pc[t] = "call"
    /\ finished' = finished \cup {tmp[t].fn}
    /\ Goto(t, "uncount")
    /\ UNCHANGED <<isRunning, queue, jobs_done, work, sem, save, tmp, caller,
                   submitted, claimed>>

\* jobs_done -= 1
UncountJob(t) ==
    /\ pc[t] = "uncount"
    /\ jobs_done' = Decrement(jobs_done)
    /\ Goto(t, AfterWork(t, FALSE))
    /\ UNCHANGED <<isRunning, queue, work, sem, save, tmp, caller, history>>

-----------------------------------------------------------------------------
(* threadpool_submit                                                        *)

BeginSubmit(p) ==
    /\ pc[p] = "idle"
    /\ isRunning
    /\ made[p] < NJobs
    /\ made' = [made EXCEPT ![p] = @ + 1]
    /\ Goto(p, "peek")
    /\ UNCHANGED <<isRunning, queue, jobs_done, work, sem, save, tmp, wakes, history>>

Peek(p) ==
    /\ pc[p] = "peek"
    /\ save' = [save EXCEPT ![p] = queue]
    /\ Goto(p, IF Flagged(queue) THEN "clear"
               ELSE IF Fits(queue) THEN "put_fn" ELSE "peek")
    /\ UNCHANGED <<isRunning, queue, jobs_done, work, sem, tmp, caller, history>>

\* threadpool->queue &= ~0x8000, then the test of the value read before it
AvoidOverflow(p) ==
    /\ pc[p] = "clear"
    /\ queue' = ClearFlag(queue)
    /\ Goto(p, IF Fits(save[p]) THEN "put_fn" ELSE "peek")
    /\ UNCHANGED <<isRunning, jobs_done, work, sem, save, tmp, caller, history>>

PutFn(p) ==
    /\ pc[p] = "put_fn"
    /\ work' = [work EXCEPT ![HeadSlot(save[p])].fn = CurrentJob(p)]
    /\ Goto(p, "put_arg")
    /\ UNCHANGED <<isRunning, queue, jobs_done, sem, save, tmp, caller, history>>

PutArg(p) ==
    /\ pc[p] = "put_arg"
    /\ work' = [work EXCEPT ![HeadSlot(save[p])].arg = CurrentJob(p)]
    /\ Goto(p, "count")
    /\ UNCHANGED <<isRunning, queue, jobs_done, sem, save, tmp, caller, history>>

\* Mutant of CountJob: the job is published without being counted.
MutCountJob(p) ==
    /\ pc[p] = "count"
    /\ Goto(p, "publish")
    /\ UNCHANGED <<isRunning, queue, jobs_done, work, sem, save, tmp, caller, history>>

\* jobs_done += 1
CountJob(p) ==
    /\ pc[p] = "count"
    /\ jobs_done' = Increment(jobs_done)
    /\ Goto(p, "publish")
    /\ UNCHANGED <<isRunning, queue, work, sem, save, tmp, caller, history>>

\* queue += 1
Publish(p) ==
    /\ pc[p] = "publish"
    /\ queue' = Commit(queue)
    /\ submitted' = Append(submitted, CurrentJob(p))
    /\ Goto(p, "post")
    /\ UNCHANGED <<isRunning, jobs_done, work, sem, save, tmp, caller,
                   claimed, finished>>

\* Mutant of SemPost: nobody is woken for the job.
MutSemPost(p) ==
    /\ pc[p] = "post"
    /\ Goto(p, "idle")
    /\ UNCHANGED <<isRunning, queue, jobs_done, work, sem, save, tmp, caller, history>>

SemPost(p) ==
    /\ pc[p] = "post"
    /\ sem' = Post(1, sem)
    /\ Goto(p, "idle")
    /\ UNCHANGED <<isRunning, queue, jobs_done, work, save, tmp, caller, history>>

\* work_one_job, which a waiting caller spins on
WorkOneJob(p) ==
    /\ pc[p] = "idle"
    /\ isRunning
    /\ Goto(p, "ask")
    /\ UNCHANGED <<isRunning, queue, jobs_done, work, sem, save, tmp, caller, history>>

-----------------------------------------------------------------------------
(* cuik_threadpool_destroy: main calls it when the build step it ran is     *)
(* over, that is when every producer has waited for the jobs it submitted   *)

CallersDone ==
    /\ \A p \in Producers : pc[p] = "idle" /\ made[p] = NJobs
    /\ Jobs \subseteq finished

StopRunning ==
    /\ CallersDone
    /\ isRunning
    /\ isRunning' = FALSE
    /\ Goto(Owner, "wake")
    /\ UNCHANGED <<queue, jobs_done, work, sem, save, tmp, caller, history>>

\* Mutant of WakeEveryone: the loop runs once too often (<=).
MutWakeTooMany ==
    /\ pc[Owner] = "wake"
    /\ sem' = Post(1, sem)
    /\ wakes' = wakes + 1
    /\ Goto(Owner, IF wakes' > Cardinality(Workers) THEN "join" ELSE "wake")
    /\ UNCHANGED <<isRunning, queue, jobs_done, work, save, tmp, made, history>>

\* Mutant of WakeEveryone: the loop ends one worker too early.
MutWakeTooFew ==
    /\ pc[Owner] = "wake"
    /\ IF wakes + 1 < Cardinality(Workers)
       THEN sem' = Post(1, sem) /\ wakes' = wakes + 1 /\ Goto(Owner, "wake")
       ELSE Goto(Owner, "join") /\ UNCHANGED <<sem, wakes>>
    /\ UNCHANGED <<isRunning, queue, jobs_done, work, save, tmp, made, history>>

\* POSIX posts once per worker in a loop, Windows releases them in one call.
WakeEveryone ==
    /\ pc[Owner] = "wake"
    /\ LET n == IF Clamp THEN Cardinality(Workers) ELSE 1
       IN  /\ sem' = Post(n, sem)
           /\ wakes' = wakes + n
    /\ Goto(Owner, IF wakes' = Cardinality(Workers) THEN "join" ELSE "wake")
    /\ UNCHANGED <<isRunning, queue, jobs_done, work, save, tmp, made, history>>

JoinAll ==
    /\ pc[Owner] = "join"
    /\ \A w \in Workers : pc[w] = "exited"
    /\ Goto(Owner, "freed")
    /\ UNCHANGED <<isRunning, queue, jobs_done, work, sem, save, tmp, caller, history>>

Destroy == StopRunning \/ WakeEveryone \/ JoinAll

-----------------------------------------------------------------------------
DoWork(t) == \/ AskForWork(t) \/ CopyFn(t) \/ CopyArg(t) \/ TakeJob(t)
             \/ RunJob(t) \/ UncountJob(t)

Worker(w) == CheckRunning(w) \/ SemWait(w) \/ DoWork(w)

Submit(p) == \/ BeginSubmit(p) \/ Peek(p) \/ AvoidOverflow(p) \/ PutFn(p)
             \/ PutArg(p) \/ CountJob(p) \/ Publish(p) \/ SemPost(p)

Producer(p) == Submit(p) \/ WorkOneJob(p) \/ DoWork(p)

\* The pool is gone and its callers with it: nothing is left to do.
Terminated ==
    /\ pc[Owner] = "freed"
    /\ UNCHANGED vars

Next ==
    \/ \E w \in Workers : Worker(w)
    \/ \E p \in Producers : Producer(p)
    \/ Destroy
    \/ Terminated

Spec == Init /\ [][Next]_vars

\* The operating system runs every thread that can run: no worker or producer
\* is suspended for ever between two instructions.
Fairness ==
    /\ \A w \in Workers : WF_vars(Worker(w))
    /\ \A p \in Producers : WF_vars(Submit(p)) /\ WF_vars(DoWork(p))
    /\ WF_vars(Destroy)

FairSpec == Spec /\ Fairness

-----------------------------------------------------------------------------
(* Properties                                                               *)

TypeOK ==
    /\ isRunning \in BOOLEAN
    /\ queue \in Word
    /\ jobs_done \in 0 .. Wrapped
    /\ work \in [0 .. QSIZE - 1 -> Slot]
    /\ sem \in 0 .. SemMax
    /\ pc \in [Threads -> {"check", "sleep", "exited", "ask", "copy_fn", "copy_arg",
                           "cas", "call", "uncount", "idle", "peek", "clear", "put_fn",
                           "put_arg", "count", "publish", "post", "wake", "join", "freed"}]
    /\ save \in [Threads -> Word]
    /\ tmp \in [Threads -> Slot]
    /\ made \in [Producers -> 0 .. NJobs]
    /\ wakes \in 0 .. Cardinality(Workers)
    /\ submitted \in Seq(Jobs)
    /\ claimed \in Seq(Slot)
    /\ finished \subseteq JobOrNone

WholeCopy(j) == [fn |-> j, arg |-> j]

\* "runs the function fn with arg as the parameter on a thread" (cuik.h:25):
\* what a thread takes off the ring and calls is one submitted job with its
\* own argument, never a half-written slot, and no job is taken twice.
RunsWhatWasSubmitted ==
    /\ \A i \in 1 .. Len(claimed) : \E j \in Jobs : claimed[i] = WholeCopy(j)
    /\ \A i, k \in 1 .. Len(claimed) : claimed[i] = claimed[k] => i = k

\* threadpool_wait() returns when jobs_done is 0: then every job whose
\* submission was published has returned. The counter therefore goes up before
\* the job is visible and down after it ran, and it never wraps below zero.
ZeroMeansAllReturned ==
    /\ jobs_done # Wrapped
    /\ jobs_done = 0 => \A i \in 1 .. Len(submitted) : submitted[i] \in finished

\* No wakeup is lost: while a job is waiting on the ring and its producer has
\* posted, the workers cannot all be asleep on a semaphore of value zero (or gone).
NoLostWakeup ==
    (/\ isRunning
     /\ HeadSlot(queue) # TailSlot(queue)
     /\ \A p \in Producers : pc[p] # "post")
    => sem > 0 \/ \E w \in Workers : pc[w] \notin {"sleep", "exited"}

\* Every job handed to submit() is eventually run to its end.
EveryJobReturns ==
    \A j \in Jobs : (\E i \in 1 .. Len(submitted) : submitted[i] = j) ~> j \in finished

\* Once destroy has posted ("wake everyone", threadpool.c:227) every worker
\* leaves its loop, so that the joins return.
EveryoneWakes == (pc[Owner] = "join") ~> (\A w \in Workers : pc[w] = "exited")

\* The pool implements the abstract queue: a job is pending from `queue += 1`
\* to the CAS, and running from the CAS to the return of its function.
Abstract == INSTANCE TaskQueue WITH
    Capacity <- QSIZE - 1,
    pending <- SubSeq(submitted, Len(claimed) + 1, Len(submitted)),
    running <- {claimed[i].fn : i \in 1 .. Len(claimed)} \ finished

ImplementsTaskQueue == Abstract!Spec
=============================================================================

-------------------------- MODULE ThreadpoolProofs --------------------------
(***************************************************************************)
(* Theorems about Threadpool, for any number of workers, producers and     *)
(* jobs, any ring size and either kind of semaphore:                       *)
(*   - the state stays well typed,                                         *)
(*   - no wakeup is lost, and                                              *)
(*   - with one submitter the ring is a queue (second part).               *)
(* The inductive invariant adds to TypeOK what the types alone do not say: *)
(* a producer inside submit() has begun at least one job (so CurrentJob is *)
(* a job), a thread copies a slot only of a ring it saw non-empty (so the  *)
(* CAS cannot turn an empty ring into one that looks full), and destroy    *)
(* posts the semaphore no more than once per worker.                       *)
(***************************************************************************)
EXTENDS Threadpool, FiniteSetTheorems, SequenceTheorems, TLAPS

InSubmit == {"peek", "clear", "put_fn", "put_arg", "count", "publish", "post"}

\* What the types leave out: see the module's comment.
Shape ==
    /\ \A w \in Workers : pc[w] \notin InSubmit \cup {"idle", "wake", "join", "freed"}
    /\ \A w \in Workers : isRunning => pc[w] # "exited"
    /\ \A p \in Producers : pc[p] \notin {"check", "sleep", "exited"}
    /\ \A p \in Producers : pc[p] \in InSubmit => made[p] > 0
    /\ \A t \in Threads : pc[t] \in {"copy_fn", "copy_arg", "cas"} =>
                             HeadSlot(save[t]) # TailSlot(save[t])
    /\ isRunning => wakes = 0 /\ pc[Owner] \notin {"wake", "join", "freed"}
    /\ pc[Owner] = "wake" => /\ wakes < Cardinality(Workers)
                             /\ Clamp => wakes = 0

\* The inductive invariant.
IInv == TypeOK /\ Shape

-----------------------------------------------------------------------------
(* The word                                                                 *)

\* What the assumptions say of the sizes.
LEMMA Sizes ==
    /\ QSIZE \in Nat /\ QSIZE > 1
    /\ HALF \in Nat /\ HALF > 0
    /\ UNIT \in Nat /\ UNIT > HALF /\ UNIT = HALF + HALF
    /\ Cardinality(Workers) \in Nat /\ Cardinality(Workers) > 0
    /\ Cardinality(Workers) <= SemMax /\ SemMax \in Nat
    /\ Wrapped \in Nat /\ Wrapped > 0
  <1>1. Cardinality(Workers) \in Nat /\ Cardinality(Producers) \in Nat
    BY ThreadpoolAssumption, FS_CardinalityType
  <1>2. Cardinality(Workers) # 0
    BY ThreadpoolAssumption, FS_EmptySet
  <1>3. Wrapped \in Nat /\ Wrapped > 0
    <2>1. Cardinality(Producers) * NJobs \in Nat
      BY <1>1, ThreadpoolAssumption
    <2> QED
      BY <2>1 DEF Wrapped
  <1> QED
    BY <1>1, <1>2, <1>3, ThreadpoolAssumption DEF UNIT

\* A number's remainder, from its quotient and remainder.
LEMMA Remainder ==
    ASSUME NEW m \in Nat, m > 0, NEW k \in Nat, NEW r \in 0 .. m - 1
    PROVE  (m * k + r) % m = r
  OBVIOUS

\* Subtracting a multiple of the modulus does not change the remainder.
LEMMA SubtractMultiple ==
    ASSUME NEW a \in Nat, NEW h \in Nat, NEW m \in Nat, m > 0, h % m = 0, h <= a
    PROVE  (a - h) % m = a % m
  <1> DEFINE i == (a - h) \div m
             k == h \div m
             r == (a - h) % m
  <1>0. a - h \in Nat
    OBVIOUS
  <1>1. a - h = m * i + r /\ i \in Nat /\ r \in 0 .. m - 1
    BY <1>0
  <1>2. h = m * k /\ k \in Nat
    OBVIOUS
  <1> HIDE DEF i, k, r
  <1>3. a = m * (i + k) + r /\ i + k \in Nat
    BY <1>1, <1>2
  <1>4. (m * (i + k) + r) % m = r
    BY <1>1, <1>3, Remainder
  <1> QED
    BY <1>3, <1>4 DEF r

\* The helpers on the word map words to words, and clearing bit 15 does not
\* move the head: HALF is a multiple of the ring's size.
LEMMA WordOps ==
    ASSUME NEW q \in Word
    PROVE  /\ Commit(q) \in Word
           /\ ClearFlag(q) \in Word
           /\ Advance(q) \in Word
           /\ HeadSlot(q) \in 0 .. QSIZE - 1
           /\ TailSlot(q) \in 0 .. QSIZE - 1
           /\ HeadSlot(ClearFlag(q)) = HeadSlot(q)
           /\ TailSlot(ClearFlag(q)) = TailSlot(q)
  <1>1. q.head \in 0 .. UNIT - 1 /\ q.tail \in 0 .. UNIT - 1
    BY DEF Word
  <1>2. (q.tail + 1) % UNIT \in 0 .. UNIT - 1
    BY <1>1, Sizes
  <1>3. Commit(q) \in Word /\ Advance(q) \in Word /\ ClearFlag(q) \in Word
    BY <1>1, <1>2, Sizes DEF Word, Commit, Advance, ClearFlag, Flagged
  <1>4. HeadSlot(q) \in 0 .. QSIZE - 1 /\ TailSlot(q) \in 0 .. QSIZE - 1
    BY <1>1, Sizes DEF HeadSlot, TailSlot
  <1>5. TailSlot(ClearFlag(q)) = TailSlot(q)
    BY <1>1, Sizes DEF TailSlot, ClearFlag, Flagged, Word
  <1>6. ASSUME q.head >= HALF
        PROVE  (q.head - HALF) % QSIZE = q.head % QSIZE
    <2>1. /\ q.head \in Nat /\ HALF \in Nat /\ QSIZE \in Nat /\ QSIZE > 0
          /\ HALF % QSIZE = 0 /\ HALF <= q.head
      BY <1>1, <1>6, Sizes, ThreadpoolAssumption
    <2> QED
      BY <2>1, SubtractMultiple, Zenon
  <1>7. HeadSlot(ClearFlag(q)) = HeadSlot(q)
    BY <1>1, <1>6, Sizes DEF HeadSlot, ClearFlag, Flagged, Word
  <1> QED
    BY <1>3, <1>4, <1>5, <1>7

-----------------------------------------------------------------------------
(* The invariant                                                            *)

\* Where a thread goes is a label, and the labels of workers and producers differ.
LEMMA Labels ==
    /\ Threads = Workers \cup Producers
    /\ \A t \in Threads : t \in Workers <=> t \notin Producers
    /\ Owner \in Producers /\ Owner \in Threads /\ Owner \notin Workers
  BY ThreadpoolAssumption DEF Threads

\* A producer's n-th job is a job, and an empty slot is a slot.
LEMMA JobTypes ==
    /\ NoJob \in JobOrNone
    /\ EmptySlot \in Slot
    /\ Jobs \subseteq JobOrNone
    /\ \A p \in Producers : \A n \in 1 .. NJobs : <<p, n>> \in Jobs
  BY DEF NoJob, JobOrNone, EmptySlot, Slot, Jobs

\* The initial states satisfy the invariant.
LEMMA InvariantInit == Init => IInv
  <1> SUFFICES ASSUME Init PROVE IInv
    OBVIOUS
  <1>1. [head |-> 0, tail |-> 0] \in Word
    BY Sizes DEF Word
  <1>2. TypeOK
    BY <1>1, Sizes, Labels, JobTypes, ThreadpoolAssumption DEF Init, TypeOK
  <1>3. Shape
    BY Labels, Sizes DEF Init, Shape, InSubmit
  <1> QED
    BY <1>2, <1>3 DEF IInv

\* A step of the pool keeps the invariant.
LEMMA InvariantStep == IInv /\ [Next]_vars => IInv'
  <1> SUFFICES ASSUME IInv, [Next]_vars PROVE IInv'
    OBVIOUS
  <1> USE DEF IInv
  <1>1. ASSUME NEW w \in Workers, CheckRunning(w) PROVE IInv'
    <2>1. TypeOK'
      BY <1>1, Labels, Sizes, ThreadpoolAssumption DEF CheckRunning, Goto, caller, history, TypeOK, Shape, InSubmit, Slot
    <2>2. Shape'
      BY <1>1, Labels, Sizes DEF CheckRunning, Goto, caller, history, TypeOK, Shape, InSubmit
    <2> QED
      BY <2>1, <2>2
  <1>2. ASSUME NEW w \in Workers, SemWait(w) PROVE IInv'
    <2>1. TypeOK'
      BY <1>2, Labels, Sizes, ThreadpoolAssumption DEF SemWait, Goto, caller, history, TypeOK, Shape, InSubmit, Slot
    <2>2. Shape'
      BY <1>2, Labels, Sizes DEF SemWait, Goto, caller, history, TypeOK, Shape, InSubmit
    <2> QED
      BY <2>1, <2>2
  <1>3. ASSUME NEW t \in Threads, AskForWork(t) PROVE IInv'
    <2>1. TypeOK'
      BY <1>3, Labels, Sizes, ThreadpoolAssumption DEF AskForWork, Goto, AfterWork, caller, history, TypeOK, Shape, InSubmit, Slot
    <2>2. Shape'
      BY <1>3, Labels, Sizes DEF AskForWork, Goto, AfterWork, caller, history, TypeOK, Shape, InSubmit
    <2> QED
      BY <2>1, <2>2
  <1>4. ASSUME NEW t \in Threads, CopyFn(t) PROVE IInv'
    <2>4. work[TailSlot(save[t])] \in Slot
      BY <1>4, WordOps DEF TypeOK
    <2>3. tmp' \in [Threads -> Slot]
      BY <1>4, <2>4 DEF CopyFn, TypeOK, Slot
    <2>1. TypeOK'
      BY <1>4, <2>3, Labels, Sizes, ThreadpoolAssumption DEF CopyFn, Goto, caller, history, TypeOK
    <2>2. Shape'
      BY <1>4, Labels, Sizes DEF CopyFn, Goto, caller, history, TypeOK, Shape, InSubmit
    <2> QED
      BY <2>1, <2>2
  <1>5. ASSUME NEW t \in Threads, CopyArg(t) PROVE IInv'
    <2>4. work[TailSlot(save[t])] \in Slot
      BY <1>5, WordOps DEF TypeOK
    <2>3. tmp' \in [Threads -> Slot]
      BY <1>5, <2>4 DEF CopyArg, TypeOK, Slot
    <2>1. TypeOK'
      BY <1>5, <2>3, Labels, Sizes, ThreadpoolAssumption DEF CopyArg, Goto, caller, history, TypeOK
    <2>2. Shape'
      BY <1>5, Labels, Sizes DEF CopyArg, Goto, caller, history, TypeOK, Shape, InSubmit
    <2> QED
      BY <2>1, <2>2
  <1>6. ASSUME NEW t \in Threads, TakeJob(t) PROVE IInv'
    <2>4. Advance(queue) \in Word
      BY <1>6, WordOps DEF TypeOK
    <2>5. Append(claimed, tmp[t]) \in Seq(Slot)
      BY DEF TypeOK
    <2>3. queue' \in Word /\ claimed' \in Seq(Slot)
      BY <1>6, <2>4, <2>5 DEF TakeJob, TypeOK
    <2>1. TypeOK'
      BY <1>6, <2>3, Labels, Sizes, ThreadpoolAssumption DEF TakeJob, Goto, caller, history, TypeOK
    <2>2. Shape'
      BY <1>6, Labels, Sizes DEF TakeJob, Goto, caller, history, TypeOK, Shape, InSubmit
    <2> QED
      BY <2>1, <2>2
  <1>7. ASSUME NEW t \in Threads, RunJob(t) PROVE IInv'
    <2>1. TypeOK'
      BY <1>7, Labels, Sizes, ThreadpoolAssumption DEF RunJob, Goto, caller, history, TypeOK, Shape, InSubmit, Slot
    <2>2. Shape'
      BY <1>7, Labels, Sizes DEF RunJob, Goto, caller, history, TypeOK, Shape, InSubmit
    <2> QED
      BY <2>1, <2>2
  <1>8. ASSUME NEW t \in Threads, UncountJob(t) PROVE IInv'
    <2>1. TypeOK'
      BY <1>8, Labels, Sizes, ThreadpoolAssumption DEF UncountJob, Goto, AfterWork, Decrement, caller, history, TypeOK, Shape, InSubmit, Slot
    <2>2. Shape'
      BY <1>8, Labels, Sizes DEF UncountJob, Goto, AfterWork, Decrement, caller, history, TypeOK, Shape, InSubmit
    <2> QED
      BY <2>1, <2>2
  <1>9. ASSUME NEW p \in Producers, BeginSubmit(p) PROVE IInv'
    <2>1. TypeOK'
      BY <1>9, Labels, Sizes, ThreadpoolAssumption DEF BeginSubmit, Goto, caller, history, TypeOK, Shape, InSubmit, Slot
    <2>2. Shape'
      BY <1>9, Labels, Sizes DEF BeginSubmit, Goto, caller, history, TypeOK, Shape, InSubmit
    <2> QED
      BY <2>1, <2>2
  <1>10. ASSUME NEW p \in Producers, Peek(p) PROVE IInv'
    <2>1. TypeOK'
      BY <1>10, Labels, Sizes, ThreadpoolAssumption DEF Peek, Goto, caller, history, TypeOK, Shape, InSubmit, Slot
    <2>2. Shape'
      BY <1>10, Labels, Sizes DEF Peek, Goto, caller, history, TypeOK, Shape, InSubmit
    <2> QED
      BY <2>1, <2>2
  <1>11. ASSUME NEW p \in Producers, AvoidOverflow(p) PROVE IInv'
    <2>1. TypeOK'
      BY <1>11, WordOps, Labels, Sizes, ThreadpoolAssumption DEF AvoidOverflow, Goto, caller, history, TypeOK, Shape, InSubmit, Slot
    <2>2. Shape'
      BY <1>11, Labels, Sizes DEF AvoidOverflow, Goto, caller, history, TypeOK, Shape, InSubmit
    <2> QED
      BY <2>1, <2>2
  <1>12. ASSUME NEW p \in Producers, PutFn(p) PROVE IInv'
    <2>4. CurrentJob(p) \in JobOrNone
      BY <1>12, JobTypes, Labels, Sizes, ThreadpoolAssumption DEF PutFn, CurrentJob, TypeOK, Shape, InSubmit
    <2>3. work' \in [0 .. QSIZE - 1 -> Slot]
      BY <1>12, <2>4 DEF PutFn, TypeOK, Slot
    <2>1. TypeOK'
      BY <1>12, <2>3, Labels, Sizes, ThreadpoolAssumption DEF PutFn, Goto, caller, history, TypeOK
    <2>2. Shape'
      BY <1>12, Labels, Sizes DEF PutFn, Goto, CurrentJob, caller, history, TypeOK, Shape, InSubmit
    <2> QED
      BY <2>1, <2>2
  <1>13. ASSUME NEW p \in Producers, PutArg(p) PROVE IInv'
    <2>4. CurrentJob(p) \in JobOrNone
      BY <1>13, JobTypes, Labels, Sizes, ThreadpoolAssumption DEF PutArg, CurrentJob, TypeOK, Shape, InSubmit
    <2>3. work' \in [0 .. QSIZE - 1 -> Slot]
      BY <1>13, <2>4 DEF PutArg, TypeOK, Slot
    <2>1. TypeOK'
      BY <1>13, <2>3, Labels, Sizes, ThreadpoolAssumption DEF PutArg, Goto, caller, history, TypeOK
    <2>2. Shape'
      BY <1>13, Labels, Sizes DEF PutArg, Goto, CurrentJob, caller, history, TypeOK, Shape, InSubmit
    <2> QED
      BY <2>1, <2>2
  <1>14. ASSUME NEW p \in Producers, CountJob(p) PROVE IInv'
    <2>1. TypeOK'
      BY <1>14, Labels, Sizes, ThreadpoolAssumption DEF CountJob, Goto, Increment, caller, history, TypeOK, Shape, InSubmit, Slot
    <2>2. Shape'
      BY <1>14, Labels, Sizes DEF CountJob, Goto, Increment, caller, history, TypeOK, Shape, InSubmit
    <2> QED
      BY <2>1, <2>2
  <1>15. ASSUME NEW p \in Producers, Publish(p) PROVE IInv'
    <2>1. TypeOK'
      BY <1>15, WordOps, JobTypes, Labels, Sizes, ThreadpoolAssumption DEF Publish, Goto, CurrentJob, caller, history, TypeOK, Shape, InSubmit, Slot
    <2>2. Shape'
      BY <1>15, Labels, Sizes DEF Publish, Goto, CurrentJob, caller, history, TypeOK, Shape, InSubmit
    <2> QED
      BY <2>1, <2>2
  <1>16. ASSUME NEW p \in Producers, SemPost(p) PROVE IInv'
    <2>1. TypeOK'
      BY <1>16, Labels, Sizes, ThreadpoolAssumption DEF SemPost, Goto, Post, caller, history, TypeOK, Shape, InSubmit, Slot
    <2>2. Shape'
      BY <1>16, Labels, Sizes DEF SemPost, Goto, Post, caller, history, TypeOK, Shape, InSubmit
    <2> QED
      BY <2>1, <2>2
  <1>17. ASSUME NEW p \in Producers, WorkOneJob(p) PROVE IInv'
    <2>1. TypeOK'
      BY <1>17, Labels, Sizes, ThreadpoolAssumption DEF WorkOneJob, Goto, caller, history, TypeOK, Shape, InSubmit, Slot
    <2>2. Shape'
      BY <1>17, Labels, Sizes DEF WorkOneJob, Goto, caller, history, TypeOK, Shape, InSubmit
    <2> QED
      BY <2>1, <2>2
  <1>18. ASSUME StopRunning PROVE IInv'
    <2>1. TypeOK'
      BY <1>18, Labels, Sizes, ThreadpoolAssumption DEF StopRunning, Goto, caller, history, TypeOK, Shape, InSubmit, Slot
    <2>2. Shape'
      BY <1>18, Labels, Sizes DEF StopRunning, Goto, caller, history, TypeOK, Shape, InSubmit
    <2> QED
      BY <2>1, <2>2
  <1>19. ASSUME WakeEveryone PROVE IInv'
    <2>1. TypeOK'
      BY <1>19, Labels, Sizes, ThreadpoolAssumption DEF WakeEveryone, Goto, Post, caller, history, TypeOK, Shape, InSubmit, Slot
    <2>2. Shape'
      BY <1>19, Labels, Sizes DEF WakeEveryone, Goto, Post, caller, history, TypeOK, Shape, InSubmit
    <2> QED
      BY <2>1, <2>2
  <1>20. ASSUME JoinAll PROVE IInv'
    <2>1. TypeOK'
      BY <1>20, Labels, Sizes, ThreadpoolAssumption DEF JoinAll, Goto, caller, history, TypeOK, Shape, InSubmit, Slot
    <2>2. Shape'
      BY <1>20, Labels, Sizes DEF JoinAll, Goto, caller, history, TypeOK, Shape, InSubmit
    <2> QED
      BY <2>1, <2>2
  <1>21. CASE UNCHANGED vars
    BY <1>21 DEF vars, TypeOK, Shape
  <1> QED
    BY <1>1, <1>2, <1>3, <1>4, <1>5, <1>6, <1>7, <1>8, <1>9, <1>10, <1>11, <1>12, <1>13, <1>14, <1>15, <1>16, <1>17, <1>18, <1>19, <1>20, <1>21, Labels
    DEF Next, Worker, Producer, Submit, DoWork, Destroy, Terminated

\* The state of the pool is always well typed: the halves of the word stay in
\* range, the counter does not leave uint32_t, what is published are jobs.
THEOREM TypeCorrect == Spec => []TypeOK
  <1>1. IInv => TypeOK
    BY DEF IInv
  <1> QED
    BY InvariantInit, InvariantStep, <1>1, PTL DEF Spec

-----------------------------------------------------------------------------
(* No lost wakeup                                                           *)

\* A step never leaves a posted job with every worker asleep on an empty
\* semaphore. A worker goes to sleep only in the step that saw the ring empty;
\* a job becomes visible only with its producer about to post, and a post
\* leaves the semaphore above zero, whether or not it is clamped.
LEMMA WakeupStep == IInv /\ NoLostWakeup /\ [Next]_vars => NoLostWakeup'
  <1> SUFFICES ASSUME IInv, NoLostWakeup, [Next]_vars PROVE NoLostWakeup'
    OBVIOUS
  <1> USE DEF IInv, NoLostWakeup
  <1>1. ASSUME NEW w \in Workers, CheckRunning(w) PROVE NoLostWakeup'
    BY <1>1, Labels, Sizes DEF CheckRunning, Goto, caller, history, TypeOK, Shape, InSubmit
  <1>2. ASSUME NEW w \in Workers, SemWait(w) PROVE NoLostWakeup'
    BY <1>2, Labels, Sizes DEF SemWait, Goto, caller, history, TypeOK, Shape, InSubmit
  <1>3. ASSUME NEW t \in Threads, AskForWork(t) PROVE NoLostWakeup'
    BY <1>3, Labels, Sizes DEF AskForWork, Goto, AfterWork, caller, history, TypeOK, Shape, InSubmit
  <1>4. ASSUME NEW t \in Threads, CopyFn(t) PROVE NoLostWakeup'
    BY <1>4, Labels, Sizes DEF CopyFn, Goto, caller, history, TypeOK, Shape, InSubmit
  <1>5. ASSUME NEW t \in Threads, CopyArg(t) PROVE NoLostWakeup'
    BY <1>5, Labels, Sizes DEF CopyArg, Goto, caller, history, TypeOK, Shape, InSubmit
  <1>6. ASSUME NEW t \in Threads, TakeJob(t) PROVE NoLostWakeup'
    BY <1>6, Labels, Sizes DEF TakeJob, Goto, caller, history, TypeOK, Shape, InSubmit
  <1>7. ASSUME NEW t \in Threads, RunJob(t) PROVE NoLostWakeup'
    BY <1>7, Labels, Sizes DEF RunJob, Goto, caller, history, TypeOK, Shape, InSubmit
  <1>8. ASSUME NEW t \in Threads, UncountJob(t) PROVE NoLostWakeup'
    BY <1>8, Labels, Sizes DEF UncountJob, Goto, AfterWork, Decrement, caller, history, TypeOK, Shape, InSubmit
  <1>9. ASSUME NEW p \in Producers, BeginSubmit(p) PROVE NoLostWakeup'
    BY <1>9, Labels, Sizes DEF BeginSubmit, Goto, caller, history, TypeOK, Shape, InSubmit
  <1>10. ASSUME NEW p \in Producers, Peek(p) PROVE NoLostWakeup'
    BY <1>10, Labels, Sizes DEF Peek, Goto, caller, history, TypeOK, Shape, InSubmit
  <1>11. ASSUME NEW p \in Producers, AvoidOverflow(p) PROVE NoLostWakeup'
    BY <1>11, WordOps, Labels, Sizes DEF AvoidOverflow, Goto, caller, history, TypeOK, Shape, InSubmit
  <1>12. ASSUME NEW p \in Producers, PutFn(p) PROVE NoLostWakeup'
    BY <1>12, Labels, Sizes DEF PutFn, Goto, caller, history, TypeOK, Shape, InSubmit
  <1>13. ASSUME NEW p \in Producers, PutArg(p) PROVE NoLostWakeup'
    BY <1>13, Labels, Sizes DEF PutArg, Goto, caller, history, TypeOK, Shape, InSubmit
  <1>14. ASSUME NEW p \in Producers, CountJob(p) PROVE NoLostWakeup'
    BY <1>14, Labels, Sizes DEF CountJob, Goto, Increment, caller, history, TypeOK, Shape, InSubmit
  <1>15. ASSUME NEW p \in Producers, Publish(p) PROVE NoLostWakeup'
    BY <1>15, Labels, Sizes DEF Publish, Goto, caller, history, TypeOK, Shape, InSubmit
  <1>16. ASSUME NEW p \in Producers, SemPost(p) PROVE NoLostWakeup'
    BY <1>16, Labels, Sizes DEF SemPost, Goto, Post, caller, history, TypeOK, Shape, InSubmit
  <1>17. ASSUME NEW p \in Producers, WorkOneJob(p) PROVE NoLostWakeup'
    BY <1>17, Labels, Sizes DEF WorkOneJob, Goto, caller, history, TypeOK, Shape, InSubmit
  <1>18. ASSUME StopRunning PROVE NoLostWakeup'
    BY <1>18, Labels, Sizes DEF StopRunning, Goto, caller, history, TypeOK, Shape, InSubmit
  <1>19. ASSUME WakeEveryone PROVE NoLostWakeup'
    BY <1>19, Labels, Sizes DEF WakeEveryone, Goto, Post, caller, history, TypeOK, Shape, InSubmit
  <1>20. ASSUME JoinAll PROVE NoLostWakeup'
    BY <1>20, Labels, Sizes DEF JoinAll, Goto, caller, history, TypeOK, Shape, InSubmit
  <1>21. CASE UNCHANGED vars
    BY <1>21 DEF vars
  <1> QED
    BY <1>1, <1>2, <1>3, <1>4, <1>5, <1>6, <1>7, <1>8, <1>9, <1>10, <1>11, <1>12, <1>13, <1>14, <1>15, <1>16, <1>17, <1>18, <1>19, <1>20, <1>21, Labels
    DEF Next, Worker, Producer, Submit, DoWork, Destroy, Terminated

\* While a job waits on the ring and its producer has posted, a worker is awake
\* or will be: threadpool_submit's post and thread_func's nap never miss.
THEOREM WakeupsKept == Spec => []NoLostWakeup
  <1>1. Init => NoLostWakeup
    BY Labels, Sizes DEF Init, NoLostWakeup
  <1> QED
    BY InvariantInit, InvariantStep, WakeupStep, <1>1, PTL DEF Spec

-----------------------------------------------------------------------------
(***************************************************************************)
(* The ring.  As long as one thread submits, Threadpool keeps what its     *)
(* interface promises: it implements TaskQueue, every call runs one        *)
(* submitted job with its own argument, and a job counter of zero means    *)
(* that all have returned; for any number of workers that take jobs.       *)
(*                                                                         *)
(* Both hypotheses are needed. With two submitters a job is lost (run      *)
(* threadpool_two_producers). And the CAS compares a word whose tail       *)
(* comes round after UNIT = 65536 jobs: a thread that sleeps that long     *)
(* between its load and its CAS would take a job twice.                    *)
(***************************************************************************)

OneSubmitter == Producers = {Owner} /\ NJobs <= UNIT

\* How many jobs are published and taken, and the i-th of them.
Published == Len(submitted)
Taken == Len(claimed)
Job(i) == <<Owner, i>>

Copying == {"copy_fn", "copy_arg", "cas"}
Writing == {"put_fn", "put_arg", "count", "publish"}
Busy(t) == pc[t] \in {"call", "uncount"}

\* Jobs are published in the order in which they are made.
InOrder ==
    /\ Published = IF pc[Owner] \in InSubmit \ {"post"} THEN made[Owner] - 1 ELSE made[Owner]
    /\ \A i \in 1 .. Published : submitted[i] = Job(i)

\* The word: its tail is the number of jobs taken, its head the slot of the next job.
WordCounts ==
    /\ queue.tail = Taken % UNIT
    /\ HeadSlot(queue) = Published % QSIZE
    /\ Taken <= Published /\ Published - Taken <= QSIZE - 1
    /\ queue.head <= HALF
    /\ pc[Owner] \in Writing => queue.head < HALF

\* The submitter has found room for its job, at the head.
Room ==
    /\ pc[Owner] \in Writing \cup {"clear"} => HeadSlot(save[Owner]) = Published % QSIZE
    /\ pc[Owner] \in Writing => Published - Taken <= QSIZE - 2
    /\ pc[Owner] = "clear" /\ Fits(save[Owner]) => Published - Taken <= QSIZE - 2
    /\ pc[Owner] = "put_arg" => work[Published % QSIZE].fn = Job(Published + 1)
    /\ pc[Owner] \in {"count", "publish"} =>
         work[Published % QSIZE] = WholeCopy(Job(Published + 1))

\* The slots between tail and head.
SlotsHold == \A i \in Taken .. Published - 1 : work[i % QSIZE] = WholeCopy(Job(i + 1))

\* A copy that the CAS may still accept is one of the job at the tail.
CopiesFresh ==
    \A t \in Threads : pc[t] \in Copying =>
        /\ save[t].tail <= Taken /\ save[t].tail < Published
        /\ save[t].tail = Taken =>
             /\ pc[t] = "copy_arg" => tmp[t].fn = Job(Taken + 1)
             /\ pc[t] = "cas" => tmp[t] = WholeCopy(Job(Taken + 1))

\* What is taken is run, once, by the thread that took it.
TakenOnce ==
    /\ \A i \in 1 .. Taken : claimed[i] = WholeCopy(Job(i))
    /\ \A t \in Threads : Busy(t) => \E i \in 1 .. Taken : tmp[t].fn = Job(i)
    /\ \A t, u \in Threads : Busy(t) /\ Busy(u) /\ tmp[t].fn = tmp[u].fn => t = u
    /\ \A t \in Threads : pc[t] = "call" => tmp[t].fn \notin finished
    /\ finished \subseteq {Job(i) : i \in 1 .. Taken}
    /\ \A i \in 1 .. Taken :
         Job(i) \in finished \/ \E t \in Threads : pc[t] = "call" /\ tmp[t].fn = Job(i)

\* The jobs that jobs_done counts: counted by their submitter and not yet by who ran them.
Open == {i \in 1 .. Published + 1 :
           /\ i <= Published \/ pc[Owner] = "publish"
           /\ i > Taken \/ \E t \in Threads : Busy(t) /\ tmp[t].fn = Job(i)}
Counted == jobs_done = Cardinality(Open)

\* The inductive invariant, beside IInv.
RInv == InOrder /\ WordCounts /\ Room /\ SlotsHold /\ CopiesFresh /\ TakenOnce /\ Counted

-----------------------------------------------------------------------------
(* Counting round the ring and round the word                               *)

\* A number and its remainder differ by a multiple of the modulus.
LEMMA Quotient ==
    ASSUME NEW a \in Nat, NEW m \in Nat, m > 0
    PROVE  /\ a % m \in 0 .. m - 1
           /\ \E k \in Nat : a = m * k + (a % m)
  <1>1. a % m \in 0 .. m - 1 /\ a = m * (a \div m) + (a % m) /\ a \div m \in Nat
    OBVIOUS
  <1> QED
    BY <1>1

\* Going on by one from equal remainders gives equal remainders.
LEMMA NextRemainder ==
    ASSUME NEW a \in Nat, NEW b \in Nat, NEW m \in Nat, m > 0, a % m = b % m
    PROVE  (a + 1) % m = (b + 1) % m
  <1> DEFINE r == a % m
             s == IF r + 1 = m THEN 0 ELSE r + 1
  <1>1. r \in 0 .. m - 1
    BY Quotient
  <1>2. ASSUME NEW x \in Nat, x % m = r
        PROVE  (x + 1) % m = s
    <2>1. PICK k \in Nat : x = m * k + r
      <3>1. PICK k \in Nat : x = m * k + (x % m)
        BY Quotient
      <3> QED
        BY <3>1, <1>2
    <2> HIDE DEF r
    <2>2. CASE r + 1 = m
      <3>1. x + 1 = m * (k + 1) + 0
        <4>1. m * (k + 1) = m * k + m
          OBVIOUS
        <4>2. r \in Int /\ m * k \in Int
          BY <1>1
        <4> QED
          BY <2>1, <2>2, <4>1, <4>2
      <3>2. k + 1 \in Nat /\ 0 \in 0 .. m - 1
        OBVIOUS
      <3>3. (m * (k + 1) + 0) % m = 0
        BY <3>2, Remainder
      <3> QED
        BY <3>1, <3>3, <2>2 DEF s
    <2>3. CASE r + 1 # m
      <3>1. x + 1 = m * k + (r + 1) /\ r + 1 \in 0 .. m - 1
        BY <1>1, <2>1, <2>3
      <3>2. (m * k + (r + 1)) % m = r + 1
        BY <3>1, Remainder
      <3> QED
        BY <3>1, <3>2, <2>3 DEF s
    <2> QED
      BY <2>2, <2>3
  <1> QED
    BY <1>2

\* Numbers less than the modulus apart have different remainders.
LEMMA SameRemainder ==
    ASSUME NEW a \in Nat, NEW b \in Nat, NEW m \in Nat, m > 0, a <= b, b - a < m, a % m = b % m
    PROVE  a = b
  <1>1. PICK k \in Nat : a = m * k + (a % m)
    BY Quotient
  <1>2. PICK l \in Nat : b = m * l + (b % m)
    BY Quotient
  <1>3. b - a = m * (l - k) /\ l - k \in Int
    BY <1>1, <1>2
  <1>4. l - k >= 1 => m * (l - k) >= m
    BY <1>3
  <1>5. l - k <= 0 => m * (l - k) <= 0
    BY <1>3
  <1> QED
    BY <1>3, <1>4, <1>5

\* A remainder of a multiple of m has the remainder of the number itself.
LEMMA RemainderOfRemainder ==
    ASSUME NEW a \in Nat, NEW m \in Nat, m > 0, NEW j \in Nat, j > 0
    PROVE  (a % (m * j)) % m = a % m
  <1> DEFINE n == m * j
             r == a % n
  <1>1. n \in Nat /\ n > 0
    OBVIOUS
  <1> HIDE DEF n
  <1>2. r \in 0 .. n - 1
    BY <1>1, Quotient
  <1>3. PICK k \in Nat : a = n * k + r
    BY <1>1, Quotient
  <1> HIDE DEF r
  <1>4. r % m \in 0 .. m - 1 /\ r \in Nat
    BY <1>1, <1>2, Quotient
  <1>5. PICK l \in Nat : r = m * l + (r % m)
    BY <1>4, Quotient
  <1>6. a = m * (j * k + l) + (r % m) /\ j * k + l \in Nat
    <2>1. m * j * k = m * (j * k) /\ m * (j * k + l) = m * (j * k) + m * l
      OBVIOUS
    <2>2. m * (j * k) \in Int /\ m * l \in Int /\ r % m \in Int
      BY <1>4
    <2> QED
      BY <1>3, <1>5, <2>1, <2>2 DEF n
  <1>7. (m * (j * k + l) + (r % m)) % m = r % m
    BY <1>4, <1>6, Remainder
  <1> QED
    BY <1>6, <1>7 DEF r, n

\* The tail's slot is that of the number of jobs taken, which goes on by one with the tail.
LEMMA TailCounts ==
    ASSUME NEW c \in Nat
    PROVE  /\ c % UNIT \in 0 .. UNIT - 1 /\ (c % UNIT) % QSIZE = c % QSIZE
           /\ ((c % UNIT) + 1) % UNIT = (c + 1) % UNIT
           /\ c < UNIT => c % UNIT = c
           /\ c = UNIT => c % UNIT = 0
  <1>1. c % UNIT \in 0 .. UNIT - 1
    BY Sizes, Quotient
  <1>2. PICK j \in Nat : HALF = QSIZE * j + (HALF % QSIZE)
    <2>1. HALF \in Nat /\ QSIZE \in Nat /\ QSIZE > 0
      BY Sizes
    <2> QED
      BY <2>1, Quotient, Zenon
  <1>3. HALF = QSIZE * j /\ UNIT = QSIZE * (2 * j) /\ 2 * j \in Nat
    BY <1>2, Sizes, ThreadpoolAssumption
  <1>4. 2 * j > 0
    BY <1>3, Sizes
  <1>5. (c % UNIT) % QSIZE = c % QSIZE
    <2> DEFINE i == 2 * j
    <2>1. QSIZE \in Nat /\ QSIZE > 0 /\ i \in Nat /\ i > 0 /\ UNIT = QSIZE * i
      BY <1>3, <1>4, Sizes
    <2> HIDE DEF i
    <2>2. (c % (QSIZE * i)) % QSIZE = c % QSIZE
      BY <2>1, RemainderOfRemainder
    <2> QED
      BY <2>1, <2>2
  <1>6. c % UNIT \in Nat /\ (c % UNIT) % UNIT = c % UNIT
    <2>1. c % UNIT = UNIT * 0 + (c % UNIT)
      BY <1>1, Sizes
    <2> QED
      BY <2>1, <1>1, Sizes, Remainder
  <1>7. ((c % UNIT) + 1) % UNIT = (c + 1) % UNIT
    BY <1>6, Sizes, NextRemainder
  <1>8. c < UNIT => c % UNIT = c
    <2>1. ASSUME c < UNIT
          PROVE  c % UNIT = c
      <3>1. c \in 0 .. UNIT - 1 /\ c = UNIT * 0 + c
        BY <2>1, Sizes
      <3> QED
        BY <3>1, Sizes, Remainder
    <2> QED
      BY <2>1
  <1>9. c = UNIT => c % UNIT = 0
    <2>1. UNIT = UNIT * 1 + 0 /\ 0 \in 0 .. UNIT - 1
      BY Sizes
    <2>2. (UNIT * 1 + 0) % UNIT = 0
      BY <2>1, Sizes, Remainder
    <2> QED
      BY <2>1, <2>2
  <1> QED
    BY <1>1, <1>5, <1>7, <1>8, <1>9

-----------------------------------------------------------------------------
(* The invariant                                                            *)

LEMMA Facts ==
    ASSUME IInv, OneSubmitter
    PROVE  /\ Producers = {Owner} /\ Owner \in Threads /\ Owner \notin Workers
           /\ Threads = Workers \cup {Owner} /\ NJobs \in Nat /\ NJobs <= UNIT
           /\ Published \in Nat /\ Taken \in Nat /\ made[Owner] \in 0 .. NJobs
           /\ queue \in Word /\ queue.head \in Nat /\ queue.tail \in Nat
           /\ \A t \in Threads : save[t] \in Word /\ save[t].tail \in Nat /\ tmp[t] \in Slot
           /\ pc[Owner] \in InSubmit => made[Owner] > 0
  BY Labels, ThreadpoolAssumption DEF IInv, TypeOK, Shape, OneSubmitter, Published, Taken, Word

\* The initial states satisfy the invariant.
LEMMA RingInit == Init /\ OneSubmitter => RInv
  <1> SUFFICES ASSUME Init, OneSubmitter PROVE RInv
    OBVIOUS
  <1> USE DEF Init
  <1>1. Published = 0 /\ Taken = 0 /\ pc[Owner] = "idle" /\ made[Owner] = 0
    BY Labels DEF Published, Taken
  <1>2. 0 % UNIT = 0 /\ 0 % QSIZE = 0
    BY Sizes
  <1>3. InOrder
    BY <1>1 DEF InOrder, InSubmit
  <1>4. WordCounts
    BY <1>1, <1>2, Sizes DEF WordCounts, HeadSlot, Writing
  <1>5. Room /\ SlotsHold
    BY <1>1 DEF Room, SlotsHold, Writing
  <1>6. CopiesFresh
    BY Labels DEF CopiesFresh, Copying
  <1>7. TakenOnce
    BY <1>1, Labels DEF TakenOnce, Busy
  <1>8. Open = {}
    BY <1>1 DEF Open
  <1>9. Counted
    BY <1>8, FS_EmptySet DEF Counted
  <1> QED
    BY <1>3, <1>4, <1>5, <1>6, <1>7, <1>9 DEF RInv

\* A step of a thread that only changes where the thread is, outside of a submission and
\* outside of a job, keeps the counts.
Quiet(t) ==
    /\ UNCHANGED <<queue, work, jobs_done, submitted, claimed, finished>>
    /\ \A u \in Threads : u # t => pc'[u] = pc[u] /\ save'[u] = save[u] /\ tmp'[u] = tmp[u]

\* The labels at which a thread has begun no copy and no job, and writes no slot.
Resting == {"check", "sleep", "exited", "ask", "idle", "peek", "post", "wake", "join", "freed"}

LEMMA QuietSteps ==
    ASSUME IInv, IInv', RInv, OneSubmitter, NEW t \in Threads, Quiet(t),
           pc[t] \in Resting, pc'[t] \in Resting, InOrder'
    PROVE  RInv'
  <1> USE Facts
  <1>1. Published' = Published /\ Taken' = Taken
    BY DEF Quiet, Published, Taken
  <1>3. WordCounts'
    BY <1>1 DEF RInv, WordCounts, Quiet, Writing, Resting, HeadSlot
  <1>4. Room'
    BY <1>1 DEF RInv, Room, Quiet, Writing, Resting, HeadSlot
  <1>5. SlotsHold'
    BY <1>1 DEF RInv, SlotsHold, Quiet
  <1>6. CopiesFresh'
    BY <1>1 DEF RInv, CopiesFresh, Quiet, Copying, Resting
  <1>7. TakenOnce'
    BY <1>1 DEF RInv, TakenOnce, Quiet, Busy, Resting
  <1>8. Open' = Open
    BY <1>1 DEF Open, Quiet, Busy, Resting
  <1>9. Counted'
    BY <1>8 DEF RInv, Counted, Quiet
  <1> QED
    BY <1>3, <1>4, <1>5, <1>6, <1>7, <1>9 DEF RInv

\* What a thread outside a submission does keeps InOrder.
LEMMA OrderKept ==
    ASSUME RInv, OneSubmitter, UNCHANGED <<submitted, made>>,
           pc[Owner] \in InSubmit \ {"post"} <=> pc'[Owner] \in InSubmit \ {"post"}
    PROVE  InOrder'
  BY DEF RInv, InOrder, Published

\* The steps of QuietSteps.
LEMMA RestingSteps ==
    ASSUME IInv, IInv', RInv, OneSubmitter, NEW t \in Threads,
           \/ t \in Workers /\ (CheckRunning(t) \/ SemWait(t))
           \/ t = Owner /\ \/ BeginSubmit(t) \/ SemPost(t) \/ WorkOneJob(t)
                           \/ StopRunning \/ WakeEveryone \/ JoinAll
    PROVE  RInv'
  <1> USE Facts
  <1>1. pc \in [Threads -> {"check", "sleep", "exited", "ask", "copy_fn", "copy_arg",
                           "cas", "call", "uncount", "idle", "peek", "clear", "put_fn",
                           "put_arg", "count", "publish", "post", "wake", "join", "freed"}]
        /\ made \in [Producers -> 0 .. NJobs]
    BY DEF IInv, TypeOK
  <1>2. CASE t \in Workers /\ (CheckRunning(t) \/ SemWait(t))
    <2>1. Quiet(t) /\ pc[t] \in Resting /\ pc'[t] \in Resting
      BY <1>1, <1>2 DEF Quiet, Resting, CheckRunning, SemWait, Goto, history, caller
    <2>2. InOrder'
      BY <1>1, <1>2, OrderKept DEF CheckRunning, SemWait, Goto, history, caller
    <2> QED
      BY <2>1, <2>2, QuietSteps
  <1>3. CASE t = Owner /\ (SemPost(t) \/ WorkOneJob(t) \/ StopRunning \/ WakeEveryone \/ JoinAll)
    <2>1. Quiet(t) /\ pc[t] \in Resting /\ pc'[t] \in Resting
      BY <1>1, <1>3 DEF Quiet, Resting, SemPost, WorkOneJob, StopRunning, WakeEveryone, JoinAll,
         CallersDone, Goto, history, caller
    <2>2. InOrder'
      BY <1>1, <1>3, OrderKept DEF SemPost, WorkOneJob, StopRunning, WakeEveryone, JoinAll,
         CallersDone, Goto, history, caller, InSubmit
    <2> QED
      BY <2>1, <2>2, QuietSteps
  <1>4. CASE t = Owner /\ BeginSubmit(t)
    <2>1. Quiet(t) /\ pc[t] \in Resting /\ pc'[t] \in Resting
      BY <1>1, <1>4 DEF Quiet, Resting, BeginSubmit, Goto, history
    <2>2. InOrder'
      BY <1>1, <1>4 DEF RInv, InOrder, Published, BeginSubmit, Goto, history, InSubmit
    <2> QED
      BY <2>1, <2>2, QuietSteps
  <1> QED
    BY <1>2, <1>3, <1>4

-----------------------------------------------------------------------------
(* threadpool_submit                                                        *)

\* The ring is not full: head and tail are equal modulo its size when it is.
LEMMA FitsMeans ==
    ASSUME IInv, OneSubmitter, WordCounts, Fits(queue)
    PROVE  Published - Taken <= QSIZE - 2
  <1> USE Facts, Sizes
  <1>1. TailSlot(queue) = Taken % QSIZE
    BY TailCounts DEF TailSlot, WordCounts
  <1>2. Published % QSIZE \in 0 .. QSIZE - 1
    BY Quotient
  <1>3. (Published % QSIZE) % QSIZE = Published % QSIZE
    <2>1. Published % QSIZE = QSIZE * 0 + (Published % QSIZE)
      BY <1>2
    <2> QED
      BY <1>2, <2>1, Remainder
  <1>4. (HeadSlot(queue) + 1) % QSIZE = (Published + 1) % QSIZE
    <2> DEFINE x == Published % QSIZE
    <2>1. x \in Nat /\ Published \in Nat /\ QSIZE \in Nat /\ QSIZE > 0 /\ x % QSIZE = Published % QSIZE
      BY <1>2, <1>3
    <2>2. HeadSlot(queue) = x
      BY DEF WordCounts
    <2> HIDE DEF x
    <2>3. (x + 1) % QSIZE = (Published + 1) % QSIZE
      BY ONLY <2>1, NextRemainder
    <2> QED
      BY <2>2, <2>3
  <1>5. ASSUME Published - Taken = QSIZE - 1
        PROVE  FALSE
    <2>0. Taken \in Nat /\ QSIZE \in Nat /\ QSIZE > 0
      OBVIOUS
    <2>1. PICK k \in Nat : Taken = QSIZE * k + (Taken % QSIZE)
      BY <2>0, Quotient, Zenon
    <2>2. Taken % QSIZE \in 0 .. QSIZE - 1
      BY <2>0, Quotient, Zenon
    <2>3. QSIZE * (k + 1) = QSIZE * k + QSIZE
      OBVIOUS
    <2>4. Published + 1 = QSIZE * (k + 1) + (Taken % QSIZE)
      BY <1>5, <2>1, <2>2, <2>3
    <2>5. (QSIZE * (k + 1) + (Taken % QSIZE)) % QSIZE = Taken % QSIZE
      BY <2>2, Remainder
    <2> QED
      BY <1>1, <1>4, <2>4, <2>5 DEF Fits
  <1> QED
    BY <1>5 DEF WordCounts

\* The counter does not wrap: it counts jobs of the submitter.
LEMMA OpenBound ==
    ASSUME IInv, OneSubmitter, RInv
    PROVE  /\ IsFiniteSet(Open) /\ jobs_done = Cardinality(Open) /\ jobs_done \in 0 .. NJobs
           /\ Wrapped = NJobs + 1
  <1> USE Facts
  <1>1. Open \subseteq 1 .. NJobs
    BY DEF RInv, InOrder, InSubmit, Open
  <1>2. IsFiniteSet(1 .. NJobs) /\ Cardinality(1 .. NJobs) = NJobs
    BY FS_Interval
  <1>3. IsFiniteSet(Open) /\ Cardinality(Open) <= NJobs /\ Cardinality(Open) \in Nat
    BY <1>1, <1>2, FS_Subset, FS_CardinalityType
  <1>4. Wrapped = NJobs + 1
    <2>1. Cardinality(Producers) = 1
      BY FS_Singleton
    <2> QED
      BY <2>1 DEF Wrapped
  <1> QED
    BY <1>3, <1>4 DEF RInv, Counted

\* A step of the submitter that publishes nothing.
LEMMA SubmitSteps ==
    ASSUME IInv, IInv', RInv, OneSubmitter,
           Peek(Owner) \/ AvoidOverflow(Owner) \/ PutFn(Owner) \/ PutArg(Owner) \/ CountJob(Owner)
    PROVE  RInv'
  <1> DEFINE t == Owner
  <1> USE Facts
  <1>1. pc \in [Threads -> {"check", "sleep", "exited", "ask", "copy_fn", "copy_arg",
                           "cas", "call", "uncount", "idle", "peek", "clear", "put_fn",
                           "put_arg", "count", "publish", "post", "wake", "join", "freed"}]
        /\ made \in [Producers -> 0 .. NJobs] /\ save \in [Threads -> Word]
        /\ work \in [0 .. QSIZE - 1 -> Slot]
    BY DEF IInv, TypeOK
  <1>2. /\ UNCHANGED <<submitted, claimed, finished, made, tmp>>
        /\ pc[t] \in {"peek", "clear", "put_fn", "put_arg", "count"}
        /\ pc'[t] \in {"peek", "clear", "put_fn", "put_arg", "count", "publish"}
        /\ \A u \in Threads : u # t => pc'[u] = pc[u] /\ save'[u] = save[u]
    BY <1>1 DEF Peek, AvoidOverflow, PutFn, PutArg, CountJob, Goto, history, caller
  <1>3. Published' = Published /\ Taken' = Taken
    BY <1>2 DEF Published, Taken
  <1>4. InOrder'
    BY <1>2, OrderKept DEF InSubmit
  <1>5. TakenOnce'
    BY <1>2, <1>3 DEF RInv, TakenOnce, Busy
  <1>6. CopiesFresh'
    BY <1>2, <1>3 DEF RInv, CopiesFresh, Copying
  <1>7. CASE Peek(t)
    <2>1. /\ queue' = queue /\ work' = work /\ jobs_done' = jobs_done /\ save'[t] = queue
          /\ pc[t] = "peek"
          /\ pc'[t] = IF Flagged(queue) THEN "clear" ELSE IF Fits(queue) THEN "put_fn" ELSE "peek"
      BY <1>1, <1>7 DEF Peek, Goto, caller, history
    <2>2. WordCounts'
      BY <1>3, <2>1, Sizes DEF RInv, WordCounts, HeadSlot, Writing, Flagged
    <2>3. Room'
      BY <1>3, <2>1, FitsMeans DEF RInv, WordCounts, Room, HeadSlot, Writing, Fits, TailSlot
    <2>4. SlotsHold'
      BY <1>3, <2>1 DEF RInv, SlotsHold
    <2>5. Open' = Open
      BY <1>2, <1>3, <2>1 DEF Open, Busy
    <2> QED
      BY <1>4, <1>5, <1>6, <2>1, <2>2, <2>3, <2>4, <2>5 DEF RInv, Counted
  <1>8. CASE AvoidOverflow(t)
    <2>1. /\ queue' = ClearFlag(queue) /\ work' = work /\ jobs_done' = jobs_done /\ save' = save
          /\ pc[t] = "clear" /\ pc'[t] = IF Fits(save[t]) THEN "put_fn" ELSE "peek"
      BY <1>1, <1>8 DEF AvoidOverflow, Goto, caller, history
    <2>2. /\ queue'.tail = queue.tail /\ queue'.head < HALF /\ queue'.head \in Nat
          /\ HeadSlot(queue') = HeadSlot(queue)
      <3>1. queue.head \in 0 .. UNIT - 1 /\ queue.tail \in 0 .. UNIT - 1 /\ queue.head <= HALF
            /\ queue = [head |-> queue.head, tail |-> queue.tail]
        BY DEF RInv, WordCounts, Word
      <3>2. queue'.tail = queue.tail
        BY <2>1, <3>1 DEF ClearFlag, Flagged
      <3>3. queue'.head < HALF /\ queue'.head \in Nat
        BY <2>1, <3>1, Sizes DEF ClearFlag, Flagged
      <3>4. HeadSlot(ClearFlag(queue)) = HeadSlot(queue)
        BY WordOps
      <3> QED
        BY <2>1, <3>2, <3>3, <3>4
    <2>3. WordCounts'
      BY <1>3, <2>1, <2>2, Sizes DEF RInv, WordCounts, HeadSlot
    <2>4. Room'
      BY <1>3, <2>1 DEF RInv, Room, Writing, HeadSlot
    <2>5. SlotsHold'
      BY <1>3, <2>1 DEF RInv, SlotsHold
    <2>6. Open' = Open
      BY <1>2, <1>3, <2>1 DEF Open, Busy
    <2> QED
      BY <1>4, <1>5, <1>6, <2>1, <2>3, <2>4, <2>5, <2>6 DEF RInv, Counted
  <1>9. CASE PutFn(t) \/ PutArg(t)
    <2> DEFINE h == HeadSlot(save[t])
    <2>1. /\ queue' = queue /\ jobs_done' = jobs_done /\ save' = save
          /\ \/ /\ pc[t] = "put_fn" /\ pc'[t] = "put_arg"
                /\ work' = [work EXCEPT ![h].fn = CurrentJob(t)]
             \/ /\ pc[t] = "put_arg" /\ pc'[t] = "count"
                /\ work' = [work EXCEPT ![h].arg = CurrentJob(t)]
      BY <1>1, <1>9 DEF PutFn, PutArg, Goto, caller, history
    <2>2. h = Published % QSIZE /\ Published - Taken <= QSIZE - 2
      BY <2>1 DEF RInv, Room, Writing
    <2>3. CurrentJob(t) = Job(Published + 1)
      BY <2>1 DEF RInv, InOrder, InSubmit, CurrentJob, Job
    <2>4. h \in 0 .. QSIZE - 1
      BY <2>2, Sizes, Quotient
    <2> HIDE DEF h
    <2>5. WordCounts'
      BY <1>3, <2>1 DEF RInv, WordCounts, Writing, HeadSlot
    <2>6. Room'
      <3>1. pc'[t] = "put_arg" => work'[h].fn = Job(Published + 1)
        <4>1. CASE pc[t] = "put_fn"
          <5>1. work[h] \in Slot /\ work' = [work EXCEPT ![h].fn = CurrentJob(t)]
            BY <1>1, <2>1, <2>4, <4>1
          <5>2. work'[h] = [work[h] EXCEPT !.fn = CurrentJob(t)]
            BY <1>1, <2>4, <5>1
          <5> QED
            BY <2>3, <5>1, <5>2 DEF Slot
        <4> QED
          BY <2>1, <4>1
      <3>2. pc'[t] = "count" => work'[h] = WholeCopy(Job(Published + 1))
        <4>1. pc[t] = "put_arg" => work[h].fn = Job(Published + 1) /\ work[h] \in Slot
          BY <1>1, <2>2, <2>4 DEF RInv, Room
        <4> QED
          BY <1>1, <2>1, <2>3, <2>4, <4>1 DEF Slot, WholeCopy
      <3>3. HeadSlot(save[t]) = Published % QSIZE
        BY <2>2 DEF h
      <3>4. h' = h
        BY <2>1 DEF h, HeadSlot
      <3> QED
        BY <1>3, <2>1, <2>2, <3>1, <3>2, <3>3 DEF Room, Writing, HeadSlot
    <2>7. SlotsHold'
      <3>1. ASSUME NEW i \in Taken .. Published - 1
            PROVE  work'[i % QSIZE] = work[i % QSIZE]
        <4>0. Taken \in Nat /\ Published \in Nat /\ QSIZE \in Nat /\ QSIZE > 0
          BY Sizes
        <4>1. i \in Nat /\ i <= Published /\ Published - i < QSIZE /\ i # Published
          BY <2>2, <4>0
        <4>2. i % QSIZE # h
          BY <2>2, <4>0, <4>1, SameRemainder, Zenon
        <4>3. i % QSIZE \in 0 .. QSIZE - 1
          BY <4>0, <4>1, Quotient, Zenon
        <4> QED
          BY <1>1, <2>1, <4>2, <4>3
      <3> QED
        BY <1>3, <3>1 DEF RInv, SlotsHold
    <2>8. Open' = Open
      BY <1>2, <1>3, <2>1 DEF Open, Busy
    <2> QED
      BY <1>4, <1>5, <1>6, <2>1, <2>5, <2>6, <2>7, <2>8 DEF RInv, Counted
  <1>10. CASE CountJob(t)
    <2>1. /\ queue' = queue /\ work' = work /\ jobs_done' = Increment(jobs_done) /\ save' = save
          /\ pc[t] = "count" /\ pc'[t] = "publish"
      BY <1>1, <1>10 DEF CountJob, Goto, caller, history
    <2>2. WordCounts' /\ Room' /\ SlotsHold'
      BY <1>3, <2>1 DEF RInv, WordCounts, Room, SlotsHold, Writing, HeadSlot
    <2>3. Open' = Open \cup {Published + 1} /\ Published + 1 \notin Open
      BY <1>2, <1>3, <2>1 DEF RInv, WordCounts, Open, Busy
    <2>4. IsFiniteSet(Open) /\ jobs_done = Cardinality(Open) /\ jobs_done \in 0 .. NJobs
          /\ Wrapped = NJobs + 1
      BY OpenBound
    <2>5. jobs_done' = Cardinality(Open) + 1
      BY <2>1, <2>4 DEF Increment
    <2>6. Counted'
      BY <2>3, <2>4, <2>5, FS_AddElement DEF Counted
    <2> QED
      BY <1>4, <1>5, <1>6, <2>2, <2>6 DEF RInv
  <1> QED
    BY <1>7, <1>8, <1>9, <1>10

\* queue += 1: the job is published, in the slot that holds it.
LEMMA PublishStep ==
    ASSUME IInv, IInv', RInv, OneSubmitter, Publish(Owner)
    PROVE  RInv' /\ Published' = Published + 1 /\ submitted' = Append(submitted, Job(Published + 1))
  <1> DEFINE t == Owner
  <1> USE Facts
  <1>1. /\ pc[t] = "publish" /\ pc' = [pc EXCEPT ![t] = "post"] /\ pc'[t] = "post"
        /\ \A u \in Threads : u # t => pc'[u] = pc[u]
        /\ UNCHANGED <<jobs_done, work, save, tmp, made, claimed, finished>>
        /\ queue' = Commit(queue) /\ submitted' = Append(submitted, CurrentJob(t))
    BY DEF Publish, Goto, caller, IInv, TypeOK
  <1>2. Published = made[t] - 1 /\ \A i \in 1 .. Published : submitted[i] = Job(i)
    BY <1>1 DEF RInv, InOrder, InSubmit
  <1>3. CurrentJob(t) = Job(Published + 1)
    BY <1>2 DEF CurrentJob, Job
  <1>4. submitted \in Seq(Jobs)
    BY DEF IInv, TypeOK
  <1>5. /\ Published' = Published + 1 /\ Taken' = Taken
        /\ \A i \in 1 .. Published : submitted'[i] = submitted[i]
        /\ submitted'[Published + 1] = Job(Published + 1)
    BY <1>1, <1>3, <1>4 DEF Published, Taken
  <1>6. InOrder'
    <2>1. \A i \in 1 .. Published' : submitted'[i] = Job(i)
      BY <1>2, <1>5
    <2>2. Published' = made'[t]
      BY <1>1, <1>2, <1>5
    <2> QED
      BY <1>1, <2>1, <2>2 DEF InOrder
  <1>7. queue.head < HALF /\ Published - Taken <= QSIZE - 2 /\ Taken <= Published
        /\ queue.tail = Taken % UNIT /\ queue.head % QSIZE = Published % QSIZE
    BY <1>1 DEF RInv, WordCounts, Room, Writing, HeadSlot
  <1>8. queue'.head = queue.head + 1 /\ queue'.tail = queue.tail
    <2>1. queue = [head |-> queue.head, tail |-> queue.tail]
      BY DEF Word
    <2>2. queue.head + 1 # UNIT
      BY <1>7, Sizes
    <2>3. queue' = [queue EXCEPT !.head = queue.head + 1]
      BY <1>1, <2>2 DEF Commit
    <2> QED
      BY <2>1, <2>3
  <1>9. WordCounts'
    <2>1. queue.head \in Nat /\ Published \in Nat /\ QSIZE \in Nat /\ QSIZE > 0
          /\ queue.head % QSIZE = Published % QSIZE
      BY <1>7, Sizes
    <2>2. (queue.head + 1) % QSIZE = (Published + 1) % QSIZE
      BY ONLY <2>1, NextRemainder
    <2>3. HeadSlot(queue)' = Published' % QSIZE
      BY <1>5, <1>8, <2>2 DEF HeadSlot
    <2>4. queue'.tail = Taken' % UNIT
      BY <1>5, <1>7, <1>8
    <2>5. queue'.head <= HALF /\ Taken' <= Published' /\ Published' - Taken' <= QSIZE - 1
      BY <1>5, <1>7, <1>8, Sizes
    <2> QED
      BY <1>1, <2>3, <2>4, <2>5 DEF WordCounts, Writing
  <1>10. Room'
    BY <1>1 DEF Room, Writing
  <1>11. SlotsHold'
    <2>1. work[Published % QSIZE] = WholeCopy(Job(Published + 1))
      BY <1>1 DEF RInv, Room
    <2>2. ASSUME NEW i \in Taken .. Published
          PROVE  work[i % QSIZE] = WholeCopy(Job(i + 1))
      <3>1. CASE i = Published
        BY <2>1, <3>1
      <3>2. CASE i # Published
        <4>1. i \in Taken .. Published - 1
          BY <3>2
        <4> QED
          BY <4>1 DEF RInv, SlotsHold
      <3> QED
        BY <3>1, <3>2
    <2>3. Taken' .. Published' - 1 = Taken .. Published
      BY <1>5
    <2> QED
      BY <1>1, <2>2, <2>3 DEF SlotsHold
  <1>12. CopiesFresh'
    BY <1>1, <1>5 DEF RInv, CopiesFresh, Copying
  <1>13. TakenOnce'
    <2>1. \A u \in Threads : (pc'[u] = "call" <=> pc[u] = "call") /\ (Busy(u)' <=> Busy(u))
      BY <1>1 DEF Busy
    <2>2. tmp' = tmp /\ claimed' = claimed /\ finished' = finished /\ Taken' = Taken
      BY <1>1, <1>5
    <2> QED
      BY <2>1, <2>2 DEF RInv, TakenOnce
  <1>14. Open' = Open
    BY <1>1, <1>5 DEF Open, Busy
  <1>15. Counted'
    BY <1>1, <1>14 DEF RInv, Counted
  <1> QED
    BY <1>1, <1>3, <1>5, <1>6, <1>9, <1>10, <1>11, <1>12, <1>13, <1>15 DEF RInv

-----------------------------------------------------------------------------
(* do_work                                                                  *)

\* What a step of do_work leaves alone, for the other threads and for the submitter.
Elsewhere(t) ==
    /\ UNCHANGED <<work, made, submitted>>
    /\ \A u \in Threads : u # t => pc'[u] = pc[u] /\ save'[u] = save[u] /\ tmp'[u] = tmp[u]
    /\ pc[t] \notin InSubmit /\ pc'[t] \notin InSubmit

LEMMA WorkFrame ==
    ASSUME IInv, OneSubmitter, RInv, NEW t \in Threads, DoWork(t)
    PROVE  Elsewhere(t) /\ InOrder' /\ Published' = Published
  <1> USE Facts
  <1>1. Elsewhere(t)
    BY DEF DoWork, AskForWork, CopyFn, CopyArg, TakeJob, RunJob, UncountJob, Goto, AfterWork, caller,
       history, IInv, TypeOK, Elsewhere, InSubmit
  <1>2. Published' = Published
    BY <1>1 DEF Elsewhere, Published
  <1>3. InOrder'
    BY <1>1, OrderKept DEF Elsewhere
  <1> QED
    BY <1>1, <1>2, <1>3

\* A step of do_work that takes no job and ends none keeps all but its own copy.
LEMMA CopySteps ==
    ASSUME IInv, IInv', OneSubmitter, RInv, NEW t \in Threads,
           AskForWork(t) \/ CopyFn(t) \/ CopyArg(t) \/ (TakeJob(t) /\ queue # save[t])
    PROVE  RInv'
  <1> USE Facts
  <1>1. Elsewhere(t) /\ InOrder' /\ Published' = Published
    BY WorkFrame DEF DoWork
  <1>2. UNCHANGED <<queue, jobs_done, claimed, finished>> /\ Taken' = Taken
        /\ pc[t] \in Copying \cup {"ask"} /\ pc'[t] \in Copying \cup {"ask", "idle", "check", "sleep"}
    BY DEF AskForWork, CopyFn, CopyArg, TakeJob, Goto, AfterWork, caller, history, IInv, TypeOK, Copying, Taken
  <1>3. /\ pc'[Owner] # pc[Owner] => t = Owner
        /\ pc[Owner] \in InSubmit \/ pc'[Owner] \in InSubmit => save'[Owner] = save[Owner] /\ pc'[Owner] = pc[Owner]
    BY <1>1 DEF Elsewhere
  <1>4. WordCounts'
    BY <1>1, <1>2, <1>3 DEF RInv, WordCounts, HeadSlot, Writing, InSubmit
  <1>5. Room'
    BY <1>1, <1>2, <1>3 DEF RInv, Room, HeadSlot, Writing, InSubmit, Elsewhere, Fits, TailSlot
  <1>6. SlotsHold'
    BY <1>1, <1>2 DEF RInv, SlotsHold, Elsewhere
  <1>7. TakenOnce'
    BY <1>1, <1>2 DEF RInv, TakenOnce, Busy, Elsewhere, Copying
  <1>8. Counted'
    <2>1. Open' = Open
      BY <1>1, <1>2, <1>3 DEF Open, Busy, Elsewhere, Copying, InSubmit
    <2> QED
      BY <1>2, <2>1 DEF RInv, Counted
  <1>9. ASSUME NEW u \in Threads, u # t, pc'[u] \in Copying
        PROVE  /\ save'[u].tail <= Taken' /\ save'[u].tail < Published'
               /\ save'[u].tail = Taken' =>
                     /\ pc'[u] = "copy_arg" => tmp'[u].fn = Job(Taken' + 1)
                     /\ pc'[u] = "cas" => tmp'[u] = WholeCopy(Job(Taken' + 1))
    BY <1>1, <1>2, <1>9 DEF RInv, CopiesFresh, Elsewhere
  <1>10. ASSUME pc'[t] \in Copying
         PROVE  /\ save'[t].tail <= Taken /\ save'[t].tail < Published
                /\ save'[t].tail = Taken =>
                     /\ pc'[t] = "copy_arg" => tmp'[t].fn = Job(Taken + 1)
                     /\ pc'[t] = "cas" => tmp'[t] = WholeCopy(Job(Taken + 1))
    <2>1. CASE AskForWork(t)
      <3>1. HeadSlot(queue) # TailSlot(queue) /\ save'[t] = queue /\ pc'[t] = "copy_fn"
        BY <1>10, <2>1 DEF AskForWork, Goto, AfterWork, Copying, IInv, TypeOK
      <3>2. TailSlot(queue) = Taken % QSIZE
        BY TailCounts DEF RInv, WordCounts, TailSlot
      <3>3. Taken < Published
        BY <3>1, <3>2 DEF RInv, WordCounts
      <3>4. Published <= NJobs
        BY DEF RInv, InOrder
      <3>5. Taken % UNIT = Taken
        <4>1. Taken \in Nat /\ Taken < UNIT
          BY <3>3, <3>4, Sizes
        <4> QED
          BY <4>1, TailCounts
      <3> QED
        BY <3>1, <3>3, <3>5 DEF RInv, WordCounts
    <2>2. ASSUME save[t].tail = Taken, pc[t] \in Copying
          PROVE  work[TailSlot(save[t])] = WholeCopy(Job(Taken + 1))
      <3>1. Taken \in Taken .. Published - 1
        BY <2>2 DEF RInv, CopiesFresh
      <3> QED
        BY <2>2, <3>1 DEF RInv, SlotsHold, TailSlot
    <2>3. CASE CopyFn(t)
      <3>1. /\ pc[t] = "copy_fn" /\ pc'[t] = "copy_arg" /\ save'[t] = save[t]
            /\ tmp'[t].fn = work[TailSlot(save[t])].fn
        BY <2>3 DEF CopyFn, Goto, IInv, TypeOK, Slot
      <3> QED
        BY <2>2, <3>1 DEF RInv, CopiesFresh, Copying, WholeCopy
    <2>4. CASE CopyArg(t)
      <3>1. /\ pc[t] = "copy_arg" /\ pc'[t] = "cas" /\ save'[t] = save[t]
            /\ tmp'[t] = [tmp[t] EXCEPT !.arg = work[TailSlot(save[t])].arg]
        BY <2>4 DEF CopyArg, Goto, IInv, TypeOK
      <3>2. save[t].tail = Taken => tmp'[t] = WholeCopy(Job(Taken + 1))
        BY <2>2, <3>1 DEF RInv, CopiesFresh, Copying, WholeCopy, Slot
      <3> QED
        BY <3>1, <3>2 DEF RInv, CopiesFresh, Copying
    <2>5. CASE TakeJob(t) /\ queue # save[t]
      BY <1>10, <2>5 DEF TakeJob, Goto, IInv, TypeOK, Copying
    <2> QED
      BY <2>1, <2>3, <2>4, <2>5
  <1>11. CopiesFresh'
    BY <1>1, <1>2, <1>9, <1>10 DEF CopiesFresh
  <1> QED
    BY <1>1, <1>4, <1>5, <1>6, <1>7, <1>8, <1>11 DEF RInv

\* The CAS succeeds: the word it read is still there, so its tail is the number of jobs
\* taken and its copy that of the next job.
LEMMA TakeMeans ==
    ASSUME IInv, RInv, OneSubmitter, NEW t \in Threads, TakeJob(t), queue = save[t]
    PROVE  /\ Taken < Published /\ tmp[t] = WholeCopy(Job(Taken + 1))
           /\ Taken' = Taken + 1 /\ claimed' = Append(claimed, WholeCopy(Job(Taken + 1)))
           /\ \A i \in 1 .. Taken : claimed'[i] = claimed[i]
           /\ claimed'[Taken + 1] = WholeCopy(Job(Taken + 1))
           /\ pc[t] = "cas" /\ pc'[t] = "call"
           /\ UNCHANGED <<jobs_done, tmp, finished>>
           /\ queue' = Advance(queue)
  <1> USE Facts
  <1>1. /\ pc[t] = "cas" /\ pc'[t] = "call" /\ queue' = Advance(queue)
        /\ claimed' = Append(claimed, tmp[t]) /\ UNCHANGED <<jobs_done, tmp, finished>>
    BY DEF TakeJob, Goto, IInv, TypeOK
  <1>2. HeadSlot(queue) # TailSlot(queue)
    BY <1>1 DEF IInv, Shape, Threads
  <1>3. TailSlot(queue) = Taken % QSIZE
    BY TailCounts DEF RInv, WordCounts, TailSlot
  <1>4. Taken < Published
    BY <1>2, <1>3 DEF RInv, WordCounts
  <1>5. Taken % UNIT = Taken
    <2>1. Published <= NJobs
      BY DEF RInv, InOrder
    <2>2. Taken \in Nat /\ Taken < UNIT
      BY <1>4, <2>1, Sizes
    <2> QED
      BY <2>2, TailCounts
  <1>6. tmp[t] = WholeCopy(Job(Taken + 1))
    BY <1>1, <1>5 DEF RInv, WordCounts, CopiesFresh, Copying
  <1>7. claimed \in Seq(Slot)
    BY DEF IInv, TypeOK
  <1>8. /\ Taken' = Taken + 1
        /\ \A i \in 1 .. Taken : claimed'[i] = claimed[i]
        /\ claimed'[Taken + 1] = WholeCopy(Job(Taken + 1))
    BY <1>1, <1>6, <1>7 DEF Taken
  <1> QED
    BY <1>1, <1>4, <1>6, <1>8

LEMMA TakeStep ==
    ASSUME IInv, IInv', OneSubmitter, RInv, NEW t \in Threads, TakeJob(t), queue = save[t]
    PROVE  RInv'
  <1> USE Facts
  <1>1. Elsewhere(t) /\ InOrder' /\ Published' = Published
    BY WorkFrame DEF DoWork
  <1>2. /\ Taken < Published /\ tmp[t] = WholeCopy(Job(Taken + 1)) /\ Taken' = Taken + 1
        /\ \A i \in 1 .. Taken : claimed'[i] = claimed[i]
        /\ claimed'[Taken + 1] = WholeCopy(Job(Taken + 1))
        /\ pc[t] = "cas" /\ pc'[t] = "call"
        /\ UNCHANGED <<jobs_done, tmp, finished>>
        /\ queue' = Advance(queue)
    BY TakeMeans
  <1>3. pc[Owner] \in InSubmit \/ pc'[Owner] \in InSubmit =>
          save'[Owner] = save[Owner] /\ pc'[Owner] = pc[Owner]
    BY <1>1 DEF Elsewhere
  <1>4. queue'.head = queue.head /\ queue'.tail = (queue.tail + 1) % UNIT
    <2>1. queue = [head |-> queue.head, tail |-> queue.tail]
      BY DEF Word
    <2> QED
      BY <1>2, <2>1 DEF Advance
  <1>5. WordCounts'
    <2>1. queue'.tail = Taken' % UNIT
      BY <1>2, <1>4, TailCounts DEF RInv, WordCounts
    <2>2. HeadSlot(queue') = Published' % QSIZE
      BY <1>1, <1>4 DEF RInv, WordCounts, HeadSlot
    <2>3. Taken' <= Published' /\ Published' - Taken' <= QSIZE - 1 /\ queue'.head <= HALF
      <3>1. Published - Taken <= QSIZE - 1 /\ queue.head <= HALF
        BY DEF RInv, WordCounts
      <3>2. Published - (Taken + 1) <= QSIZE - 1 /\ Taken + 1 <= Published
        BY <1>2, <3>1, Sizes
      <3> QED
        BY <1>1, <1>2, <1>4, <3>1, <3>2
    <2>4. pc'[Owner] \in Writing => queue'.head < HALF
      BY <1>3, <1>4 DEF RInv, WordCounts, Writing, InSubmit
    <2> QED
      BY <2>1, <2>2, <2>3, <2>4 DEF WordCounts
  <1>6. Room'
    <2>1. Published - Taken <= QSIZE - 2 => Published - Taken' <= QSIZE - 2
      BY <1>2, Sizes
    <2> QED
      BY <1>1, <1>3, <2>1 DEF RInv, Room, HeadSlot, Writing, InSubmit, Elsewhere, Fits, TailSlot
  <1>7. SlotsHold'
    <2>1. Taken' .. Published' - 1 \subseteq Taken .. Published - 1
      BY <1>1, <1>2
    <2> QED
      BY <1>1, <2>1 DEF RInv, SlotsHold, Elsewhere
  <1>8. CopiesFresh'
    <2>1. ASSUME NEW u \in Threads, pc'[u] \in Copying
          PROVE  save'[u].tail <= Taken' /\ save'[u].tail # Taken' /\ save'[u].tail < Published'
      <3>1. u # t
        BY <1>2, <2>1 DEF Copying
      <3>2. save[u].tail <= Taken /\ save[u].tail < Published /\ save[u].tail \in Nat
            /\ save'[u] = save[u]
        BY <1>1, <2>1, <3>1 DEF RInv, CopiesFresh, Elsewhere
      <3> QED
        BY <1>1, <1>2, <3>2
    <2> QED
      BY <2>1 DEF CopiesFresh
  <1>9. TakenOnce'
    <2>1. \A i, k \in Nat : Job(i) = Job(k) => i = k
      BY DEF Job
    <2>2. tmp[t].fn = Job(Taken + 1)
      BY <1>2 DEF WholeCopy
    <2>3. \A u \in Threads : u # t => (Busy(u)' <=> Busy(u)) /\ (pc'[u] = "call" <=> pc[u] = "call")
      BY <1>1 DEF Elsewhere, Busy
    <2>4. \A u \in Threads : Busy(u) => \E i \in 1 .. Taken : tmp[u].fn = Job(i)
      BY DEF RInv, TakenOnce
    <2>5. \A i \in 1 .. Taken' : i \in 1 .. Taken \/ i = Taken + 1
      BY <1>2
    <2>6. \A i \in 1 .. Taken : i \in Nat /\ i # Taken + 1 /\ i \in 1 .. Taken'
      BY <1>2
    <2>7. \A i \in 1 .. Taken' : claimed'[i] = WholeCopy(Job(i))
      BY <1>2, <2>5 DEF RInv, TakenOnce
    <2>8. \A u \in Threads : Busy(u)' => \E i \in 1 .. Taken' : tmp'[u].fn = Job(i)
      BY <1>2, <2>2, <2>3, <2>4, <2>6
    <2>9. Job(Taken + 1) \notin finished /\ \A u \in Threads : Busy(u) => tmp[u].fn # Job(Taken + 1)
      BY <2>1, <2>4, <2>6 DEF RInv, TakenOnce
    <2>10. ASSUME NEW u \in Threads, NEW v \in Threads, Busy(u)', Busy(v)', tmp'[u].fn = tmp'[v].fn
           PROVE  u = v
      BY <1>2, <2>2, <2>3, <2>9, <2>10 DEF RInv, TakenOnce
    <2>11. \A u \in Threads : pc'[u] = "call" => tmp'[u].fn \notin finished'
      BY <1>2, <2>2, <2>3, <2>9 DEF RInv, TakenOnce
    <2>12. finished' \subseteq {Job(i) : i \in 1 .. Taken'}
      BY <1>2, <2>6 DEF RInv, TakenOnce
    <2>13. ASSUME NEW i \in 1 .. Taken'
           PROVE  Job(i) \in finished' \/ \E u \in Threads : pc'[u] = "call" /\ tmp'[u].fn = Job(i)
      <3>1. CASE i = Taken + 1
        BY <1>2, <2>2, <3>1
      <3>2. CASE i \in 1 .. Taken
        <4>1. Job(i) \in finished \/ \E u \in Threads : pc[u] = "call" /\ tmp[u].fn = Job(i)
          BY <3>2 DEF RInv, TakenOnce
        <4> QED
          BY <1>2, <2>3, <4>1
      <3> QED
        BY <2>5, <3>1, <3>2
    <2> QED
      BY <2>7, <2>8, <2>10, <2>11, <2>12, <2>13 DEF TakenOnce
  <1>10. Open' = Open
    <2>1. \A u \in Threads : u # t => (Busy(u)' <=> Busy(u))
      BY <1>1 DEF Elsewhere, Busy
    <2>2. Busy(t)' /\ ~Busy(t) /\ tmp[t].fn = Job(Taken + 1)
      BY <1>2 DEF Busy, WholeCopy
    <2>3. pc'[Owner] = "publish" <=> pc[Owner] = "publish"
      BY <1>1, <1>2, <1>3 DEF InSubmit
    <2>4. \A i \in 1 .. Published + 1 : Job(i) = Job(Taken + 1) => i = Taken + 1
      BY DEF Job
    <2>5. ASSUME NEW i \in 1 .. Published + 1
          PROVE  (i > Taken' \/ \E u \in Threads : Busy(u)' /\ tmp'[u].fn = Job(i))
                 <=> (i > Taken \/ \E u \in Threads : Busy(u) /\ tmp[u].fn = Job(i))
      <3>1. i > Taken <=> i > Taken' \/ i = Taken + 1
        BY <1>2
      <3> QED
        BY <1>2, <2>1, <2>2, <2>4, <3>1
    <2> QED
      BY <1>1, <2>3, <2>5 DEF Open
  <1>11. Counted'
    BY <1>2, <1>10 DEF RInv, Counted
  <1> QED
    BY <1>1, <1>5, <1>6, <1>7, <1>8, <1>9, <1>11 DEF RInv

\* A thread takes up a finished job no more: the call returns, and then it is uncounted.
LEMMA RunStep ==
    ASSUME IInv, IInv', OneSubmitter, RInv, NEW t \in Threads, RunJob(t) \/ UncountJob(t)
    PROVE  RInv'
  <1> USE Facts
  <1>1. Elsewhere(t) /\ InOrder' /\ Published' = Published
    BY WorkFrame DEF DoWork
  <1>2. UNCHANGED <<queue, claimed, tmp, save>> /\ Taken' = Taken /\ Busy(t) /\ pc'[t] # "call"
        /\ pc[t] \notin Copying /\ pc'[t] \notin Copying
    BY DEF RunJob, UncountJob, Goto, AfterWork, caller, history, IInv, TypeOK, Copying, Taken, Busy
  <1>3. pc[Owner] \in InSubmit \/ pc'[Owner] \in InSubmit =>
          save'[Owner] = save[Owner] /\ pc'[Owner] = pc[Owner]
    BY <1>1 DEF Elsewhere
  <1>4. WordCounts'
    BY <1>1, <1>2, <1>3 DEF RInv, WordCounts, HeadSlot, Writing, InSubmit
  <1>5. Room'
    BY <1>1, <1>2, <1>3 DEF RInv, Room, HeadSlot, Writing, InSubmit, Elsewhere, Fits, TailSlot
  <1>6. SlotsHold'
    BY <1>1, <1>2 DEF RInv, SlotsHold, Elsewhere
  <1>7. CopiesFresh'
    BY <1>1, <1>2 DEF RInv, CopiesFresh, Elsewhere
  <1>8. \A u \in Threads : u # t => (Busy(u)' <=> Busy(u)) /\ (pc'[u] = "call" <=> pc[u] = "call")
    BY <1>1 DEF Elsewhere, Busy
  <1>9. PICK i \in 1 .. Taken : tmp[t].fn = Job(i)
    BY <1>2 DEF RInv, TakenOnce
  <1>10. \A u \in Threads : Busy(u) /\ tmp[u].fn = Job(i) => u = t
    BY <1>2, <1>9 DEF RInv, TakenOnce
  <1>11. pc'[Owner] = "publish" <=> pc[Owner] = "publish"
    BY <1>1, <1>3 DEF InSubmit
  <1>12. CASE RunJob(t)
    <2>1. pc[t] = "call" /\ pc'[t] = "uncount" /\ finished' = finished \cup {Job(i)}
          /\ jobs_done' = jobs_done
      BY <1>9, <1>12 DEF RunJob, Goto, IInv, TypeOK
    <2>2. \A u \in Threads : Busy(u)' <=> Busy(u)
      BY <1>8, <2>1 DEF Busy
    <2>3. \A u \in Threads : pc'[u] = "call" => u # t /\ pc[u] = "call" /\ Busy(u)
      BY <1>8, <2>1 DEF Busy
    <2>4. \A u \in Threads : pc'[u] = "call" => tmp[u].fn \notin finished'
      BY <1>10, <2>1, <2>3 DEF RInv, TakenOnce
    <2>5. finished' \subseteq {Job(k) : k \in 1 .. Taken}
      BY <2>1 DEF RInv, TakenOnce
    <2>6. ASSUME NEW k \in 1 .. Taken
          PROVE  Job(k) \in finished' \/ \E u \in Threads : pc'[u] = "call" /\ tmp[u].fn = Job(k)
      <3>1. Job(k) \in finished \/ \E u \in Threads : pc[u] = "call" /\ tmp[u].fn = Job(k)
        BY DEF RInv, TakenOnce
      <3> QED
        BY <1>8, <1>9, <2>1, <3>1
    <2>7. TakenOnce'
      BY <1>2, <2>2, <2>4, <2>5, <2>6 DEF RInv, TakenOnce
    <2>8. Open' = Open
      BY <1>1, <1>2, <1>11, <2>2 DEF Open
    <2> QED
      BY <1>1, <1>4, <1>5, <1>6, <1>7, <2>1, <2>7, <2>8 DEF RInv, Counted
  <1>13. CASE UncountJob(t)
    <2>1. pc[t] = "uncount" /\ pc'[t] \in {"idle", "check"} /\ finished' = finished
          /\ jobs_done' = Decrement(jobs_done)
      BY <1>13 DEF UncountJob, Goto, AfterWork, IInv, TypeOK, history
    <2>2. ~Busy(t)'
      BY <2>1 DEF Busy
    <2>3. \A u \in Threads : pc'[u] = "call" <=> pc[u] = "call"
      BY <1>8, <2>1
    <2>4. TakenOnce'
      BY <1>2, <1>8, <2>1, <2>2, <2>3 DEF RInv, TakenOnce
    <2>5. Open' = Open \ {i} /\ i \in Open
      <3>1. \A k \in 1 .. Published + 1 : Job(k) = Job(i) => k = i
        BY DEF Job
      <3>2. i \in 1 .. Published
        BY DEF RInv, WordCounts
      <3>3. ASSUME NEW k \in 1 .. Published + 1
            PROVE  (\E u \in Threads : Busy(u)' /\ tmp'[u].fn = Job(k))
                   <=> k # i /\ \E u \in Threads : Busy(u) /\ tmp[u].fn = Job(k)
        BY <1>2, <1>8, <1>9, <1>10, <2>2, <3>1
      <3>4. ASSUME NEW k \in 1 .. Published + 1
            PROVE  (k > Taken \/ \E u \in Threads : Busy(u)' /\ tmp'[u].fn = Job(k))
                   <=> k # i /\ (k > Taken \/ \E u \in Threads : Busy(u) /\ tmp[u].fn = Job(k))
        BY <3>3
      <3> QED
        BY <1>1, <1>2, <1>9, <1>11, <3>2, <3>4 DEF Open
    <2>6. IsFiniteSet(Open) /\ jobs_done = Cardinality(Open) /\ jobs_done \in 0 .. NJobs
      BY OpenBound
    <2>7. Cardinality(Open \ {i}) = Cardinality(Open) - 1
      BY <2>5, <2>6, FS_RemoveElement
    <2>8. jobs_done' = jobs_done - 1
      <3>1. IsFiniteSet(Open \ {i})
        BY <2>6, FS_Difference
      <3>2. Cardinality(Open \ {i}) \in Nat
        BY <3>1, FS_CardinalityType
      <3> QED
        BY <2>1, <2>6, <2>7, <3>2 DEF Decrement
    <2> QED
      BY <1>1, <1>4, <1>5, <1>6, <1>7, <2>4, <2>5, <2>6, <2>7, <2>8 DEF RInv, Counted
  <1> QED
    BY <1>12, <1>13

\* A step of the pool keeps the invariant.
LEMMA RingStep ==
    ASSUME IInv, IInv', OneSubmitter, RInv, [Next]_vars
    PROVE  RInv'
  <1> USE Facts
  <1>1. ASSUME NEW t \in Threads, DoWork(t)
        PROVE  RInv'
    <2>1. CASE TakeJob(t) /\ queue = save[t]
      BY <2>1, TakeStep
    <2>2. CASE AskForWork(t) \/ CopyFn(t) \/ CopyArg(t) \/ (TakeJob(t) /\ queue # save[t])
      BY <2>2, CopySteps
    <2>3. CASE RunJob(t) \/ UncountJob(t)
      BY <2>3, RunStep
    <2> QED
      BY <1>1, <2>1, <2>2, <2>3 DEF DoWork
  <1>2. ASSUME NEW w \in Workers, Worker(w)
        PROVE  RInv'
    BY <1>1, <1>2, RestingSteps DEF Worker
  <1>3. ASSUME Producer(Owner)
        PROVE  RInv'
    BY <1>1, <1>3, RestingSteps, SubmitSteps, PublishStep DEF Producer, Submit
  <1>4. ASSUME Destroy
        PROVE  RInv'
    BY <1>4, RestingSteps DEF Destroy
  <1>5. ASSUME UNCHANGED vars
        PROVE  RInv'
    BY <1>5 DEF vars, RInv, InOrder, WordCounts, Room, SlotsHold, CopiesFresh, TakenOnce, Counted,
       Open, Published, Taken, Busy, HeadSlot, TailSlot, Fits
  <1> QED
    BY <1>2, <1>3, <1>4, <1>5 DEF Next, Terminated

\* Both invariants hold in every state.
LEMMA RingInvariant ==
    ASSUME OneSubmitter
    PROVE  Spec => [](IInv /\ RInv)
  <1>1. Init => IInv /\ RInv
    BY InvariantInit, RingInit
  <1>2. IInv /\ RInv /\ [Next]_vars => (IInv /\ RInv)'
    BY InvariantStep, RingStep
  <1> QED
    BY <1>1, <1>2, PTL DEF Spec

-----------------------------------------------------------------------------
(* What the invariant says                                                  *)

\* threadpool_wait() may return on jobs_done = 0: every job whose submission was published
\* has returned, and the counter never wraps.
THEOREM CounterIsTrue ==
    ASSUME OneSubmitter
    PROVE  Spec => []ZeroMeansAllReturned
  <1>1. IInv /\ RInv => ZeroMeansAllReturned
    <2> SUFFICES ASSUME IInv, RInv PROVE ZeroMeansAllReturned
      OBVIOUS
    <2> USE Facts
    <2>1. IsFiniteSet(Open) /\ jobs_done = Cardinality(Open) /\ jobs_done # Wrapped
      BY OpenBound
    <2>2. ASSUME jobs_done = 0, NEW i \in 1 .. Published
          PROVE  submitted[i] \in finished
      <3>1. Open = {}
        BY <2>1, <2>2, FS_EmptySet
      <3>2. i <= Taken /\ \A t \in Threads : Busy(t) => tmp[t].fn # Job(i)
        BY <3>1 DEF Open
      <3>3. Job(i) \in finished
        BY <3>2 DEF RInv, TakenOnce, Busy
      <3> QED
        BY <3>3 DEF RInv, InOrder
    <2> QED
      BY <2>1, <2>2 DEF ZeroMeansAllReturned, Published
  <1> QED
    BY <1>1, RingInvariant, PTL

\* What is called is a submitted job with its own argument, and no job is called twice.
THEOREM JobsTakenOnce ==
    ASSUME OneSubmitter
    PROVE  Spec => []RunsWhatWasSubmitted
  <1>1. IInv /\ RInv => RunsWhatWasSubmitted
    <2> SUFFICES ASSUME IInv, RInv PROVE RunsWhatWasSubmitted
      OBVIOUS
    <2> USE Facts
    <2>1. \A i \in 1 .. Taken : claimed[i] = WholeCopy(Job(i))
      BY DEF RInv, TakenOnce
    <2>2. \A i \in 1 .. Taken : Job(i) \in Jobs
      BY DEF RInv, WordCounts, InOrder, Job, Jobs
    <2>3. \A i, k \in 1 .. Taken : WholeCopy(Job(i)) = WholeCopy(Job(k)) => i = k
      BY DEF WholeCopy, Job
    <2> QED
      BY <2>1, <2>2, <2>3 DEF RunsWhatWasSubmitted, Taken
  <1> QED
    BY <1>1, RingInvariant, PTL

-----------------------------------------------------------------------------
(* The refinement of TaskQueue                                              *)

Pending == SubSeq(submitted, Taken + 1, Published)
Running == {claimed[i].fn : i \in 1 .. Taken} \ finished

\* Initially nothing is pending, running or finished.
LEMMA RefinesInit == Init => Abstract!Init
  <1> SUFFICES ASSUME Init PROVE Abstract!Init
    OBVIOUS
  <1>1. Taken = 0 /\ Published = 0 /\ finished = {}
    BY DEF Init, Taken, Published
  <1>2. Pending = << >>
    BY <1>1, SubSeqEmpty DEF Pending
  <1>3. Running = {}
    BY <1>1 DEF Running
  <1> QED
    BY <1>1, <1>2, <1>3 DEF Abstract!Init, Pending, Running, Taken, Published

\* What the invariant says of the state of TaskQueue.
Mapped ==
    /\ submitted \in Seq(Jobs) /\ Pending \in Seq(Jobs) /\ Len(Pending) = Published - Taken
    /\ \A i \in 1 .. Published - Taken : Pending[i] = submitted[Taken + i]
    /\ Running = {Job(i) : i \in 1 .. Taken} \ finished
    /\ Taken <= Published

LEMMA Abstraction == OneSubmitter /\ IInv /\ RInv => Mapped
  <1> SUFFICES ASSUME OneSubmitter, IInv, RInv PROVE Mapped
    OBVIOUS
  <1> USE Facts
  <1>1. submitted \in Seq(Jobs) /\ Taken <= Published
    BY DEF IInv, TypeOK, RInv, WordCounts
  <1>2. \A i \in Taken + 1 .. Published : submitted[i] \in Jobs
    BY <1>1 DEF Published
  <1>3. Taken + 1 \in Int /\ Published \in Int /\ Taken \in Nat /\ Published \in Nat
    OBVIOUS
  <1>4. /\ Pending \in Seq(Jobs)
        /\ Len(Pending) = IF Taken + 1 <= Published THEN Published - (Taken + 1) + 1 ELSE 0
        /\ \A i \in 1 .. Published - (Taken + 1) + 1 : Pending[i] = submitted[Taken + 1 + i - 1]
    BY ONLY <1>2, <1>3, SubSeqProperties DEF Pending
  <1>5. Len(Pending) = Published - Taken
    BY ONLY <1>1, <1>3, <1>4
  <1>6. ASSUME NEW i \in 1 .. Published - Taken
        PROVE  Pending[i] = submitted[Taken + i]
    <2>1. i \in 1 .. Published - (Taken + 1) + 1 /\ Taken + 1 + i - 1 = Taken + i
      BY <1>3
    <2> QED
      BY <1>4, <2>1
  <1>7. \A i \in 1 .. Taken : claimed[i] = WholeCopy(Job(i))
    BY DEF RInv, TakenOnce
  <1>8. Running = {Job(i) : i \in 1 .. Taken} \ finished
    <2>1. ASSUME NEW i \in 1 .. Taken
          PROVE  claimed[i].fn = Job(i)
      <3>1. claimed[i] = WholeCopy(Job(i))
        BY <1>7
      <3> QED
        BY ONLY <3>1 DEF WholeCopy
    <2> QED
      BY <2>1 DEF Running
  <1> QED
    BY <1>1, <1>4, <1>5, <1>6, <1>8 DEF Mapped

LEMMA AbstractionNext == (OneSubmitter /\ IInv /\ RInv)' => Mapped'
  BY Abstraction, PTL

\* `queue += 1` hands the job over.
LEMMA RefinesSubmit ==
    ASSUME IInv, IInv', OneSubmitter, RInv, RInv', Publish(Owner)
    PROVE  Abstract!Submit(Job(Published + 1)) /\ Job(Published + 1) \in Jobs
  <1> USE Facts
  <1> DEFINE j == Job(Published + 1)
  <1>1. Published' = Published + 1 /\ submitted' = Append(submitted, j) /\ Taken' = Taken
        /\ UNCHANGED <<claimed, finished>>
    BY PublishStep DEF Publish, Taken
  <1>2. /\ Pending \in Seq(Jobs) /\ Len(Pending) = Published - Taken /\ submitted \in Seq(Jobs)
        /\ \A i \in 1 .. Published - Taken : Pending[i] = submitted[Taken + i]
        /\ Taken <= Published
    BY Abstraction DEF Mapped
  <1>3. /\ Pending' \in Seq(Jobs) /\ Len(Pending)' = Published + 1 - Taken
        /\ \A i \in 1 .. Published + 1 - Taken : Pending'[i] = submitted'[Taken + i]
    <2>1. /\ Pending' \in Seq(Jobs) /\ Len(Pending)' = Published' - Taken'
          /\ \A i \in 1 .. Published' - Taken' : Pending'[i] = submitted'[Taken' + i]
      BY AbstractionNext DEF Mapped, OneSubmitter
    <2>2. Published' - Taken' = Published + 1 - Taken /\ Taken' = Taken
      BY <1>1
    <2> QED
      BY ONLY <2>1, <2>2
  <1>4. j \in Jobs
    <2>1. Published = made[Owner] - 1
      BY DEF RInv, InOrder, Publish, InSubmit
    <2> QED
      BY <2>1 DEF Job, Jobs
  <1>5. Len(Pending) < QSIZE - 1
    <2>1. Published - Taken <= QSIZE - 2
      BY DEF RInv, Room, Publish, Writing
    <2> QED
      BY <1>2, <2>1, Sizes
  <1>6. Append(Pending, j) \in Seq(Jobs) /\ Len(Append(Pending, j)) = Published + 1 - Taken
    BY <1>2, <1>4
  <1>7. ASSUME NEW i \in 1 .. Published + 1 - Taken
        PROVE  Pending'[i] = Append(Pending, j)[i]
    <2>1. Pending'[i] = Append(submitted, j)[Taken + i]
      BY <1>1, <1>3
    <2>2. Len(submitted) = Published
      BY DEF Published
    <2>3. CASE i = Published + 1 - Taken
      <3>1. Append(submitted, j)[Published + 1] = j
        BY <1>2, <1>4, <2>2
      <3>2. Append(Pending, j)[i] = j
        BY <1>2, <1>4, <2>3
      <3>3. Taken + i = Published + 1
        BY <2>3
      <3> QED
        BY <2>1, <3>1, <3>2, <3>3
    <2>4. CASE i # Published + 1 - Taken
      <3>1. i \in 1 .. Published - Taken /\ Taken + i \in 1 .. Published
        <4>1. Published \in Nat /\ Taken \in Nat /\ i \in 1 .. Published + 1 - Taken
          OBVIOUS
        <4> QED
          BY ONLY <2>4, <4>1
      <3>2. Append(submitted, j)[Taken + i] = submitted[Taken + i]
        BY <1>2, <1>4, <2>2, <3>1
      <3>3. Append(Pending, j)[i] = Pending[i]
        BY <1>2, <1>4, <3>1
      <3> QED
        BY <1>2, <2>1, <3>1, <3>2, <3>3
    <2> QED
      BY <2>3, <2>4
  <1>8. Pending' = Append(Pending, j)
    BY <1>3, <1>6, <1>7, SeqEqual
  <1>9. Running' = Running
    BY <1>1 DEF Running
  <1> QED
    BY <1>1, <1>4, <1>5, <1>8, <1>9 DEF Abstract!Submit, Pending, Running, Taken, Published

\* The CAS takes the oldest job.
LEMMA RefinesTake ==
    ASSUME IInv, IInv', OneSubmitter, RInv, RInv', NEW t \in Threads, TakeJob(t), queue = save[t]
    PROVE  Abstract!Take
  <1> USE Facts
  <1>1. Taken < Published /\ Taken' = Taken + 1 /\ finished' = finished
    BY TakeMeans
  <1>2. Published' = Published /\ submitted' = submitted
    BY WorkFrame DEF DoWork, Elsewhere
  <1>3. submitted \in Seq(Jobs) /\ Len(submitted) = Published
    BY Abstraction DEF Mapped, Published
  <1>4. Head(Pending) = submitted[Taken + 1] /\ Tail(Pending) = SubSeq(submitted, Taken + 1 + 1, Published)
    <2>1. Taken + 1 \in 1 .. Len(submitted) /\ Published \in Taken + 1 .. Len(submitted)
      BY <1>1, <1>3
    <2> QED
      BY ONLY <1>3, <2>1, HeadTailOfSubSeq DEF Pending
  <1>5. Pending' = Tail(Pending)
    BY <1>1, <1>2, <1>4 DEF Pending
  <1>6. Head(Pending) = Job(Taken + 1)
    BY <1>1, <1>4 DEF RInv, InOrder
  <1>7. Running = {Job(i) : i \in 1 .. Taken} \ finished
    BY Abstraction DEF Mapped
  <1>8. Running' = {Job(i) : i \in 1 .. Taken + 1} \ finished
    <2>1. Running' = {Job(i) : i \in 1 .. Taken'} \ finished'
      BY AbstractionNext DEF Mapped, OneSubmitter
    <2> QED
      BY <1>1, <2>1
  <1>9. Job(Taken + 1) \notin finished /\ \A i \in 1 .. Taken : Job(i) # Job(Taken + 1)
    <2>1. \A i \in 1 .. Taken : Job(i) # Job(Taken + 1)
      BY DEF Job
    <2> QED
      BY <2>1 DEF RInv, TakenOnce
  <1>10. Head(Pending) \notin Running \cup finished /\ Running' = Running \cup {Head(Pending)}
    <2>1. 1 .. Taken + 1 = (1 .. Taken) \cup {Taken + 1}
      OBVIOUS
    <2> QED
      BY <1>6, <1>7, <1>8, <1>9, <2>1
  <1>11. Pending # << >>
    <2>1. Len(Pending) = Published - Taken
      BY Abstraction DEF Mapped
    <2> QED
      BY <1>1, <2>1
  <1> QED
    BY <1>1, <1>5, <1>10, <1>11 DEF Abstract!Take, Pending, Running, Taken, Published

\* The function returns.
LEMMA RefinesFinish ==
    ASSUME IInv, IInv', OneSubmitter, RInv, NEW t \in Threads, RunJob(t)
    PROVE  \E j \in Jobs : Abstract!Finish(j)
  <1> USE Facts
  <1>1. pc[t] = "call" /\ finished' = finished \cup {tmp[t].fn} /\ UNCHANGED <<submitted, claimed>>
    BY DEF RunJob
  <1>2. PICK i \in 1 .. Taken : tmp[t].fn = Job(i)
    BY <1>1 DEF RInv, TakenOnce, Busy
  <1>3. Job(i) \in Jobs
    BY DEF RInv, WordCounts, InOrder, Job, Jobs
  <1>4. Job(i) \in Running
    <2>1. Job(i) \notin finished
      BY <1>1, <1>2 DEF RInv, TakenOnce
    <2> QED
      BY <2>1, Abstraction DEF Mapped
  <1>5. Running' = Running \ {Job(i)} /\ Pending' = Pending /\ finished' = finished \cup {Job(i)}
    BY <1>1, <1>2 DEF Running, Pending, Taken, Published
  <1>6. Abstract!Finish(Job(i))
    BY <1>4, <1>5 DEF Abstract!Finish, Pending, Running, Taken, Published
  <1> QED
    BY <1>3, <1>6

\* Every step of the pool is a step of the queue or leaves it as it was.
LEMMA RefinesStep ==
    ASSUME IInv, IInv', OneSubmitter, RInv, RInv', [Next]_vars
    PROVE  [Abstract!Next]_(Abstract!vars)
  <1> USE Facts
  <1>1. ASSUME UNCHANGED <<submitted, claimed, finished>>
        PROVE  UNCHANGED Abstract!vars
    BY <1>1 DEF Abstract!vars
  <1>2. ASSUME NEW t \in Threads, DoWork(t)
        PROVE  Abstract!Next \/ UNCHANGED Abstract!vars
    <2>1. CASE TakeJob(t) /\ queue = save[t]
      BY <2>1, RefinesTake DEF Abstract!Next
    <2>2. CASE RunJob(t)
      BY <2>2, RefinesFinish DEF Abstract!Next
    <2>3. CASE (TakeJob(t) /\ queue # save[t]) \/ AskForWork(t) \/ CopyFn(t) \/ CopyArg(t) \/ UncountJob(t)
      BY <1>1, <2>3 DEF TakeJob, AskForWork, CopyFn, CopyArg, UncountJob, history
    <2> QED
      BY <1>2, <2>1, <2>2, <2>3 DEF DoWork
  <1>3. ASSUME NEW w \in Workers, Worker(w)
        PROVE  Abstract!Next \/ UNCHANGED Abstract!vars
    BY <1>1, <1>2, <1>3 DEF Worker, CheckRunning, SemWait, history
  <1>4. ASSUME Producer(Owner)
        PROVE  Abstract!Next \/ UNCHANGED Abstract!vars
    <2>1. CASE Publish(Owner)
      BY <2>1, RefinesSubmit DEF Abstract!Next
    <2>2. CASE DoWork(Owner)
      BY <1>2, <2>2
    <2>3. CASE \/ BeginSubmit(Owner) \/ Peek(Owner) \/ AvoidOverflow(Owner) \/ PutFn(Owner)
               \/ PutArg(Owner) \/ CountJob(Owner) \/ SemPost(Owner) \/ WorkOneJob(Owner)
      BY <1>1, <2>3 DEF BeginSubmit, Peek, AvoidOverflow, PutFn, PutArg, CountJob, SemPost,
         WorkOneJob, history
    <2> QED
      BY <1>4, <2>1, <2>2, <2>3 DEF Producer, Submit
  <1>5. ASSUME Destroy
        PROVE  UNCHANGED Abstract!vars
    BY <1>1, <1>5 DEF Destroy, StopRunning, WakeEveryone, JoinAll, history
  <1>6. ASSUME UNCHANGED vars
        PROVE  UNCHANGED Abstract!vars
    BY <1>1, <1>6 DEF vars
  <1> QED
    BY <1>3, <1>4, <1>5, <1>6 DEF Next, Terminated

\* The pool is the queue that Cuik_IThreadpool promises: jobs are taken in the order in which
\* they were handed over, each once, and run to their end.
THEOREM PoolIsTaskQueue ==
    ASSUME OneSubmitter
    PROVE  Spec => ImplementsTaskQueue
  <1>1. IInv /\ RInv /\ (IInv /\ RInv)' /\ [Next]_vars => [Abstract!Next]_(Abstract!vars)
    BY RefinesStep
  <1> QED
    BY <1>1, RefinesInit, RingInvariant, PTL DEF Spec, ImplementsTaskQueue, Abstract!Spec
================================================================================

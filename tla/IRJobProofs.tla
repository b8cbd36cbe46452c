------------------------------ MODULE IRJobProofs -----------------------------
(***************************************************************************)
(* irgen waits for its jobs, so nothing of a compile step is left when the *)
(* link step begins or cuik_step_run returns.                              *)
(*                                                                         *)
(* Without a pool irgen calls irgen_job itself, and the main thread's      *)
(* calls are never more than three deep (Nested).  Over a pool `remaining` *)
(* counts the jobs of a call that are not over and those to come           *)
(* (IRCounted), if there is one source: with two the two walks of irgen    *)
(* (driver.c:856 and 877) may see different units, and its count is wrong. *)
(***************************************************************************)
EXTENDS LinkProofs

\* The build that runs generates no IR, has no pool, or is of one source: no two calls of
\* irgen run at a time.
OneIRGen == HasPool /\ ~SyntaxOnly => NSources = 1

\* The statements that a call of irgen has yet to hand out, if it is the only one.
Rest(f) == IF f.at = "next_unit" THEN IF f.i = 1 THEN args.stmts[1] ELSE 0
           ELSE IF f.at = "submit_ir" THEN f.hi - f.lo + 1 ELSE 0

Fits(f) ==
    /\ f.at = "next_unit" => f.i \in {1, 2}
    /\ f.at = "submit_ir" => /\ f.i = 1 /\ f.lo >= 1 /\ f.hi = args.stmts[1]
                             /\ f.lo <= f.hi + 1

\* Its `remaining` counts the jobs that are not over and those to come.
CallCounts(f) == Fits(f) /\ left[1] = Pending(IRLabels) + CeilDiv(Rest(f), IRBatch)

IRCounted ==
    HasPool /\ NSources = 1 =>
        /\ left \in [Sources -> Int]
        /\ \A t \in Threads : \A k \in Spots(stack[t], CallLabels) : CallCounts(stack[t][k])
        /\ (\A t \in Threads : Spots(stack[t], CallLabels) = {}) => Pending(IRLabels) = 0

\* Without a pool: the link step's call, a compile step's, one of an IR job.
Nested ==
    ~HasPool =>
        /\ Len(stack[Main]) <= 3
        /\ Len(stack[Main]) >= 2 =>
              /\ stack[Main][1].at = "submit" /\ stack[Main][2].at \in CompileLabels
              /\ stack[Main][2].at = "submit_ir" =>
                    /\ stack[Main][2].tu \in Added /\ stack[Main][2].lo >= 1
                    /\ stack[Main][2].hi >= 1 => stack[Main][2].tu \notin is_free
        /\ Len(stack[Main]) = 3 =>
              /\ stack[Main][3].at \in IRLabels /\ stack[Main][2].at = "submit_ir"
              /\ stack[Main][3].step = stack[Main][2].step
              /\ stack[Main][3].tu = stack[Main][2].tu /\ stack[Main][2].hi >= 1

-----------------------------------------------------------------------------
(* Batches                                                                  *)

LEMMA NoBatch == CeilDiv(0, IRBatch) = 0
  <1>1. IRBatch \in Nat \ {0}
    BY BuildStepsAssumption
  <1>2. \A b \in Nat \ {0} : \A a \in Nat : a < b => a \div b = 0
    BY SMTT(30)
  <1> QED
    BY <1>1, <1>2 DEF CeilDiv

LEMMA OneBatch ==
    ASSUME NEW n \in Nat \ {0}
    PROVE  /\ CeilDiv(n, IRBatch) \in Int
           /\ CeilDiv(n, IRBatch) = 1 + CeilDiv(n - Min2(IRBatch, n), IRBatch)
  <1>1. IRBatch \in Nat \ {0}
    BY BuildStepsAssumption
  <1>2. \A b \in Nat \ {0} : \A a \in Nat : a \div b \in Int
    BY SMTT(30)
  <1>3. \A b \in Nat \ {0} : \A a \in Nat : (a + b) \div b = (a \div b) + 1
    BY SMTT(30)
  <1>4. \A b \in Nat \ {0} : \A a \in Nat : a < b => a \div b = 0
    BY SMTT(30)
  <1>5. PICK m \in Nat : m = n - 1
    OBVIOUS
  <1>6. (m + IRBatch) \div IRBatch = (m \div IRBatch) + 1
    BY <1>1, <1>3
  <1>7. m + IRBatch = n + IRBatch - 1
    BY <1>1, <1>5
  <1>8. CeilDiv(n, IRBatch) \in Int
    <2>1. n + IRBatch - 1 \in Nat
      BY <1>1
    <2> QED
      BY <1>1, <1>2, <2>1 DEF CeilDiv
  <1>9. CASE n <= IRBatch
    <2>1. m \div IRBatch = 0
      BY <1>1, <1>4, <1>9, <1>5
    <2>2. CeilDiv(n, IRBatch) = 1
      BY <2>1, <1>6, <1>7 DEF CeilDiv
    <2>3. n - Min2(IRBatch, n) = 0
      BY <1>1, <1>9 DEF Min2
    <2> QED
      BY <1>8, <2>2, <2>3, NoBatch
  <1>10. CASE n > IRBatch
    <2>1. Min2(IRBatch, n) = IRBatch
      BY <1>1, <1>10 DEF Min2
    <2>2. (n - IRBatch) + IRBatch - 1 = m
      BY <1>1, <1>5
    <2>3. m \div IRBatch \in Int
      BY <1>1, <1>2
    <2> QED
      BY <1>8, <1>6, <1>7, <2>1, <2>2, <2>3 DEF CeilDiv
  <1> QED
    BY <1>1, <1>9, <1>10

-----------------------------------------------------------------------------
(* Steps that leave irgen's calls and jobs as they are                      *)

LEMMA IRLabelsApart ==
    /\ \A l \in CallLabels : l \notin IRLabels
    /\ \A l \in RootLabels : l \notin CallLabels /\ l \notin IRLabels
    /\ \A l \in CompileLabels : l \notin IRLabels
    /\ \A l \in JobLabels : l \notin CallLabels
    /\ \A l \in {"opt", "signal"} : l \notin IRLabels /\ l \notin CallLabels
    /\ \A l \in {"cpp", "ir", "opt"} : l \notin CallLabels
  BY DEF CompileLabels, RootLabels, JobLabels, Labels, CallLabels, IRLabels

LEMMA PlainSpots ==
    ASSUME NEW S, NEW q \in Seq(S), q # << >>, NEW f \in S, NEW L,
           q[Len(q)].at \notin L, f.at \notin L
    PROVE  /\ Spots(Swap(q, f), L) = Spots(q, L) /\ Spots(Cut(q), L) = Spots(q, L)
           /\ \A k \in Spots(q, L) : /\ Swap(q, f)[k] = q[k] /\ Cut(q)[k] = q[k]
                                     /\ k \in 1 .. Len(q) - 1
  <1>1. Spots(Cut(q), L) = Spots(q, L) \ {Len(q)} /\ Len(q) \notin Spots(q, L)
    BY SpotsPopped
  <1>2. Spots(Swap(q, f), L) = Spots(q, L) \ {Len(q)}
    BY SpotsSwapped
  <1>3. \A k \in Spots(q, L) : k \in 1 .. Len(q) - 1
    BY <1>1 DEF Spots
  <1>4. \A k \in 1 .. Len(q) - 1 : Swap(q, f)[k] = q[k] /\ Cut(q)[k] = q[k]
    <2>1. \A k \in 1 .. Len(q) : Swap(q, f)[k] = IF k = Len(q) THEN f ELSE q[k]
      BY Swapped
    <2>2. \A k \in 1 .. Len(q) - 1 : Cut(q)[k] = q[k]
      BY Popped
    <2>3. \A k \in 1 .. Len(q) - 1 : k \in 1 .. Len(q) /\ k # Len(q)
      OBVIOUS
    <2> QED
      BY <2>1, <2>2, <2>3
  <1> QED
    BY <1>1, <1>2, <1>3, <1>4

LEMMA PushedSpots ==
    ASSUME NEW S, NEW q \in Seq(S), NEW f \in S, NEW L, f.at \notin L
    PROVE  Spots(Push(q, f), L) = Spots(q, L) /\ \A k \in Spots(q, L) : Push(q, f)[k] = q[k]
  <1>1. Spots(Push(q, f), L) = Spots(q, L)
    BY SpotsPushed
  <1>2. \A k \in 1 .. Len(q) : Push(q, f)[k] = q[k]
    BY Pushed
  <1> QED
    BY <1>1, <1>2 DEF Spots

LEMMA IRSame ==
    ASSUME IRCounted, UNCHANGED <<args, left>>,
           \A u \in Threads :
              /\ Spots(stack'[u], CallLabels) = Spots(stack[u], CallLabels)
              /\ \A k \in Spots(stack[u], CallLabels) : stack'[u][k] = stack[u][k],
           Pending(IRLabels)' = Pending(IRLabels)
    PROVE  IRCounted'
  <1> SUFFICES ASSUME (HasPool /\ NSources = 1)'
               PROVE  (/\ left \in [Sources -> Int]
                       /\ \A t \in Threads : \A k \in Spots(stack[t], CallLabels) :
                             CallCounts(stack[t][k])
                       /\ (\A t \in Threads : Spots(stack[t], CallLabels) = {})
                             => Pending(IRLabels) = 0)'
    BY DEF IRCounted
  <1>1. HasPool /\ NSources = 1 /\ Sources' = Sources
    BY SameBuild
  <1>2. \A f : CallCounts(f)' <=> CallCounts(f)
    BY DEF CallCounts, Fits, Rest
  <1> QED
    BY <1>1, <1>2 DEF IRCounted

\* Thread t's calls become r.
LEMMA IROneStack ==
    ASSUME Held, IRCounted, UNCHANGED <<args, left>>, NEW t \in Threads, NEW r,
           stack' = [stack EXCEPT ![t] = r],
           Spots(r, CallLabels) = Spots(stack[t], CallLabels),
           \A k \in Spots(stack[t], CallLabels) : r[k] = stack[t][k],
           Pending(IRLabels)' = Pending(IRLabels)
    PROVE  IRCounted'
  <1>1. \A u \in Threads : stack'[u] = IF u = t THEN r ELSE stack[u]
    BY DEF Held
  <1> QED
    BY <1>1, IRSame

\* What is not irgen's goes on to what is not irgen's; or a job of irgen to its end.
LEMMA IRTurn ==
    ASSUME Held, Held', IRCounted, UNCHANGED <<args, left>>,
           Cardinality(Spots(queue, IRLabels))' = Cardinality(Spots(queue, IRLabels)),
           NEW t \in Threads, stack[t] # << >>, NEW f \in Calls, Become(t, f),
           Top(t).at \notin CallLabels, f.at \notin CallLabels,
           f.at \in IRLabels <=> Top(t).at \in IRLabels
    PROVE  IRCounted'
  <1>1. stack' = [stack EXCEPT ![t] = Swap(stack[t], f)] /\ stack[t] \in Seq(Calls)
    BY DEF Become, Below, Swap, Cut, Held
  <1>2. Cardinality(On(IRLabels))'
          = (Cardinality(On(IRLabels)) + One(f.at \in IRLabels)) - One(Top(t).at \in IRLabels)
    BY <1>1, PendingSwapped
  <1>3. Cardinality(On(IRLabels)) \in Nat
    BY OnFinite, FS_CardinalityType
  <1>4. Pending(IRLabels)' = Pending(IRLabels)
    BY <1>2, <1>3 DEF Pending, One
  <1>5. /\ Spots(Swap(stack[t], f), CallLabels) = Spots(stack[t], CallLabels)
        /\ \A k \in Spots(stack[t], CallLabels) : Swap(stack[t], f)[k] = stack[t][k]
    BY <1>1, PlainSpots DEF Top
  <1> QED
    BY <1>1, <1>4, <1>5, IROneStack

LEMMA IRReturn ==
    ASSUME Held, Held', IRCounted, UNCHANGED <<args, left, queue>>,
           NEW t \in Threads, stack[t] # << >>, Return(t),
           Top(t).at \notin CallLabels, Top(t).at \notin IRLabels
    PROVE  IRCounted'
  <1>1. stack' = [stack EXCEPT ![t] = Cut(stack[t])] /\ stack[t] \in Seq(Calls)
    BY DEF Return, Below, Cut, Held
  <1>2. Cardinality(On(IRLabels))' = Cardinality(On(IRLabels)) - One(Top(t).at \in IRLabels)
    BY PendingPopped
  <1>3. Cardinality(On(IRLabels)) \in Nat
    BY OnFinite, FS_CardinalityType
  <1>4. Pending(IRLabels)' = Pending(IRLabels)
    BY <1>2, <1>3 DEF Pending, One
  <1>5. /\ Spots(Cut(stack[t]), CallLabels) = Spots(stack[t], CallLabels)
        /\ \A k \in Spots(stack[t], CallLabels) : Cut(stack[t])[k] = stack[t][k]
    <2>1. stack[t][Len(stack[t])] \in Calls
      BY <1>1
    <2> QED
      BY <1>1, <2>1, PlainSpots DEF Top
  <1> QED
    BY <1>1, <1>4, <1>5, IROneStack

\* A job is taken from the queue.
LEMMA IRTakes ==
    ASSUME Held, Held', IRCounted, UNCHANGED <<args, left>>, NEW t \in Threads, queue # << >>,
           stack' = [stack EXCEPT ![t] = Push(stack[t], Head(queue))], queue' = Tail(queue)
    PROVE  IRCounted'
  <1>1. stack[t] \in Seq(Calls) /\ queue \in Seq(Queued)
    BY DEF Held
  <1>2. Head(queue) \in Calls /\ Head(queue).at \notin CallLabels
    BY <1>1, IRLabelsApart DEF Queued
  <1>3. Pending(IRLabels)' = Pending(IRLabels)
    BY PendingTaken
  <1>4. /\ Spots(Push(stack[t], Head(queue)), CallLabels) = Spots(stack[t], CallLabels)
        /\ \A k \in Spots(stack[t], CallLabels) : Push(stack[t], Head(queue))[k] = stack[t][k]
    BY <1>1, <1>2, PushedSpots
  <1> QED
    BY <1>3, <1>4, IROneStack

LEMMA IRGoto ==
    ASSUME Where, Held', IRCounted, UNCHANGED <<args, left, queue>>,
           NEW t \in Threads, stack[t] # << >>, NEW l, Goto(t, l), SameKind(l, Top(t).at),
           l \notin {"submit", "next_unit", "submit_ir"},
           Top(t).at \notin CallLabels, l \notin CallLabels,
           l \in IRLabels <=> Top(t).at \in IRLabels
    PROVE  IRCounted'
  <1>1. PICK f \in Calls : Become(t, f) /\ f.at = l
    BY GotoCall
  <1> QED
    BY <1>1, IRTurn DEF Where

LEMMA CompileStepCounts ==
    ASSUME IInv, IInv', IRCounted, NEW t \in Threads, CompileStep(t)
    PROVE  IRCounted'
  <1>1. Where /\ Held /\ Held'
    BY DEF IInv, Where
  <1>2. SameKind("done", "cpp") /\ SameKind("add", "cpp") /\ SameKind("collect", "add")
        /\ SameKind("typecheck", "collect") /\ SameKind("done", "typecheck")
        /\ SameKind("allocate", "typecheck") /\ SameKind("count_ir", "allocate")
    BY DEF SameKind, CompileLabels
  <1>3. \A l \in {"done", "cpp", "add", "collect", "typecheck", "allocate", "count_ir"} :
           l \notin CallLabels /\ l \notin IRLabels
           /\ l \notin {"submit", "next_unit", "submit_ir"}
    BY DEF CallLabels, IRLabels
  <1>4. CASE StepDone(t)
    BY <1>1, <1>3, <1>4, IRReturn DEF StepDone, Active, units, ir
  <1>5. CASE Preprocess(t)
    BY <1>1, <1>2, <1>3, <1>5, IRGoto DEF Preprocess, FailStep, Active, units, ir
  <1>6. CASE AddToUnit(t)
    BY <1>1, <1>2, <1>3, <1>6, IRGoto DEF AddToUnit, Active, ir
  <1>7. CASE SemaCollect(t)
    BY <1>1, <1>2, <1>3, <1>7, IRGoto DEF SemaCollect, Active, ir
  <1>8. CASE SemaTypeCheck(t)
    BY <1>1, <1>2, <1>3, <1>8, IRGoto DEF SemaTypeCheck, FailStep, Active, units, ir
  <1>9. CASE AllocateIR(t)
    BY <1>1, <1>2, <1>3, <1>9, IRGoto DEF AllocateIR, Active, ir
  <1> QED
    BY <1>4, <1>5, <1>6, <1>7, <1>8, <1>9 DEF CompileStep

\* The link step's own call goes on, or returns.
LEMMA RootCounts ==
    ASSUME IInv, IInv', IRCounted, UNCHANGED <<args, left, queue>>,
           NEW t \in Threads, stack[t] # << >>, Top(t).at \in RootLabels,
           \/ Return(t)
           \/ \E f \in Calls : Become(t, f) /\ f.at \in RootLabels
    PROVE  IRCounted'
  <1>1. Where /\ Held /\ Held'
    BY DEF IInv, Where
  <1> QED
    BY <1>1, IRTurn, IRReturn, IRLabelsApart

LEMMA RootGoes ==
    ASSUME IInv, IInv', IRCounted, UNCHANGED <<args, left, queue>>,
           NEW t \in Threads, stack[t] # << >>, NEW l, Goto(t, l),
           Top(t).at \in RootLabels, l \in RootLabels \ {"submit"}
    PROVE  IRCounted'
  <1>1. Where /\ SameKind(l, Top(t).at) /\ l \notin {"next_unit", "submit_ir"}
    BY LabelSets DEF IInv, SameKind, CompileLabels
  <1>2. PICK f \in Calls : Become(t, f) /\ f.at = l
    BY <1>1, GotoCall
  <1> QED
    BY <1>2, RootCounts

\* Another call or job that is not irgen's is submitted by the link step's call.
LEMMA RootPosts ==
    ASSUME IInv, IInv', IRCounted, UNCHANGED <<args, left>>,
           NEW t \in Threads, stack[t] # << >>, Top(t).at \in RootLabels,
           NEW f \in Calls, f.at \in RootLabels, Become(t, f),
           NEW j \in Queued, j.at # "ir", queue' = Append(queue, j)
    PROVE  IRCounted'
  <1>1. Held /\ Held' /\ queue \in Seq(Queued)
    BY DEF IInv, Where, Held
  <1>2. j.at \notin IRLabels
    BY DEF Queued, IRLabels
  <1>3. Cardinality(Spots(queue, IRLabels))'
          = Cardinality(Spots(queue, IRLabels)) + One(j.at \in IRLabels)
    BY <1>1, JobPosted
  <1>4. Cardinality(Spots(queue, IRLabels)) \in Nat
    BY <1>1, SpotsFinite
  <1>5. Cardinality(Spots(queue, IRLabels))' = Cardinality(Spots(queue, IRLabels))
    BY <1>2, <1>3, <1>4 DEF One
  <1> QED
    BY <1>1, <1>5, IRTurn, IRLabelsApart

LEMMA LinkStepCounts ==
    ASSUME IInv, IInv', GInv, IRCounted, NEW t \in Threads, LinkStep(t)
    PROVE  IRCounted'
  <1> DEFINE g == Top(t)
  <1>1. Where /\ Held /\ Held' /\ args \in Builds
    BY DEF IInv, Where, Typed
  <1>2. {"backend", "wait_opt", "reread", "futex", "asleep", "export", "ld_end", "return"}
          \subseteq RootLabels \ {"submit"}
    BY DEF RootLabels, Labels, CompileLabels, JobLabels
  <1>3. CASE PerFunction(t)
    <2> DEFINE f == [g EXCEPT !.i = @ + 1]
    <2>1. stack[t] # << >> /\ g.at = "backend" /\ g \in Calls /\ UNCHANGED <<args, left>>
      BY <1>1, <1>3, TopCall DEF PerFunction, Active, units
    <2>2. CASE Goto(t, "wait_opt") /\ UNCHANGED queue
      BY <1>2, <2>1, <2>2, RootGoes
    <2>3. CASE ~(Goto(t, "wait_opt") /\ UNCHANGED queue)
      <3>1. queue' = Append(queue, Call("opt", Ld)) /\ Become(t, f)
        BY <1>3, <2>3 DEF PerFunction, Submit
      <3>2. f \in Calls /\ f.at = "backend"
        BY <2>1, MoreFrame
      <3>3. Call("opt", Ld) \in Queued /\ Call("opt", Ld).at = "opt"
        BY <1>1, CallFrame DEF JobLabels, Queued
      <3> HIDE DEF f
      <3> QED
        BY <1>2, <2>1, <3>1, <3>2, <3>3, RootPosts
    <2> QED
      BY <2>2, <2>3
  <1>4. CASE OptimizeFunctions(t)
    <2>1. stack[t] # << >> /\ g.at = "opt" /\ Goto(t, "signal") /\ UNCHANGED <<args, left, queue>>
      BY <1>4 DEF OptimizeFunctions, Active, units
    <2>2. SameKind("signal", g.at) /\ {"opt", "signal"} \cap (CallLabels \cup IRLabels) = {}
      BY <2>1 DEF SameKind, JobLabels, CallLabels, IRLabels
    <2> QED
      BY <1>1, <2>1, <2>2, IRGoto
  <1>5. CASE FutexSignal(t)
    <2>1. SignalEffect /\ UNCHANGED <<args, left, queue>>
      BY <1>1, <1>5, SignalShape DEF Where, FutexSignal, units, ir
    <2>2. \A u \in Threads : Spots(stack'[u], CallLabels) = Spots(stack[u], CallLabels)
      BY <2>1, SignalSpots DEF CallLabels
    <2>3. On(IRLabels)' = On(IRLabels)
      BY <2>1, SignalSpots DEF IRLabels
    <2>4. \A u \in Threads : \A k \in Spots(stack[u], CallLabels) : stack'[u][k] = stack[u][k]
      <3>1. ASSUME NEW u \in Threads, NEW k \in Spots(stack[u], CallLabels)
            PROVE  stack'[u][k] = stack[u][k]
        <4>1. stack[u][k].at \in CallLabels /\ k \in Spots(stack'[u], CallLabels)
          BY <2>2, <3>1 DEF Spots
        <4>2. k \in 1 .. Len(stack'[u])
          BY <4>1 DEF Spots
        <4>3. ~Woken(stack[u][k], stack'[u][k])
          BY <4>1 DEF Woken, CallLabels
        <4> QED
          BY <2>1, <4>2, <4>3 DEF SignalEffect
      <3> QED
        BY <3>1
    <2>5. Pending(IRLabels)' = Pending(IRLabels)
      BY <2>1, <2>3 DEF Pending
    <2> QED
      BY <2>1, <2>2, <2>4, <2>5, IRSame
  <1>6. CASE OptimizeDone(t)
    BY <1>2, <1>6, RootGoes DEF OptimizeDone, Active, ir
  <1>7. CASE FutexTest(t)
    BY <1>2, <1>7, RootGoes DEF FutexTest, Active, units, ir
  <1>8. CASE FutexReread(t)
    <2> DEFINE f == [g EXCEPT !.at = "futex", !.lo = opt_left]
    <2>1. /\ stack[t] # << >> /\ g.at = "reread" /\ g \in Calls /\ Become(t, f)
          /\ UNCHANGED <<args, left, queue>> /\ opt_left \in Int
      BY <1>1, <1>8, TopCall DEF FutexReread, Active, units, ir, IInv, Typed
    <2>2. f \in Calls /\ f.at = "futex"
      BY <1>1, <2>1, ReadFrame
    <2> HIDE DEF f
    <2> QED
      BY <1>2, <2>1, <2>2, RootCounts
  <1>9. CASE FutexWait(t)
    BY <1>2, <1>9, RootGoes DEF FutexWait, Active, units, ir
  <1>10. CASE Export(t)
    BY <1>2, <1>10, RootGoes DEF Export, Active, units, ir
  <1>11. CASE LdDone(t)
    BY <1>2, <1>11, RootGoes DEF LdDone, Active, units, ir
  <1> QED
    BY <1>3, <1>4, <1>5, <1>6, <1>7, <1>8, <1>9, <1>10, <1>11 DEF LinkStep

LEMMA RunStepCounts ==
    ASSUME IInv, IInv', IRCounted, NEW t \in Threads, RunStep(t)
    PROVE  IRCounted'
  <1> DEFINE g == Top(t)
  <1>1. Where /\ Held /\ Held' /\ args \in Builds
    BY DEF IInv, Where, Typed
  <1>2. /\ {"submit", "wait_deps", "check_deps", "return", "backend"} \subseteq RootLabels
        /\ "submit" \notin {"wait_deps", "check_deps", "return", "backend"}
    BY DEF RootLabels, Labels, CompileLabels, JobLabels
  <1>3. CASE SubmitDep(t)
    <2>1. PICK e : e = g.i + 1
      OBVIOUS
    <2>2. PICK d : d = Call("cpp", e)
      OBVIOUS
    <2>3. PICK f : f = Further(g, e)
      OBVIOUS
    <2>4. Submitting(t, e, d, f) /\ UNCHANGED left
      BY <1>1, <1>3, <2>1, <2>2, <2>3, SubmitShape DEF SubmitDep, ir
    <2>5. /\ stack[t] # << >> /\ g.at \in RootLabels /\ f \in Calls /\ f.at \in RootLabels
          /\ d \in Queued /\ d \in Calls /\ d.at = "cpp" /\ UNCHANGED <<args, left>>
      BY <1>2, <2>4 DEF Submitting
    <2>6. CASE queue' = Append(queue, d) /\ Become(t, f)
      BY <2>5, <2>6, RootPosts
    <2>7. CASE queue' = queue /\ stack' = [stack EXCEPT ![t] = Push(Swap(stack[t], f), d)]
      <3>1. /\ f.at \notin CallLabels /\ g.at \notin CallLabels /\ d.at \notin CallLabels
            /\ f.at \notin IRLabels /\ g.at \notin IRLabels /\ d.at \notin IRLabels
        BY <2>5, IRLabelsApart DEF IRLabels
      <3>2. On(IRLabels)' = On(IRLabels)
        BY <1>1, <2>5, <2>7, <3>1, PendingCalled
      <3>3. Pending(IRLabels)' = Pending(IRLabels)
        BY <2>7, <3>2 DEF Pending
      <3>4. PICK q : q = Swap(stack[t], f)
        OBVIOUS
      <3>5. /\ q \in Seq(Calls) /\ Spots(q, CallLabels) = Spots(stack[t], CallLabels)
            /\ \A k \in Spots(stack[t], CallLabels) : q[k] = stack[t][k]
        <4>1. stack[t] \in Seq(Calls) /\ stack[t][Len(stack[t])].at \notin CallLabels
          BY <1>1, <3>1 DEF Held, Top
        <4>2. q \in Seq(Calls)
          BY <2>5, <3>4, <4>1, Swapped
        <4>3. /\ Spots(Swap(stack[t], f), CallLabels) = Spots(stack[t], CallLabels)
              /\ \A k \in Spots(stack[t], CallLabels) : Swap(stack[t], f)[k] = stack[t][k]
          BY <2>5, <3>1, <4>1, PlainSpots
        <4> QED
          BY <3>4, <4>2, <4>3
      <3>6. /\ Spots(Push(q, d), CallLabels) = Spots(q, CallLabels)
            /\ \A k \in Spots(q, CallLabels) : Push(q, d)[k] = q[k]
        BY <2>5, <3>1, <3>5, PushedSpots
      <3> QED
        BY <1>1, <2>5, <2>7, <3>3, <3>4, <3>5, <3>6, IROneStack
    <2> QED
      BY <2>4, <2>6, <2>7 DEF Submitting
  <1>4. CASE DepsSubmitted(t)
    <2>1. PICK l \in {"wait_deps", "check_deps"} : Goto(t, l)
      BY <1>4 DEF DepsSubmitted
    <2> QED
      BY <1>2, <1>4, <2>1, RootGoes DEF DepsSubmitted, Active, units, ir
  <1>5. CASE DepsDone(t)
    BY <1>2, <1>5, RootGoes DEF DepsDone, Active, units, ir
  <1>6. CASE CheckDeps(t)
    <2>1. stack[t] # << >> /\ g.at = "check_deps" /\ UNCHANGED <<args, left, queue>>
      BY <1>6 DEF CheckDeps, Active, units, ir
    <2>2. CASE Goto(t, "return")
      BY <1>2, <2>1, <2>2, RootGoes
    <2>3. CASE Become(t, Call("backend", Ld))
      <3>1. Call("backend", Ld) \in Calls /\ Call("backend", Ld).at = "backend"
        BY <1>1, <1>2, CallFrame
      <3> QED
        BY <1>2, <2>1, <2>3, <3>1, RootCounts
    <2> QED
      BY <1>6, <2>2, <2>3 DEF CheckDeps
  <1>7. CASE StepRunReturn(t)
    BY <1>2, <1>7, RootCounts DEF StepRunReturn, Active, units, ir
  <1> QED
    BY <1>3, <1>4, <1>5, <1>6, <1>7 DEF RunStep

-----------------------------------------------------------------------------
(* irgen, when there is one source                                          *)

\* The only compile step is on top of its thread's calls, and nowhere else.
LEMMA OnlyCall ==
    ASSUME Where, args \in Builds, NSources = 1,
           NEW t \in Threads, stack[t] # << >>, Top(t).at \in CompileLabels
    PROVE  \A u \in Threads : \A k \in 1 .. Len(stack[u]) :
              stack[u][k].at \in CompileLabels => u = t /\ k = Len(stack[t])
  <1>1. Sources = {1} /\ stack \in [Threads -> Seq(Calls)]
    BY DEF Sources, Where, Held
  <1>2. Len(stack[t]) \in At(stack[t], 1)
    BY <1>1, TopIsLive
  <1>3. ASSUME NEW u \in Threads, NEW k \in 1 .. Len(stack[u]), stack[u][k].at \in CompileLabels
        PROVE  k \in At(stack[u], 1)
    <2>1. stack[u] \in Seq(Calls)
      BY <1>1
    <2>2. stack[u][k] \in Calls
      BY <2>1
    <2>3. stack[u][k].step = 1
      BY <1>1, <1>3, <2>2 DEF Calls
    <2> QED
      BY <1>3, <2>3 DEF At
  <1>4. InOnePlace(1)
    BY <1>1 DEF Where, OnePlace
  <1> QED
    BY <1>2, <1>3, <1>4 DEF InOnePlace

\* What it counts before, and has to count after it goes on to f.
LEMMA CountsBefore ==
    ASSUME IInv, IRCounted, HasPool, NSources = 1,
           NEW t \in Threads, stack[t] # << >>, Top(t).at \in CompileLabels
    PROVE  /\ left \in [Sources -> Int]
           /\ Top(t).at \in CallLabels => CallCounts(Top(t))
           /\ Top(t).at \notin CallLabels => Pending(IRLabels) = 0
  <1>1. Where /\ args \in Builds /\ stack[t] \in Seq(Calls)
    BY DEF IInv, Where, Held, Typed
  <1>2. Len(stack[t]) \in 1 .. Len(stack[t]) /\ CallLabels \subseteq CompileLabels
    BY <1>1, LabelSets
  <1>3. Top(t).at \in CallLabels => Len(stack[t]) \in Spots(stack[t], CallLabels)
    BY <1>2 DEF Spots, Top
  <1>4. Top(t).at \notin CallLabels => \A u \in Threads : Spots(stack[u], CallLabels) = {}
    <2>1. \A u \in Threads : \A k \in 1 .. Len(stack[u]) :
              stack[u][k].at \in CompileLabels => u = t /\ k = Len(stack[t])
      BY <1>1, OnlyCall
    <2> QED
      BY <1>2, <2>1 DEF Spots, Top
  <1> QED
    BY <1>3, <1>4 DEF IRCounted, Top

LEMMA CountsAfter ==
    ASSUME IInv, args' = args, NSources = 1,
           NEW t \in Threads, stack[t] # << >>, Top(t).at \in CompileLabels,
           NEW f \in Calls, Become(t, f),
           left' \in [Sources -> Int],
           f.at \in CallLabels => CallCounts(f)',
           f.at \notin CallLabels => Pending(IRLabels)' = 0
    PROVE  IRCounted'
  <1>1. Where /\ Held /\ args \in Builds /\ Sources' = Sources
    BY SameBuild DEF IInv, Where, Held, Typed
  <1>2. PICK n : n = Len(stack[t])
    OBVIOUS
  <1>3. /\ n \in 1 .. Len(stack'[t]) /\ Len(stack'[t]) = n
        /\ \A k \in 1 .. n : stack'[t][k] = IF k = n THEN f ELSE stack[t][k]
        /\ \A u \in Threads : u # t => stack'[u] = stack[u]
    BY <1>1, <1>2, TurnShape
  <1>4. \A u \in Threads : \A k \in 1 .. Len(stack[u]) :
              stack[u][k].at \in CallLabels => u = t /\ k = n
    BY <1>1, <1>2, OnlyCall, LabelSets
  <1>5. \A u \in Threads : \A k \in Spots(stack'[u], CallLabels) :
              u = t /\ k = n /\ stack'[u][k] = f /\ f.at \in CallLabels
    <2>1. ASSUME NEW k \in Spots(stack'[t], CallLabels)
          PROVE  k = n /\ stack'[t][k] = f /\ f.at \in CallLabels
      <3>1. k \in 1 .. n /\ stack'[t][k].at \in CallLabels
        BY <1>3 DEF Spots
      <3> QED
        BY <1>2, <1>3, <1>4, <3>1
    <2>2. ASSUME NEW u \in Threads, u # t, NEW k \in Spots(stack'[u], CallLabels)
          PROVE  FALSE
      <3>1. k \in 1 .. Len(stack[u]) /\ stack[u][k].at \in CallLabels
        BY <1>3, <2>2 DEF Spots
      <3> QED
        BY <1>4, <2>2, <3>1
    <2> QED
      BY <2>1, <2>2
  <1>6. f.at \in CallLabels => n \in Spots(stack'[t], CallLabels)
    BY <1>3 DEF Spots
  <1>7. (\A u \in Threads : \A k \in Spots(stack[u], CallLabels) : CallCounts(stack[u][k]))'
    BY <1>5
  <1>8. ((\A u \in Threads : Spots(stack[u], CallLabels) = {}) => Pending(IRLabels) = 0)'
    BY <1>6
  <1> QED
    BY <1>1, <1>7, <1>8 DEF IRCounted

LEMMA OneUnit ==
    ASSUME IInv, GInv, NSources = 1,
           NEW t \in Threads, stack[t] # << >>, Top(t).at \in GenLabels
    PROVE  /\ Top(t).step = 1 /\ Sources = {1} /\ Len(cu) = 1 /\ cu[1] = 1
           /\ args.stmts[1] \in Nat /\ StmtCount(1) = args.stmts[1]
           /\ Cardinality(Listed) = args.stmts[1]
  <1>1. /\ Sources = {1} /\ cu \in Seq({1}) /\ args.stmts[1] \in Nat
    BY BuildShape DEF IInv, Typed, Sources
  <1>2. Top(t).step = 1 /\ Stage(Top(t).at, 1)
    BY <1>1, TopStage, LabelSets
  <1>3. 1 \in Added /\ 1 \notin is_free
    BY <1>2 DEF Stage, GenLabels
  <1>4. Len(cu) = 1 /\ cu[1] = 1
    <2>1. Len(cu) \in Nat /\ \A k \in 1 .. Len(cu) : cu[k] = 1
      BY <1>1
    <2>2. Len(cu) >= 1
      BY <1>3, <2>1 DEF Added
    <2>3. 1 \in 1 .. Len(cu) /\ Len(cu) \in 1 .. Len(cu)
      BY <2>1, <2>2
    <2> QED
      BY <2>1, <2>3 DEF GInv, AddedOnce
  <1>5. StmtCount(1) = args.stmts[1]
    BY <1>3 DEF StmtCount
  <1>6. Listed = {1} \X (1 .. args.stmts[1])
    <2>1. Funcs = {1} \X (1 .. args.stmts[1])
      BY <1>1 DEF Funcs
    <2> QED
      BY <1>3, <1>4, <2>1 DEF Listed
  <1>7. Cardinality({1} \X (1 .. args.stmts[1])) = args.stmts[1]
    <2>1. /\ IsFiniteSet({1}) /\ Cardinality({1}) = 1
          /\ IsFiniteSet(1 .. args.stmts[1]) /\ Cardinality(1 .. args.stmts[1]) = args.stmts[1]
      <3>1. IsFiniteSet({1}) /\ Cardinality({1}) = 1
        BY FS_Singleton
      <3>2. PICK n \in Nat : n = args.stmts[1]
        BY <1>1
      <3>3. IsFiniteSet(1 .. n) /\ Cardinality(1 .. n) = n
        BY FS_Interval
      <3> QED
        BY <3>1, <3>2, <3>3
    <2>2. Cardinality({1} \X (1 .. args.stmts[1]))
            = Cardinality({1}) * Cardinality(1 .. args.stmts[1])
      BY <2>1, FS_Product
    <2> QED
      BY <1>1, <2>1, <2>2
  <1> QED
    BY <1>1, <1>2, <1>4, <1>5, <1>6, <1>7

LEMMA PendingTurn ==
    ASSUME IInv, IInv', UNCHANGED queue, NEW t \in Threads, stack[t] # << >>,
           NEW f \in Calls, Become(t, f), Top(t).at \notin IRLabels, f.at \notin IRLabels
    PROVE  Pending(IRLabels)' = Pending(IRLabels)
  <1>1. Held /\ Held' /\ stack' = [stack EXCEPT ![t] = Swap(stack[t], f)]
    BY DEF Become, Below, Swap, Cut, IInv, Where
  <1>2. Cardinality(On(IRLabels))'
          = (Cardinality(On(IRLabels)) + One(f.at \in IRLabels)) - One(Top(t).at \in IRLabels)
    BY <1>1, PendingSwapped
  <1>3. Cardinality(On(IRLabels)) \in Nat
    BY <1>1, OnFinite
  <1> QED
    BY <1>2, <1>3 DEF Pending, One

LEMMA PendingNat == IInv => Pending(IRLabels) \in Nat
  BY PendingNone DEF IInv, Where

\* A job of irgen returns, and the call that submitted it is told.
LEMMA IRJobEnds ==
    ASSUME IInv, IInv', GInv, IRCounted, HasPool, NSources = 1, NEW t \in Threads, IRJobDone(t)
    PROVE  IRCounted'
  <1>1. /\ Where /\ Held /\ Held' /\ args \in Builds /\ stack[t] \in Seq(Calls)
        /\ stack[t] # << >> /\ Top(t).at = "ir_end" /\ Return(t) /\ args' = args
        /\ queue' = queue /\ left' = [left EXCEPT ![Top(t).step] = @ - 1]
    BY DEF IRJobDone, Active, units, IInv, Where, Held, Typed
  <1>2. Sources = {1} /\ Sources' = Sources
    BY <1>1, SameBuild DEF Sources
  <1>3. Top(t) \in Frames /\ Top(t).at \in IRLabels
    <2>1. Len(stack[t]) \in 1 .. Len(stack[t])
      BY <1>1
    <2> QED
      BY <1>1, <2>1 DEF Frames, Top, IRLabels
  <1>4. Top(t).step = 1
    BY <1>2, <1>3 DEF GInv, JobsOwned, Owned
  <1>5. left \in [Sources -> Int] /\ left' \in [Sources -> Int] /\ left'[1] = left[1] - 1
    BY <1>1, <1>2, <1>4 DEF IRCounted
  <1>6. Pending(IRLabels)' = Pending(IRLabels) - 1 /\ Pending(IRLabels) \in Nat
        /\ Pending(IRLabels) # 0
    <2>1. Cardinality(On(IRLabels))' = Cardinality(On(IRLabels)) - One(Top(t).at \in IRLabels)
      BY <1>1, PendingPopped
    <2>2. Cardinality(On(IRLabels)) \in Nat /\ Cardinality(Spots(queue, IRLabels)) \in Nat
      BY <1>1, OnFinite, SpotsFinite DEF Held
    <2>3. Pending(IRLabels)' = Pending(IRLabels) - 1
      BY <1>1, <1>3, <2>1, <2>2 DEF Pending, One
    <2>4. Pending(IRLabels) # 0 /\ Pending(IRLabels) \in Nat
      BY <1>1, <1>3, PendingNone
    <2> QED
      BY <2>3, <2>4
  <1>7. \A u \in Threads :
           /\ Spots(stack'[u], CallLabels) = Spots(stack[u], CallLabels)
           /\ \A k \in Spots(stack[u], CallLabels) : stack'[u][k] = stack[u][k]
    <2>1. \A u \in Threads : stack'[u] = IF u = t THEN Cut(stack[t]) ELSE stack[u]
      BY <1>1 DEF Return, Below, Cut, Held
    <2>2. stack[t][Len(stack[t])] \in Calls /\ stack[t][Len(stack[t])].at \notin CallLabels
      BY <1>1 DEF Top, CallLabels
    <2>3. /\ Spots(Cut(stack[t]), CallLabels) = Spots(stack[t], CallLabels)
          /\ \A k \in Spots(stack[t], CallLabels) : Cut(stack[t])[k] = stack[t][k]
      BY <1>1, <2>2, PlainSpots
    <2> QED
      BY <2>1, <2>3
  <1>8. ASSUME NEW f \in Calls, CallCounts(f)
        PROVE  CallCounts(f)'
    <2>1. PICK c : c = CeilDiv(Rest(f), IRBatch)
      OBVIOUS
    <2>2. Fits(f)' /\ CeilDiv(Rest(f), IRBatch)' = c
      BY <1>1, <1>8, <2>1 DEF CallCounts, Fits, Rest
    <2>3. left[1] = Pending(IRLabels) + c
      BY <1>8, <2>1 DEF CallCounts
    <2>4. c \in Int
      <3>1. Rest(f) \in Int
        <4>1. f.hi \in Int /\ f.lo \in Int
          BY DEF Calls
        <4>2. args.stmts[1] \in Int
          BY <1>1, <1>2, BuildShape
        <4> QED
          BY <4>1, <4>2 DEF Rest
      <3> QED
        BY <2>1, <3>1, BuildStepsAssumption DEF CeilDiv
    <2>5. left'[1] = Pending(IRLabels)' + c
      BY <1>5, <1>2, <1>6, <2>3, <2>4
    <2> QED
      BY <2>2, <2>5 DEF CallCounts
  <1>9. \E u \in Threads : Spots(stack[u], CallLabels) # {}
    BY <1>6 DEF IRCounted
  <1>10. (\A u \in Threads : \A k \in Spots(stack[u], CallLabels) : CallCounts(stack[u][k]))'
    <2>1. \A u \in Threads : \A k \in Spots(stack[u], CallLabels) :
             stack[u][k] \in Calls /\ CallCounts(stack[u][k])
      BY <1>1 DEF Held, Spots, IRCounted
    <2>2. \A f \in Calls : CallCounts(f) => CallCounts(f)'
      BY <1>8
    <2> QED
      BY <1>7, <2>1, <2>2
  <1> QED
    BY <1>5, <1>2, <1>7, <1>9, <1>10 DEF IRCounted

LEMMA IRGenCounts ==
    ASSUME IInv, IInv', GInv, IRCounted, HasPool, NSources = 1, NEW t \in Threads, IRGen(t)
    PROVE  IRCounted'
  <1>1. PICK g : g = Top(t)
    OBVIOUS
  <1>2. Where /\ Held /\ Held' /\ args \in Builds /\ Sources = {1}
    BY DEF IInv, Where, Typed, Sources
  <1>3. /\ {"count_ir", "next_unit", "submit_ir", "wait_ir"} \subseteq GenLabels
        /\ GenLabels \subseteq CompileLabels /\ CallLabels \subseteq GenLabels
        /\ "count_ir" \notin CallLabels
        /\ \A l \in GenLabels : l \notin IRLabels
    BY LabelSets DEF GenLabels, CallLabels, IRLabels
  <1>4. CASE CountIR(t)
    <2>1. /\ stack[t] # << >> /\ g.at = "count_ir" /\ Become(t, AtUnit(g, 1))
          /\ UNCHANGED <<queue, args>>
          /\ left' = [left EXCEPT ![g.step] = CeilDiv(Cardinality(Listed), IRBatch)]
      BY <1>1, <1>4 DEF CountIR, Active, AtUnit, units
    <2>2. g \in Calls /\ g.step = 1 /\ args.stmts[1] \in Nat /\ Cardinality(Listed) = args.stmts[1]
      BY <1>1, <1>2, <1>3, <2>1, OneUnit, TopCall
    <2>3. PICK f : f = AtUnit(g, 1)
      OBVIOUS
    <2>4. f \in Calls /\ f.at = "next_unit" /\ f.i = 1
      BY <1>2, <2>2, <2>3, UnitFrame, AtUnitParts
    <2>5. Pending(IRLabels)' = 0 /\ left \in [Sources -> Int]
      <3>1. Pending(IRLabels)' = Pending(IRLabels)
        BY <1>1, <1>3, <2>1, <2>3, <2>4, PendingTurn
      <3> QED
        BY <1>1, <1>3, <2>1, <3>1, CountsBefore
    <2>6. PICK c : c = CeilDiv(args.stmts[1], IRBatch)
      OBVIOUS
    <2>7. c \in Int
      BY <2>2, <2>6, BuildStepsAssumption DEF CeilDiv
    <2>8. left' \in [Sources -> Int] /\ left'[1] = c
      BY <1>2, <2>1, <2>2, <2>5, <2>6, <2>7
    <2>9. CallCounts(f)'
      <3>1. Fits(f)' /\ Rest(f)' = args.stmts[1]
        BY <2>1, <2>4 DEF Fits, Rest
      <3>2. CeilDiv(Rest(f), IRBatch)' = c
        BY <2>6, <3>1 DEF CeilDiv
      <3> QED
        BY <2>5, <2>7, <2>8, <3>1, <3>2 DEF CallCounts
    <2> QED
      BY <1>1, <1>3, <2>1, <2>3, <2>4, <2>8, <2>9, CountsAfter DEF CallLabels
  <1>5. ASSUME stack[t] # << >>, g.at \in CallLabels
        PROVE  /\ g \in Calls /\ g.step = 1 /\ Len(cu) = 1 /\ cu[1] = 1
               /\ args.stmts[1] \in Nat /\ StmtCount(1) = args.stmts[1]
               /\ left \in [Sources -> Int] /\ Fits(g)
               /\ left[1] = Pending(IRLabels) + CeilDiv(Rest(g), IRBatch)
               /\ Pending(IRLabels) \in Nat
    <2>1. CallCounts(g) /\ left \in [Sources -> Int]
      BY <1>1, <1>3, <1>5, CountsBefore
    <2> QED
      BY <1>1, <1>2, <1>3, <1>5, <2>1, OneUnit, TopCall, PendingNat DEF CallCounts
  \* The call goes on to f and hands out nothing.
  <1>6. ASSUME stack[t] # << >>, g.at \in CallLabels, NEW f \in Calls, Become(t, f),
               f.at \in CallLabels, UNCHANGED <<queue, args, left>>, Fits(f), Rest(f) = Rest(g)
        PROVE  IRCounted'
    <2>1. Pending(IRLabels)' = Pending(IRLabels)
      BY <1>1, <1>3, <1>6, PendingTurn
    <2>2. PICK c : c = CeilDiv(Rest(g), IRBatch)
      OBVIOUS
    <2>3. Fits(f)' /\ CeilDiv(Rest(f), IRBatch)' = c
      BY <1>6, <2>2 DEF Fits, Rest, CeilDiv
    <2>4. left' \in [Sources -> Int] /\ left'[1] = Pending(IRLabels)' + c
      BY <1>5, <1>6, <2>1, <2>2
    <2>5. CallCounts(f)'
      BY <2>3, <2>4 DEF CallCounts
    <2> QED
      BY <1>1, <1>3, <1>6, <2>4, <2>5, CountsAfter
  <1>7. CASE NextUnit(t)
    <2>1. /\ stack[t] # << >> /\ g.at = "next_unit" /\ g.i <= Len(cu)
          /\ Become(t, InUnit(g, cu[g.i], StmtCount(cu[g.i])))
          /\ UNCHANGED <<queue, args, left>>
      BY <1>1, <1>7 DEF NextUnit, Active, InUnit, units, ir
    <2>2. g.i = 1 /\ Rest(g) = args.stmts[1] /\ g.at \in CallLabels
      BY <1>5, <2>1 DEF Fits, CallLabels, Rest
    <2>3. PICK f : f = InUnit(g, 1, args.stmts[1])
      OBVIOUS
    <2>4. Become(t, f)
      BY <1>5, <2>1, <2>2, <2>3
    <2>5. /\ f \in Calls /\ f.at = "submit_ir"
          /\ f.i = 1 /\ f.lo = 1 /\ f.hi = args.stmts[1]
      BY <1>2, <1>5, <2>1, <2>2, <2>3, StmtFrame, InUnitParts
    <2>6. Fits(f) /\ Rest(f) = Rest(g)
      BY <1>5, <2>1, <2>2, <2>5 DEF Fits, Rest
    <2> QED
      BY <1>6, <2>1, <2>2, <2>4, <2>5, <2>6 DEF CallLabels
  <1>8. CASE AllSubmitted(t)
    <2>1. /\ stack[t] # << >> /\ g.at = "next_unit" /\ g.i > Len(cu) /\ Goto(t, "wait_ir")
          /\ UNCHANGED <<queue, args, left>>
      BY <1>1, <1>8 DEF AllSubmitted, Active, units, ir
    <2>2. g.i = 2 /\ Rest(g) = 0 /\ g.at \in CallLabels
      BY <1>5, <2>1 DEF Fits, CallLabels, Rest
    <2>3. SameKind("wait_ir", g.at)
      BY <1>3, <2>1 DEF SameKind
    <2>4. PICK f \in Calls : Become(t, f) /\ f.at = "wait_ir"
      BY <1>1, <1>2, <2>1, <2>3, GotoCall
    <2>5. Fits(f) /\ Rest(f) = Rest(g)
      BY <2>2, <2>4 DEF Fits, Rest
    <2> QED
      BY <1>6, <2>1, <2>2, <2>4, <2>5 DEF CallLabels
  <1>9. CASE SubmitIR(t)
    <2>1. PICK f : f = FromStmt(g, LastOf(g) + 1)
      OBVIOUS
    <2>2. PICK e : e = AtUnit(g, g.i + 1)
      OBVIOUS
    <2>3. PICK job : job = IRJob(g.step, g.tu, g.lo, LastOf(g))
      OBVIOUS
    <2>4. /\ stack[t] # << >> /\ g.at = "submit_ir" /\ UNCHANGED <<args, left>>
          /\ f \in Calls /\ f.at = "submit_ir" /\ f.i = g.i
          /\ f.lo = LastOf(g) + 1 /\ f.hi = g.hi
          /\ e \in Calls /\ e.at = "next_unit" /\ e.i = g.i + 1
          /\ job \in Queued /\ job.at = "ir"
          /\ IRSubmitted(t, e, f, job)
      BY <1>1, <1>9, <2>1, <2>2, <2>3, SubmitIRShape
    <2>5. g.at \in CallLabels /\ f.at \in CallLabels /\ e.at \in CallLabels
      BY <2>4 DEF CallLabels
    <2>6. /\ g.i = 1 /\ g.lo >= 1 /\ g.hi = args.stmts[1] /\ g.lo <= g.hi + 1
          /\ g.lo \in Int /\ g.hi \in Int /\ Rest(g) = g.hi - g.lo + 1
      BY <1>5, <2>4, <2>5 DEF Fits, Rest, Calls
    <2>7. CASE Become(t, e) /\ queue' = queue /\ g.lo > g.hi
      <3>1. Fits(e) /\ Rest(e) = Rest(g)
        BY <2>4, <2>6, <2>7 DEF Fits, Rest
      <3> QED
        BY <1>6, <2>4, <2>5, <2>7, <3>1
    <2>8. CASE Submit(job) /\ Become(t, f) /\ g.lo <= g.hi
      <3>1. PICK n : n = g.hi - g.lo + 1
        OBVIOUS
      <3>2. n \in Nat \ {0}
        BY <2>6, <2>8, <3>1
      <3>3. PICK c : c = CeilDiv(n - Min2(IRBatch, n), IRBatch)
        OBVIOUS
      <3>4. CeilDiv(n, IRBatch) = 1 + c /\ CeilDiv(n, IRBatch) \in Int
        BY <3>2, <3>3, OneBatch
      <3>5. c \in Int
        BY <3>2, <3>3, BuildStepsAssumption DEF CeilDiv, Min2
      <3>6. left[1] = (Pending(IRLabels) + 1) + c
        BY <1>5, <2>4, <2>5, <2>6, <3>1, <3>4, <3>5
      <3>7. /\ LastOf(g) \in Int /\ LastOf(g) >= g.lo /\ LastOf(g) <= g.hi
            /\ g.hi - LastOf(g) = n - Min2(IRBatch, n)
        BY <2>6, <2>8, <3>1, BuildStepsAssumption DEF LastOf, Min2
      <3>8. Fits(f) /\ Rest(f) = n - Min2(IRBatch, n)
        BY <2>4, <2>6, <3>7 DEF Fits, Rest
      <3>9. Fits(f)' /\ CeilDiv(Rest(f), IRBatch)' = c
        BY <2>4, <3>3, <3>8 DEF Fits, Rest, CeilDiv
      <3>10. Pending(IRLabels)' = Pending(IRLabels) + 1
        <4>1. queue' = Append(queue, job) /\ queue \in Seq(Queued) /\ job.at \in IRLabels
          BY <1>2, <2>4, <2>8 DEF Submit, Held, IRLabels
        <4>2. Cardinality(Spots(queue, IRLabels))'
                = Cardinality(Spots(queue, IRLabels)) + One(job.at \in IRLabels)
          BY <2>4, <4>1, JobPosted
        <4>3. stack' = [stack EXCEPT ![t] = Swap(stack[t], f)]
          BY <2>8 DEF Become, Below, Swap, Cut
        <4>4. Cardinality(On(IRLabels))'
                = (Cardinality(On(IRLabels)) + One(f.at \in IRLabels))
                    - One(Top(t).at \in IRLabels)
          BY <1>2, <2>4, <4>3, PendingSwapped
        <4>5. f.at \notin IRLabels /\ Top(t).at \notin IRLabels
          BY <1>1, <2>5, IRLabelsApart
        <4>6. Cardinality(On(IRLabels)) \in Nat /\ Cardinality(Spots(queue, IRLabels)) \in Nat
          BY <1>2, <4>1, OnFinite, SpotsFinite
        <4> QED
          BY <4>1, <4>2, <4>4, <4>5, <4>6 DEF Pending, One
      <3>11. left' \in [Sources -> Int] /\ left'[1] = Pending(IRLabels)' + c
        BY <1>5, <2>4, <2>5, <3>6, <3>10
      <3>12. CallCounts(f)'
        BY <3>9, <3>11 DEF CallCounts
      <3> QED
        BY <1>1, <1>3, <2>4, <2>5, <2>8, <3>11, <3>12, CountsAfter
    <2> QED
      BY <1>1, <2>4, <2>7, <2>8 DEF IRSubmitted
  <1>10. CASE GenerateIR(t)
    <2>1. /\ stack[t] # << >> /\ g.at = "ir" /\ Goto(t, "ir_end") /\ UNCHANGED <<queue, args, left>>
      BY <1>1, <1>10 DEF GenerateIR, Active, units
    <2>2. SameKind("ir_end", g.at) /\ {"ir", "ir_end"} \cap CallLabels = {}
          /\ {"ir", "ir_end"} \subseteq IRLabels
      BY <2>1 DEF SameKind, JobLabels, CallLabels, IRLabels
    <2> QED
      BY <1>1, <1>2, <2>1, <2>2, IRGoto
  <1>11. CASE IRJobDone(t)
    BY <1>11, IRJobEnds
  <1>12. CASE IRDone(t)
    <2>1. /\ stack[t] # << >> /\ g.at = "wait_ir" /\ left[g.step] <= 0 /\ Goto(t, "done")
          /\ UNCHANGED <<queue, args, left>>
      BY <1>1, <1>12 DEF IRDone, Active, ir
    <2>2. SameKind("done", g.at) /\ g.at \in CallLabels /\ "done" \notin CallLabels
          /\ "done" \notin IRLabels
      BY <2>1 DEF SameKind, CompileLabels, CallLabels, IRLabels
    <2>3. PICK f \in Calls : Become(t, f) /\ f.at = "done"
      BY <1>1, <1>2, <2>1, <2>2, GotoCall
    <2>4. Pending(IRLabels) = 0
      <3>1. Rest(g) = 0
        BY <2>1 DEF Rest
      <3> QED
        BY <1>5, <2>1, <2>2, <3>1, NoBatch
    <2>5. Pending(IRLabels)' = 0
      BY <1>1, <1>3, <2>1, <2>2, <2>3, <2>4, PendingTurn
    <2> QED
      BY <1>1, <1>3, <1>5, <2>1, <2>2, <2>3, <2>5, CountsAfter
  <1> QED
    BY <1>4, <1>7, <1>8, <1>9, <1>10, <1>11, <1>12 DEF IRGen

LEMMA CountsInit == Init => IRCounted
  <1> SUFFICES ASSUME Init, HasPool, NSources = 1
               PROVE  /\ left \in [Sources -> Int]
                      /\ \A t \in Threads : Spots(stack[t], CallLabels) = {}
                      /\ Pending(IRLabels) = 0
    BY DEF IRCounted
  <1>1. Held
    BY InitKeeps DEF IInv, Where
  <1>2. left \in [Sources -> Int]
    BY DEF Init
  <1>3. \A t \in Threads : \A k \in 1 .. Len(stack[t]) : stack[t][k].at = "submit"
    BY DEF Init, Call, Frame
  <1>4. Len(queue) = 0
    BY DEF Init
  <1>5. Pending(IRLabels) = 0
    <2>1. \A f \in Frames \cup Jobs : f.at = "submit"
      BY <1>3, <1>4 DEF Frames, Jobs
    <2> QED
      BY <1>1, <2>1, PendingNone DEF IRLabels
  <1> QED
    BY <1>2, <1>3, <1>5 DEF Spots, CallLabels

LEMMA CountsNext == IInv /\ IInv' /\ GInv /\ IRCounted /\ [Next]_vars => IRCounted'
  <1> SUFFICES ASSUME IInv, IInv', GInv, IRCounted, [Next]_vars PROVE IRCounted'
    OBVIOUS
  <1>1. Held /\ Held'
    BY DEF IInv, Where
  <1>2. ASSUME NEW w \in Workers, TakeJob(w)
        PROVE  IRCounted'
    <2>1. /\ w \in Threads /\ stack \in [Threads -> Seq(Calls)] /\ queue \in Seq(Queued)
      BY <1>1 DEF Threads, Held
    <2>2. Push(stack[w], Head(queue)) = <<Head(queue)>>
      BY <1>2, <2>1 DEF TakeJob, Push
    <2> QED
      BY <1>1, <1>2, <2>1, <2>2, IRTakes DEF TakeJob, units, ir
  <1>3. ASSUME NEW t \in Threads, WorkOneJob(t)
        PROVE  IRCounted'
    BY <1>1, <1>3, IRTakes DEF WorkOneJob, Push, units, ir
  <1>4. ASSUME NEW t \in Threads, IRGen(t)
        PROVE  IRCounted'
    <2>1. args' = args
      BY <1>4 DEF IRGen, CountIR, NextUnit, SubmitIR, AllSubmitted, GenerateIR, IRJobDone,
                  IRDone, units
    <2>2. CASE HasPool /\ NSources = 1
      BY <1>4, <2>2, IRGenCounts
    <2>3. CASE ~(HasPool /\ NSources = 1)
      BY <2>1, <2>3, SameBuild DEF IRCounted
    <2> QED
      BY <2>2, <2>3
  <1>5. ASSUME NEW t \in Threads, Thread(t)
        PROVE  IRCounted'
    BY <1>3, <1>4, <1>5, RunStepCounts, CompileStepCounts, LinkStepCounts DEF Thread
  <1>6. CASE UNCHANGED vars
    <2>1. UNCHANGED <<stack, queue, args, left>>
      BY <1>6 DEF vars, units, ir
    <2>2. Pending(IRLabels)' = Pending(IRLabels)
      BY <2>1 DEF Pending, On
    <2> QED
      BY <2>1, <2>2, IRSame
  <1> QED
    BY <1>2, <1>5, <1>6 DEF Next, Finished

-----------------------------------------------------------------------------
(* Without a pool                                                           *)

\* The link step's call is alone, has a compile step's on it, or this one an IR job's.
LEMMA NestTop ==
    ASSUME IInv, Nested, ~HasPool, NEW t \in Threads, stack[t] # << >>
    PROVE  /\ t = Main /\ queue = << >> /\ Len(stack[t]) \in {1, 2, 3}
           /\ Top(t).at \in RootLabels <=> Len(stack[t]) = 1
           /\ Top(t).at \in CompileLabels <=> Len(stack[t]) = 2
           /\ Top(t).at \in IRLabels <=> Len(stack[t]) = 3
           /\ Top(t).at \notin {"opt", "signal"}
  <1>1. t = Main /\ queue = << >>
    BY DEF IInv, Where, MainAlone
  <1>2. stack[Main] \in Seq(Calls) /\ stack[Main] # << >>
    BY <1>1 DEF IInv, Where, Held
  <1>3. Len(stack[Main]) \in {1, 2, 3}
    <2>1. Len(stack[Main]) \in Nat \ {0} /\ Len(stack[Main]) <= 3
      BY <1>2 DEF Nested
    <2>2. \A n \in Nat \ {0} : n <= 3 => n \in {1, 2, 3}
      OBVIOUS
    <2> QED
      BY <2>1, <2>2, Zenon
  <1>4. CASE Len(stack[Main]) = 1
    <2>1. Top(t).at \in RootLabels
      BY <1>1, <1>2, <1>4 DEF IInv, Where, RootIsFirst, Top
    <2> QED
      BY <1>1, <1>3, <1>4, <2>1, LabelSets, IRLabelsApart
  <1>5. CASE Len(stack[Main]) = 2
    <2>1. Top(t).at \in CompileLabels
      BY <1>1, <1>5 DEF Nested, Top
    <2> QED
      BY <1>1, <1>3, <1>5, <2>1, LabelSets, IRLabelsApart
  <1>6. CASE Len(stack[Main]) = 3
    <2>1. Top(t).at \in IRLabels
      BY <1>1, <1>6 DEF Nested, Top
    <2> QED
      BY <1>1, <1>3, <1>6, <2>1, LabelSets, IRLabelsApart
  <1> QED
    BY <1>1, <1>3, <1>4, <1>5, <1>6

LEMMA NestRoot ==
    ASSUME IInv, Nested, args' = args, NEW t \in Threads, stack[t] # << >>,
           Top(t).at \in RootLabels, Return(t) \/ \E f \in Calls : Become(t, f)
    PROVE  Nested'
  <1> SUFFICES ASSUME ~HasPool PROVE Len(stack'[Main]) <= 1
    BY SameBuild DEF Nested
  <1>1. t = Main /\ Len(stack[t]) = 1 /\ Held
    BY NestTop DEF IInv, Where
  <1>2. CASE Return(t)
    BY <1>1, <1>2, ReturnShape
  <1>3. CASE \E f \in Calls : Become(t, f)
    BY <1>1, <1>3, TurnShape
  <1> QED
    BY <1>2, <1>3

LEMMA NestRootGoes ==
    ASSUME IInv, Nested, args' = args, NEW t \in Threads, stack[t] # << >>, NEW l, Goto(t, l),
           Top(t).at \in RootLabels, l \in RootLabels \ {"submit"}
    PROVE  Nested'
  <1>1. Where /\ SameKind(l, Top(t).at) /\ l \notin {"next_unit", "submit_ir"}
    BY LabelSets DEF IInv, SameKind, CompileLabels
  <1>2. PICK f \in Calls : Become(t, f)
    BY <1>1, GotoCall
  <1> QED
    BY <1>2, NestRoot

LEMMA NestCompile ==
    ASSUME IInv, Nested, args' = args, NEW t \in Threads, stack[t] # << >>, NEW f \in Calls,
           Top(t).at \in CompileLabels, Become(t, f), f.at \in CompileLabels,
           f.at = "submit_ir" => /\ f.tu \in Added' /\ f.lo >= 1
                                 /\ f.hi >= 1 => f.tu \notin is_free'
    PROVE  Nested'
  <1> SUFFICES ASSUME ~HasPool PROVE Nested'
    BY SameBuild DEF Nested
  <1>1. t = Main /\ Len(stack[t]) = 2 /\ Held
    BY NestTop DEF IInv, Where
  <1>2. Len(stack'[Main]) = 2 /\ stack'[Main][1] = stack[Main][1] /\ stack'[Main][2] = f
    BY <1>1, TurnShape
  <1>3. stack[Main][1].at = "submit"
    BY <1>1 DEF Nested
  <1> QED
    BY <1>2, <1>3 DEF Nested

LEMMA NestGoes ==
    ASSUME IInv, Nested, args' = args, NEW t \in Threads, stack[t] # << >>, NEW l,
           Goto(t, l), SameKind(l, Top(t).at), l \notin {"submit", "next_unit", "submit_ir"},
           Top(t).at \in CompileLabels
    PROVE  Nested'
  <1>1. PICK f \in Calls : Become(t, f) /\ f.at = l
    BY GotoCall DEF IInv, Where
  <1>2. l \in CompileLabels
    BY LabelSets DEF SameKind
  <1> QED
    BY <1>1, <1>2, NestCompile

\* step_done, and the end of an IR job.
LEMMA NestReturn ==
    ASSUME IInv, Nested, UNCHANGED <<args, cu, is_free>>, NEW t \in Threads, stack[t] # << >>,
           Return(t)
    PROVE  Nested'
  <1> SUFFICES ASSUME ~HasPool PROVE Nested'
    BY SameBuild DEF Nested
  <1>1. t = Main /\ Len(stack[t]) \in {1, 2, 3} /\ Held
    BY NestTop DEF IInv, Where
  <1>2. /\ Len(stack'[Main]) = Len(stack[Main]) - 1
        /\ \A k \in 1 .. Len(stack[Main]) - 1 : stack'[Main][k] = stack[Main][k]
    BY <1>1, ReturnShape
  <1>3. CASE Len(stack[Main]) \in {1, 2}
    <2>1. Len(stack'[Main]) <= 1
      <3>1. PICK n : n = Len(stack[Main])
        OBVIOUS
      <3>2. n = 1 \/ n = 2
        BY <1>3, <3>1
      <3>3. Len(stack'[Main]) = n - 1
        BY <1>2, <3>1
      <3> QED
        BY <3>2, <3>3
    <2> QED
      BY <2>1 DEF Nested
  <1>4. CASE Len(stack[Main]) = 3
    <2>1. /\ Len(stack'[Main]) = 2 /\ stack'[Main][1] = stack[Main][1]
          /\ stack'[Main][2] = stack[Main][2]
      BY <1>2, <1>4
    <2>2. Added' = Added
      BY DEF Added
    <2> QED
      BY <1>4, <2>1, <2>2 DEF Nested
  <1> QED
    BY <1>1, <1>3, <1>4

\* irgen_job goes on.
LEMMA NestJob ==
    ASSUME IInv, Nested, UNCHANGED <<args, cu, is_free>>, NEW t \in Threads, stack[t] # << >>,
           Goto(t, "ir_end"), Top(t).at = "ir"
    PROVE  Nested'
  <1> SUFFICES ASSUME ~HasPool PROVE Nested'
    BY SameBuild DEF Nested
  <1>1. t = Main /\ Len(stack[t]) = 3 /\ Where /\ Held
    BY NestTop DEF IInv, Where, IRLabels
  <1>2. SameKind("ir_end", Top(t).at)
    BY DEF SameKind, JobLabels
  <1>3. PICK f \in Calls : /\ Become(t, f) /\ f.at = "ir_end" /\ f.step = Top(t).step
                           /\ f.tu = Top(t).tu
    BY <1>1, <1>2, GotoCall
  <1>4. /\ Len(stack'[Main]) = 3 /\ stack'[Main][1] = stack[Main][1]
        /\ stack'[Main][2] = stack[Main][2] /\ stack'[Main][3] = f
    <2>1. /\ Len(stack'[t]) = Len(stack[t])
          /\ \A k \in 1 .. Len(stack[t]) :
                stack'[t][k] = IF k = Len(stack[t]) THEN f ELSE stack[t][k]
      BY <1>1, <1>3, TurnShape
    <2>2. 1 \in 1 .. 3 /\ 2 \in 1 .. 3 /\ 3 \in 1 .. 3
      OBVIOUS
    <2> QED
      BY <1>1, <2>1, <2>2
  <1>5. Added' = Added /\ Top(t) = stack[Main][3]
    BY <1>1 DEF Added, Top
  <1> QED
    BY <1>1, <1>3, <1>4, <1>5 DEF Nested, IRLabels

LEMMA CompileStepNests ==
    ASSUME IInv, Nested, NEW t \in Threads, CompileStep(t)
    PROVE  Nested'
  <1>1. SameKind("done", "cpp") /\ SameKind("add", "cpp") /\ SameKind("collect", "add")
        /\ SameKind("typecheck", "collect") /\ SameKind("done", "typecheck")
        /\ SameKind("allocate", "typecheck") /\ SameKind("count_ir", "allocate")
    BY DEF SameKind, CompileLabels
  <1>2. \A l \in {"done", "cpp", "add", "collect", "typecheck", "allocate", "count_ir"} :
           l \in CompileLabels /\ l \notin {"submit", "next_unit", "submit_ir"}
    BY DEF CompileLabels
  <1>3. CASE StepDone(t)
    BY <1>3, NestReturn DEF StepDone, Active, units
  <1>4. CASE Preprocess(t)
    BY <1>1, <1>2, <1>4, NestGoes DEF Preprocess, FailStep, Active, units
  <1>5. CASE AddToUnit(t)
    BY <1>1, <1>2, <1>5, NestGoes DEF AddToUnit, Active
  <1>6. CASE SemaCollect(t)
    BY <1>1, <1>2, <1>6, NestGoes DEF SemaCollect, Active
  <1>7. CASE SemaTypeCheck(t)
    BY <1>1, <1>2, <1>7, NestGoes DEF SemaTypeCheck, FailStep, Active, units
  <1>8. CASE AllocateIR(t)
    BY <1>1, <1>2, <1>8, NestGoes DEF AllocateIR, Active
  <1> QED
    BY <1>3, <1>4, <1>5, <1>6, <1>7, <1>8 DEF CompileStep

LEMMA LinkStepNests ==
    ASSUME IInv, Nested, NEW t \in Threads, LinkStep(t)
    PROVE  Nested'
  <1> DEFINE g == Top(t)
  <1>1. Where /\ args \in Builds
    BY DEF IInv, Typed
  <1>2. {"backend", "wait_opt", "reread", "futex", "asleep", "export", "ld_end", "return"}
          \subseteq RootLabels \ {"submit"}
    BY DEF RootLabels, Labels, CompileLabels, JobLabels
  <1>3. CASE PerFunction(t)
    <2>1. /\ stack[t] # << >> /\ g.at = "backend" /\ g \in Calls /\ args' = args
      BY <1>1, <1>3, TopCall DEF PerFunction, Active, units
    <2>2. CASE Goto(t, "wait_opt")
      BY <1>2, <2>1, <2>2, NestRootGoes
    <2>3. CASE ~Goto(t, "wait_opt")
      <3>1. Become(t, [g EXCEPT !.i = @ + 1])
        BY <1>3, <2>3 DEF PerFunction
      <3>2. [g EXCEPT !.i = @ + 1] \in Calls
        BY <2>1, MoreFrame
      <3> QED
        BY <1>2, <2>1, <3>1, <3>2, NestRoot
    <2> QED
      BY <2>2, <2>3
  <1>4. CASE OptimizeFunctions(t) \/ FutexSignal(t)
    <2>1. stack[t] # << >> /\ g.at \in {"opt", "signal"} /\ args' = args
      BY <1>4 DEF OptimizeFunctions, FutexSignal, Active, units
    <2> QED
      BY <2>1, NestTop, SameBuild DEF Nested
  <1>5. CASE OptimizeDone(t)
    BY <1>2, <1>5, NestRootGoes DEF OptimizeDone, Active
  <1>6. CASE FutexTest(t)
    BY <1>2, <1>6, NestRootGoes DEF FutexTest, Active, units
  <1>7. CASE FutexReread(t)
    <2>1. /\ stack[t] # << >> /\ g.at = "reread" /\ g \in Calls /\ opt_left \in Int
          /\ Become(t, [g EXCEPT !.at = "futex", !.lo = opt_left]) /\ args' = args
      BY <1>1, <1>7, TopCall DEF FutexReread, Active, units, IInv, Typed
    <2>2. [g EXCEPT !.at = "futex", !.lo = opt_left] \in Calls
      BY <1>1, <2>1, ReadFrame
    <2> QED
      BY <1>2, <2>1, <2>2, NestRoot
  <1>8. CASE FutexWait(t)
    BY <1>2, <1>8, NestRootGoes DEF FutexWait, Active, units
  <1>9. CASE Export(t)
    BY <1>2, <1>9, NestRootGoes DEF Export, Active, units
  <1>10. CASE LdDone(t)
    BY <1>2, <1>10, NestRootGoes DEF LdDone, Active, units
  <1> QED
    BY <1>3, <1>4, <1>5, <1>6, <1>7, <1>8, <1>9, <1>10 DEF LinkStep

\* A call and one more take the place of thread t's innermost.
LEMMA CallPushed ==
    ASSUME Held, NEW t \in Threads, stack[t] # << >>, NEW f \in Calls, NEW g \in Calls,
           stack' = [stack EXCEPT ![t] = Push(Swap(stack[t], f), g)]
    PROVE  /\ Len(stack'[t]) = Len(stack[t]) + 1
           /\ \A k \in 1 .. Len(stack[t]) :
                 stack'[t][k] = IF k = Len(stack[t]) THEN f ELSE stack[t][k]
           /\ stack'[t][Len(stack[t]) + 1] = g
  <1>1. /\ Keeps(t, Push(Swap(stack[t], f), g)) /\ Frames' \subseteq Frames \cup {f, g}
        /\ Len(stack'[t]) = Len(stack[t]) + 1 /\ Len(stack[t]) \in Nat \ {0}
        /\ \A k \in 1 .. Len(stack[t]) :
              stack'[t][k] = IF k = Len(stack[t]) THEN f ELSE stack[t][k]
        /\ stack'[t][Len(stack[t]) + 1] = g
        /\ \A u \in Threads : u # t => stack'[u] = stack[u]
    BY CallShape
  <1> QED
    BY <1>1

LEMMA RunStepNests ==
    ASSUME IInv, Nested, NEW t \in Threads, RunStep(t)
    PROVE  Nested'
  <1> DEFINE g == Top(t)
  <1>1. Where /\ Held /\ args \in Builds
    BY DEF IInv, Where, Typed
  <1>2. /\ {"submit", "wait_deps", "check_deps", "return", "backend"} \subseteq RootLabels
        /\ "submit" \notin {"wait_deps", "check_deps", "return", "backend"}
    BY DEF RootLabels, Labels, CompileLabels, JobLabels
  <1>3. CASE SubmitDep(t)
    <2>1. PICK e : e = g.i + 1
      OBVIOUS
    <2>2. PICK d : d = Call("cpp", e)
      OBVIOUS
    <2>3. PICK f : f = Further(g, e)
      OBVIOUS
    <2>4. Submitting(t, e, d, f)
      BY <1>1, <1>3, <2>1, <2>2, <2>3, SubmitShape
    <2>5. /\ stack[t] # << >> /\ g.at \in RootLabels /\ f \in Calls /\ f.at = "submit"
          /\ d \in Calls /\ d.at = "cpp" /\ args' = args /\ t = Main /\ Len(stack[t]) = 1
      BY <1>2, <2>4 DEF Submitting
    <2>6. CASE Become(t, f)
      BY <2>5, <2>6, NestRoot
    <2>7. CASE stack' = [stack EXCEPT ![t] = Push(Swap(stack[t], f), d)]
      <3>1. /\ Len(stack'[t]) = Len(stack[t]) + 1
            /\ \A k \in 1 .. Len(stack[t]) :
                  stack'[t][k] = IF k = Len(stack[t]) THEN f ELSE stack[t][k]
            /\ stack'[t][Len(stack[t]) + 1] = d
        <4>1. Held /\ stack[t] # << >> /\ f \in Calls /\ d \in Calls
          BY <1>1, <2>5
        <4> QED
          BY ONLY t \in Threads, <4>1, <2>7, CallPushed, Zenon
      <3>2. Len(stack'[Main]) = 2 /\ stack'[Main][1] = f /\ stack'[Main][2] = d
        BY <2>5, <3>1
      <3> QED
        BY <2>5, <3>2 DEF Nested, CompileLabels
    <2> QED
      BY <2>4, <2>6, <2>7 DEF Submitting
  <1>4. CASE DepsSubmitted(t)
    <2>1. PICK l \in {"wait_deps", "check_deps"} : Goto(t, l)
      BY <1>4 DEF DepsSubmitted
    <2> QED
      BY <1>2, <1>4, <2>1, NestRootGoes DEF DepsSubmitted, Active, units
  <1>5. CASE DepsDone(t)
    BY <1>2, <1>5, NestRootGoes DEF DepsDone, Active, units
  <1>6. CASE CheckDeps(t)
    <2>1. stack[t] # << >> /\ g.at = "check_deps" /\ args' = args
      BY <1>6 DEF CheckDeps, Active, units
    <2>2. CASE Goto(t, "return")
      BY <1>2, <2>1, <2>2, NestRootGoes
    <2>3. CASE Become(t, Call("backend", Ld))
      <3>1. Call("backend", Ld) \in Calls
        BY <1>1, <1>2, CallFrame
      <3> QED
        BY <1>2, <2>1, <2>3, <3>1, NestRoot
    <2> QED
      BY <1>6, <2>2, <2>3 DEF CheckDeps
  <1>7. CASE StepRunReturn(t)
    BY <1>2, <1>7, NestRoot DEF StepRunReturn, Active, units
  <1> QED
    BY <1>3, <1>4, <1>5, <1>6, <1>7 DEF RunStep

LEMMA IRGenNests ==
    ASSUME IInv, GInv, Nested, NEW t \in Threads, IRGen(t)
    PROVE  Nested'
  <1>1. PICK g : g = Top(t)
    OBVIOUS
  <1>2. Where /\ Held /\ args \in Builds /\ Sources \subseteq Nat
    BY BuildShape DEF IInv, Where, Typed
  <1>3. {"count_ir", "next_unit", "submit_ir", "wait_ir", "done"} \subseteq CompileLabels
    BY DEF CompileLabels
  <1>4. CASE CountIR(t)
    <2>1. /\ stack[t] # << >> /\ g.at = "count_ir" /\ Become(t, AtUnit(g, 1)) /\ args' = args
      BY <1>1, <1>4 DEF CountIR, Active, AtUnit, units
    <2>2. g \in Calls /\ g.step \in Sources
      BY <1>1, <1>2, <1>3, <2>1, TopCall, TopIsLive
    <2>3. AtUnit(g, 1) \in Calls /\ AtUnit(g, 1).at = "next_unit"
      BY <2>2, UnitFrame
    <2> QED
      BY <1>1, <1>3, <2>1, <2>3, NestCompile
  <1>5. CASE NextUnit(t)
    <2>1. /\ stack[t] # << >> /\ g.at = "next_unit" /\ g.i <= Len(cu)
          /\ Become(t, InUnit(g, cu[g.i], StmtCount(cu[g.i])))
          /\ UNCHANGED <<args, cu, is_free>>
      BY <1>1, <1>5 DEF NextUnit, Active, InUnit, units
    <2>2. g \in Calls /\ g.step \in Sources /\ g.i \in Nat /\ g.i >= 1
      BY <1>1, <1>2, <1>3, <2>1, TopCall, TopIsLive DEF Calls
    <2>3. PICK u : u = cu[g.i]
      OBVIOUS
    <2>4. u \in Sources /\ u \in Added /\ Added' = Added
      <3>1. g.i \in 1 .. Len(cu) /\ cu \in Seq(Sources)
        BY <2>1, <2>2 DEF IInv, Typed
      <3> QED
        BY <2>1, <2>3, <3>1 DEF Added
    <2>5. PICK n : n = StmtCount(u)
      OBVIOUS
    <2>6. n \in Int /\ (n >= 1 => u \notin is_free)
      BY <1>2, <2>4, <2>5, BuildShape DEF StmtCount
    <2>7. PICK f : f = InUnit(g, u, n)
      OBVIOUS
    <2>8. /\ f \in Calls /\ f.at = "submit_ir" /\ f.tu = u /\ f.lo = 1 /\ f.hi = n
      BY <1>2, <2>2, <2>4, <2>6, <2>7, StmtFrame, InUnitParts
    <2>9. Become(t, f)
      BY <2>1, <2>3, <2>5, <2>7
    <2> QED
      BY <1>1, <1>3, <2>1, <2>4, <2>6, <2>8, <2>9, NestCompile
  <1>6. CASE AllSubmitted(t)
    <2>1. SameKind("wait_ir", "next_unit")
      BY <1>3 DEF SameKind
    <2> QED
      BY <1>3, <1>6, <2>1, NestGoes DEF AllSubmitted, Active, units
  <1>7. CASE GenerateIR(t)
    BY <1>7, NestJob DEF GenerateIR, Active, units
  <1>8. CASE IRJobDone(t)
    BY <1>8, NestReturn DEF IRJobDone, Active, units
  <1>9. CASE IRDone(t)
    <2>1. SameKind("done", "wait_ir")
      BY <1>3 DEF SameKind
    <2> QED
      BY <1>3, <1>9, <2>1, NestGoes DEF IRDone, Active
  <1>10. CASE SubmitIR(t)
    <2>1. PICK f : f = FromStmt(g, LastOf(g) + 1)
      OBVIOUS
    <2>2. PICK e : e = AtUnit(g, g.i + 1)
      OBVIOUS
    <2>3. PICK job : job = IRJob(g.step, g.tu, g.lo, LastOf(g))
      OBVIOUS
    <2>4. /\ stack[t] # << >> /\ g.at = "submit_ir" /\ g \in Calls
          /\ UNCHANGED <<args, cu, is_free>> /\ LastOf(g) \in Int
          /\ f \in Calls /\ f.at = "submit_ir" /\ f.step = g.step
          /\ f.tu = g.tu /\ f.lo = LastOf(g) + 1 /\ f.hi = g.hi
          /\ e \in Calls /\ e.at = "next_unit"
          /\ job \in Queued /\ job.at = "ir" /\ job.step = g.step /\ job.tu = g.tu
          /\ IRSubmitted(t, e, f, job)
      BY <1>1, <1>10, <2>1, <2>2, <2>3, SubmitIRShape
    <2>5. CASE Become(t, e)
      BY <1>1, <1>3, <2>4, <2>5, NestCompile
    <2>6. CASE HasPool
      BY <2>4, <2>6, SameBuild DEF Nested
    <2>7. CASE /\ ~HasPool /\ stack' = [stack EXCEPT ![t] = Push(Swap(stack[t], f), job)]
               /\ g.lo <= g.hi
      <3>1. t = Main /\ Len(stack[t]) = 2 /\ Top(t) = stack[Main][2]
        BY <1>1, <1>3, <2>4, <2>7, NestTop DEF Top
      <3>2. /\ g.tu \in Added /\ g.lo >= 1 /\ stack[Main][1].at = "submit"
            /\ g.hi >= 1 => g.tu \notin is_free
        BY <1>1, <2>4, <2>7, <3>1 DEF Nested
      <3>3. g.hi >= 1 /\ LastOf(g) + 1 >= 1
        BY <2>4, <2>7, <3>2 DEF Calls, LastOf
      <3>4. /\ Len(stack'[t]) = Len(stack[t]) + 1
            /\ \A k \in 1 .. Len(stack[t]) :
                  stack'[t][k] = IF k = Len(stack[t]) THEN f ELSE stack[t][k]
            /\ stack'[t][Len(stack[t]) + 1] = job
        <4>1. Held /\ stack[t] # << >> /\ f \in Calls /\ job \in Calls
          BY <1>2, <2>4 DEF Queued
        <4>2. stack' = [stack EXCEPT ![t] = Push(Swap(stack[t], f), job)]
          BY <2>7
        <4> QED
          BY ONLY t \in Threads, <4>1, <4>2, CallPushed, Zenon
      <3>5. /\ Len(stack'[Main]) = 3 /\ stack'[Main][1] = stack[Main][1]
            /\ stack'[Main][2] = f /\ stack'[Main][3] = job
        BY <3>1, <3>4
      <3>6. Added' = Added
        BY <2>4 DEF Added
      <3> QED
        BY <1>3, <2>4, <3>2, <3>3, <3>5, <3>6 DEF Nested, IRLabels
    <2> QED
      BY <1>1, <2>4, <2>5, <2>6, <2>7 DEF IRSubmitted
  <1> QED
    BY <1>4, <1>5, <1>6, <1>7, <1>8, <1>9, <1>10 DEF IRGen

LEMMA NestInit == Init => Nested
  BY DEF Init, Nested, Threads

LEMMA NestNext == IInv /\ GInv /\ Nested /\ [Next]_vars => Nested'
  <1> SUFFICES ASSUME IInv, GInv, Nested, [Next]_vars PROVE Nested'
    OBVIOUS
  <1>1. ASSUME NEW w \in Workers, TakeJob(w)
        PROVE  Nested'
    BY <1>1, SameBuild DEF TakeJob, Nested, units
  <1>2. ASSUME NEW t \in Threads, WorkOneJob(t)
        PROVE  Nested'
    BY <1>2, SameBuild DEF WorkOneJob, Nested, units, IInv, Where, MainAlone
  <1>3. ASSUME NEW t \in Threads, Thread(t)
        PROVE  Nested'
    BY <1>2, <1>3, RunStepNests, CompileStepNests, IRGenNests, LinkStepNests DEF Thread
  <1>4. CASE UNCHANGED vars
    BY <1>4, SameBuild DEF vars, units, Nested, Added
  <1> QED
    BY <1>1, <1>3, <1>4 DEF Next, Finished

-----------------------------------------------------------------------------
(* The properties                                                           *)

JInv == IRCounted /\ Nested

\* Where a job of irgen is there is a call of irgen: the one that submitted it.
LEMMA CallOfJob ==
    ASSUME IInv, GInv, JInv, OneIRGen, NEW j \in PendingIR
    PROVE  /\ ~SyntaxOnly
           /\ \E t \in Threads : \E k \in 1 .. Len(stack[t]) :
                 /\ stack[t][k].at \in CallLabels /\ stack[t][k].step = j.step
                 /\ ~HasPool => stack[t][k].tu = j.tu /\ t = Main /\ k = 2
  <1>1. /\ Where /\ Held /\ RootIsFirst /\ args \in Builds /\ j \in Frames \cup Jobs
        /\ j.at \in IRLabels
    BY DEF IInv, Where, Typed, PendingIR, IRLabels
  <1>2. ~SyntaxOnly /\ j.step \in Sources
    BY <1>1 DEF GInv, JobsOwned, Owned
  <1>3. CASE ~HasPool
    <2>1. queue = << >> /\ \A t \in Threads \ {Main} : stack[t] = << >>
      BY <1>1, <1>3 DEF Where, MainAlone
    <2>2. PICK k \in 1 .. Len(stack[Main]) : j = stack[Main][k]
      <3>1. PICK t \in Threads : \E k \in 1 .. Len(stack[t]) : j = stack[t][k]
        BY <1>1, <2>1 DEF Frames, Jobs
      <3> QED
        BY <2>1, <3>1
    <2>3. Main \in Threads /\ stack[Main] # << >>
      BY <2>2 DEF Threads
    <2>4. Len(stack[Main]) \in {1, 2, 3}
      BY <1>3, <2>3, NestTop DEF JInv
    <2>5. k # 1
      BY <1>1, <2>2, <2>3, IRLabelsApart DEF RootIsFirst
    <2>6. k # 2
      <3>1. ASSUME k = 2
            PROVE  FALSE
        <4>1. Len(stack[Main]) >= 2
          BY <2>4, <2>2, <3>1
        <4>2. j.at \in CompileLabels
          BY <1>3, <2>2, <3>1, <4>1 DEF JInv, Nested
        <4> QED
          BY <1>1, <4>2, IRLabelsApart
      <3> QED
        BY <3>1
    <2>7. Len(stack[Main]) = 3 /\ k = 3
      BY <2>2, <2>4, <2>5, <2>6
    <2>8. stack[Main][2].at = "submit_ir" /\ stack[Main][2].step = j.step
          /\ stack[Main][2].tu = j.tu
      BY <1>3, <2>2, <2>7 DEF JInv, Nested
    <2>9. 2 \in 1 .. Len(stack[Main])
      BY <2>7
    <2> QED
      BY <1>2, <2>3, <2>8, <2>9 DEF CallLabels
  <1>4. CASE HasPool
    <2>1. NSources = 1 /\ Sources = {1}
      BY <1>2, <1>4 DEF OneIRGen, Sources
    <2>2. Pending(IRLabels) # 0
      BY <1>1, PendingNone
    <2>3. PICK t \in Threads : Spots(stack[t], CallLabels) # {}
      BY <1>4, <2>1, <2>2 DEF JInv, IRCounted
    <2>4. PICK k \in 1 .. Len(stack[t]) : stack[t][k].at \in CallLabels
      BY <2>3 DEF Spots
    <2>5. stack[t][k].step \in Sources
      <3>1. stack[t] \in Seq(Calls)
        BY <1>1 DEF Held
      <3>2. stack[t][k] \in Calls
        BY <3>1
      <3> QED
        BY <2>4, <3>2, LabelSets DEF Calls
    <2> QED
      BY <1>2, <1>4, <2>1, <2>4, <2>5
  <1> QED
    BY <1>3, <1>4

LEMMA NoJobLeft ==
    ASSUME IInv, GInv, JInv, OneIRGen, \A s \in Sources : ~Live(s)
    PROVE  \A f \in Frames \cup Jobs : f.at \notin IRLabels
  <1>1. ASSUME NEW j \in PendingIR
        PROVE  FALSE
    <2>1. PICK t \in Threads : \E k \in 1 .. Len(stack[t]) : stack[t][k].at \in CallLabels
      BY CallOfJob
    <2>2. PICK k \in 1 .. Len(stack[t]) : stack[t][k].at \in CallLabels
      BY <2>1
    <2>3. stack[t][k] \in Frames
      BY <2>2 DEF Frames
    <2> QED
      BY <2>2, <2>3, NobodyAlive, LabelSets
  <1> QED
    BY <1>1 DEF PendingIR, IRLabels

LEMMA LinksThen == IInv /\ GInv /\ JInv => (OneIRGen => LinksWhatCompiled)
  <1> SUFFICES ASSUME IInv, GInv, JInv, OneIRGen, LinkBegan
               PROVE  /\ \A f \in Frames \cup Jobs : f.step = Ld
                      /\ error_root \subseteq {Ld}
                      /\ \A s \in Sources : Cardinality({k \in 1 .. Len(cu) : cu[k] = s}) = 1
    BY DEF LinksWhatCompiled
  <1>1. \A f \in Frames \cup Jobs : f.at \notin IRLabels
    BY BeganShape, NoJobLeft
  <1> QED
    BY <1>1, BeganFinds DEF LinkFinds

LEMMA WaitsThen == IInv /\ GInv /\ JInv => (OneIRGen => IRGenWaitsForItsJobs)
  <1> SUFFICES ASSUME IInv, GInv, JInv, OneIRGen, NEW j \in PendingIR
               PROVE  \E f \in Frames : f.step = j.step /\ f.at \in CallLabels
    BY DEF IRGenWaitsForItsJobs, CallLabels
  <1>1. PICK t \in Threads : \E k \in 1 .. Len(stack[t]) :
            stack[t][k].at \in CallLabels /\ stack[t][k].step = j.step
    BY CallOfJob
  <1> QED
    BY <1>1 DEF Frames

LEMMA AllocatedThen == IInv /\ GInv /\ JInv => (OneIRGen => IROnlyFromAllocated)
  <1> SUFFICES ASSUME IInv, GInv, JInv, OneIRGen, error_root = {}, NEW j \in PendingIR
               PROVE  j.tu \notin is_free /\ j.tu \in allocated
    BY DEF IROnlyFromAllocated
  <1>1. PICK t \in Threads : \E k \in 1 .. Len(stack[t]) :
            /\ stack[t][k].at \in CallLabels /\ stack[t][k].step = j.step
            /\ ~HasPool => stack[t][k].tu = j.tu /\ t = Main /\ k = 2
    BY CallOfJob
  <1>2. PICK k \in 1 .. Len(stack[t]) :
            /\ stack[t][k].at \in CallLabels /\ stack[t][k].step = j.step
            /\ ~HasPool => stack[t][k].tu = j.tu /\ t = Main /\ k = 2
    BY <1>1
  <1>3. /\ Where /\ args \in Builds /\ ~SyntaxOnly /\ j.tu \in Sources /\ j.step \in Sources
    BY CallOfJob DEF IInv, Typed, GInv, JobsOwned, Owned, PendingIR, IRLabels
  <1>4. PICK e \in Sources : e = j.step
    BY <1>3
  <1>5. Stage(stack[t][k].at, e)
    <2>1. k \in At(stack[t], e)
      BY <1>2, <1>4, LabelSets DEF At
    <2> QED
      BY <2>1 DEF GInv, Staged, StagedAt, Reached
  <1>6. e \notin is_free /\ e \in allocated
    BY <1>2, <1>5, LabelSets DEF Stage, CallLabels
  <1>7. CASE HasPool
    <2>1. Sources = {1}
      BY <1>3, <1>7 DEF OneIRGen, Sources
    <2> QED
      BY <1>3, <1>6, <2>1
  <1>8. CASE ~HasPool
    <2>1. t = Main /\ k = 2 /\ stack[Main][2].tu = j.tu
      BY <1>2, <1>8
    <2>2. stack[Main] # << >> /\ Len(stack[Main]) \in {1, 2, 3} /\ Main \in Threads
      <3>1. stack[Main] # << >> /\ Main \in Threads
        BY <1>2, <2>1 DEF Threads
      <3> QED
        BY <1>8, <3>1, NestTop DEF JInv
    <2>3. queue = << >> /\ \A u \in Threads \ {Main} : stack[u] = << >>
      BY <1>3, <1>8 DEF Where, MainAlone
    <2>4. j.at \in IRLabels /\ j \in Frames
      BY <2>3 DEF PendingIR, IRLabels, Jobs
    <2>5. Len(stack[Main]) = 3
      <3>1. PICK u \in Threads : \E l \in 1 .. Len(stack[u]) : stack[u][l] = j
        BY <2>4 DEF Frames
      <3>2. PICK l \in 1 .. Len(stack[Main]) : stack[Main][l] = j
        BY <2>3, <3>1
      <3>3. l # 1
        BY <1>3, <2>2, <2>4, <3>2, IRLabelsApart DEF Where, RootIsFirst
      <3>4. l # 2
        BY <1>2, <2>1, <2>4, <3>2, IRLabelsApart
      <3> QED
        BY <2>2, <3>2, <3>3, <3>4
    <2>6. j.tu \in Added /\ j.tu \notin is_free
      BY <1>8, <2>1, <2>5 DEF JInv, Nested
    <2>7. ASSUME j.tu # e
          PROVE  j.tu \in allocated
      <3>1. At(stack[Main], j.tu) = {}
        <4>1. ASSUME NEW l \in At(stack[Main], j.tu)
              PROVE  FALSE
          <5>1. l \in 1 .. 3 /\ stack[Main][l].at \in CompileLabels
                /\ stack[Main][l].step = j.tu
            BY <2>5, <4>1 DEF At
          <5>2. l # 1
            BY <1>3, <2>2, <2>5, <5>1, LabelSets DEF Where, RootIsFirst
          <5>3. l # 3
            BY <1>8, <2>5, <5>1, IRLabelsApart DEF JInv, Nested
          <5>4. l # 2
            BY <1>2, <1>4, <2>1, <2>7, <5>1
          <5> QED
            BY <5>1, <5>2, <5>3, <5>4
        <4> QED
          BY <4>1
      <3>2. \A u \in Threads : At(stack[u], j.tu) = {}
        <4>1. \A u \in Threads \ {Main} : At(stack[u], j.tu) = {}
          BY <2>3 DEF At
        <4> QED
          BY <3>1, <4>1
      <3>3. At(queue, j.tu) = {}
        BY <2>3 DEF At
      <3>4. ~ToCome(j.tu)
        BY <1>3, <2>6 DEF GInv, Staged, StagedAt, Reached, Stage
      <3>5. ~Live(j.tu)
        BY <3>2, <3>3, <3>4 DEF Live
      <3> QED
        BY <1>3, <3>5 DEF GInv, Staged, StagedAt, Reached, Stage
    <2> QED
      BY <1>6, <2>6, <2>7
  <1> QED
    BY <1>7, <1>8

LEMMA QuietThen == IInv /\ GInv /\ JInv => (OneIRGen => QuietWhenReturned)
  <1> SUFFICES ASSUME IInv, GInv, JInv, OneIRGen, result # "none"
               PROVE  queue = << >> /\ \A f \in Frames : f.at = "signal"
    BY DEF QuietWhenReturned
  <1>1. Where /\ Held /\ stack[Main] = << >>
    BY DEF IInv, Where, Told
  <1>2. \A s \in Sources : ~Live(s)
    BY <1>1 DEF Where, AfterAll, Decided
  <1>3. \A f \in Frames \cup Jobs : f.at \in RootLabels \cup JobLabels /\ f.at \notin IRLabels
    BY <1>2, NobodyAlive, NoJobLeft
  <1>4. \A f \in Frames \cup Jobs : f.at # "opt"
    <2>1. opt_left = 0
      BY <1>1 DEF GInv, OptCounted, RootAt
    <2> QED
      BY <1>1, <2>1, PendingNone DEF GInv, OptCounted
  <1>5. \A f \in Frames : f.at \notin RootLabels
    <2>1. \A t \in Threads : \A k \in 1 .. Len(stack[t]) : stack[t][k].at \notin RootLabels
      <3>1. ASSUME NEW t \in Threads, NEW k \in 1 .. Len(stack[t]), stack[t][k].at \in RootLabels
            PROVE  FALSE
        <4>1. t = Main
          BY <1>1, <3>1 DEF Where, RootIsFirst
        <4> QED
          BY <1>1, <4>1
      <3> QED
        BY <3>1
    <2> QED
      BY <2>1 DEF Frames
  <1>6. \A f \in Frames : f.at = "signal"
    BY <1>3, <1>4, <1>5 DEF JobLabels, IRLabels
  <1>7. queue = << >>
    <2>1. \A k \in 1 .. Len(queue) : FALSE
      <3>1. \A k \in 1 .. Len(queue) : queue[k] \in Queued /\ queue[k] \in Jobs
        BY <1>1 DEF Held, Jobs
      <3>2. \A j \in Queued : j.at \in {"cpp", "ir", "opt"}
        BY DEF Queued
      <3> QED
        BY <1>3, <1>4, <3>1, <3>2 DEF RootLabels, CompileLabels, JobLabels, IRLabels
    <2>2. queue \in Seq(Queued) /\ Len(queue) \in Nat
      BY <1>1 DEF Held
    <2> QED
      BY <2>1, <2>2
  <1> QED
    BY <1>6, <1>7

LEMMA AllStays ==
    /\ Init => IInv /\ GInv /\ JInv
    /\ IInv /\ GInv /\ JInv /\ [Next]_vars => (IInv /\ GInv /\ JInv)'
  <1>1. IInv /\ GInv /\ JInv /\ [Next]_vars => IInv'
    BY NextKeeps
  <1>2. IInv /\ IInv' /\ GInv /\ JInv /\ [Next]_vars => (GInv /\ JInv)'
    BY NextStays, CountsNext, NestNext DEF JInv
  <1> QED
    BY <1>1, <1>2, InitKeeps, InitStays, CountsInit, NestInit DEF JInv

\* The link step starts when every compile step has ended, none is running or queued, none
\* failed, and each has its unit in the compilation unit once (property LinksWhatCompiled).
THEOREM LinkStartsWhenAllCompiled == Spec => [](OneIRGen => LinksWhatCompiled)
  BY AllStays, LinksThen, PTL DEF Spec

\* No call of irgen returns while a job it submitted is queued or running: `remaining`, a
\* local of the call, is there when the job counts it down (property IRGenWaitsForItsJobs).
THEOREM IRGenWaits == Spec => [](OneIRGen => IRGenWaitsForItsJobs)
  BY AllStays, WaitsThen, PTL DEF Spec

\* irgen_job runs over statements that exist and have their symbols, as long as no unit was
\* rejected (property IROnlyFromAllocated).
THEOREM IRFromAllocated == Spec => [](OneIRGen => IROnlyFromAllocated)
  BY AllStays, AllocatedThen, PTL DEF Spec

\* When cuik_step_run has returned nothing can touch a step any more: no job is queued and
\* every call left is a last futex_signal (property QuietWhenReturned).
THEOREM QuietAfterReturn == Spec => [](OneIRGen => QuietWhenReturned)
  BY AllStays, QuietThen, PTL DEF Spec
================================================================================

---------------------------- MODULE BuildStepsProofs ---------------------------
(***************************************************************************)
(* No failure is lost on its way to the caller of cuik_step_run, for any   *)
(* number of sources, statements and workers, with and without a pool.     *)
(*                                                                         *)
(* The invariant follows each compile step: it is yet to be submitted,     *)
(* waits in the queue, is on one stack, or is over, never in two of these  *)
(* places, and s->remaining is the number of those that are not over.  So  *)
(* the link step takes its decision when nothing can fail any more.        *)
(***************************************************************************)
EXTENDS BuildSteps, FiniteSetTheorems, SequenceTheorems, TLAPS

\* The labels of compile steps, of the pool's jobs, and of the link step's own call.
CompileLabels == {"cpp", "add", "collect", "typecheck", "allocate", "count_ir", "next_unit",
                  "submit_ir", "wait_ir", "done"}
JobLabels == {"ir", "ir_end", "opt", "signal"}
RootLabels == Labels \ (CompileLabels \cup JobLabels)

\* The frames a stack can hold, and the jobs of the queue.
Calls ==
    {f \in [at : Labels, step : Steps, i : Nat, tu : Nat, lo : Int, hi : Int] :
       /\ f.at \in CompileLabels => f.step \in Sources
       /\ f.at \in {"next_unit", "submit_ir"} => f.i >= 1
       /\ f.at = "submit" => f.i <= NSources}
Queued == {f \in Calls : f.at \in {"cpp", "ir", "opt"}}

Typed ==
    /\ args \in Builds
    /\ cu \in Seq(Sources)
    /\ remaining \in Int /\ errors \in Nat /\ opt_left \in Int

Held == stack \in [Threads -> Seq(Calls)] /\ queue \in Seq(Queued)

\* The call of the link step is the first of the main thread; only jobs are above it,
\* and compile steps, and only these are on the workers' stacks.
RootIsFirst ==
    \A t \in Threads : \A k \in 1 .. Len(stack[t]) :
        stack[t][k].at \in RootLabels <=> t = Main /\ k = 1
MainAlone == ~HasPool => queue = << >> /\ \A t \in Threads \ {Main} : stack[t] = << >>

\* The places of compile step s in the calls q.
At(q, s) == {k \in 1 .. Len(q) : q[k].at \in CompileLabels /\ q[k].step = s}

\* How many sources step_submit has submitted, while it is at it; what is to come.
Submitted(f) == IF f.at = "submit" THEN f.i ELSE NSources
ToCome(s) == stack[Main] # << >> /\ Submitted(stack[Main][1]) < s

Live(s) == \/ \E t \in Threads : At(stack[t], s) # {}
           \/ At(queue, s) # {}
           \/ ToCome(s)

\* A step is in one place.
InOnePlace(s) ==
    /\ \A t, u \in Threads : \A k \in At(stack[t], s), l \in At(stack[u], s) : t = u /\ k = l
    /\ \A k, l \in At(queue, s) : k = l
    /\ At(queue, s) # {} => \A t \in Threads : At(stack[t], s) = {}
    /\ ToCome(s) => At(queue, s) = {} /\ \A t \in Threads : At(stack[t], s) = {}
OnePlace == \A s \in Sources : InOnePlace(s)

\* s->remaining.
Counted == remaining = Cardinality({s \in Sources : Live(s)})

\* Once the link step has stopped to wait nothing is alive.
Decided == stack[Main] # << >> => stack[Main][1].at \notin {"submit", "wait_deps"}
AfterAll == Decided => \A s \in Sources : ~Live(s)

Told ==
    /\ error_root \subseteq {Ld} \/ errors > 0
    /\ result # "none" => stack[Main] = << >>
    /\ result = "true" => error_root \subseteq {Ld}

\* The inductive invariant.
Where == Held /\ RootIsFirst /\ MainAlone /\ OnePlace /\ Counted /\ AfterAll
IInv == Typed /\ Where /\ Told

-----------------------------------------------------------------------------
(* A list of calls and the compile steps in it                              *)

\* f can take g's place: the same kind of call, for the same step if it is a compile step.
Like(f, g) ==
    /\ f.at \in CompileLabels <=> g.at \in CompileLabels
    /\ f.at \in RootLabels <=> g.at \in RootLabels
    /\ f.at \in CompileLabels => f.step = g.step

\* Without the innermost call, with another in its place, with one more.
Cut(q) == SubSeq(q, 1, Len(q) - 1)
Push(q, f) == Append(q, f)
Swap(q, f) == Append(Cut(q), f)

LEMMA Popped ==
    ASSUME NEW S, NEW q \in Seq(S), q # << >>
    PROVE  /\ Cut(q) \in Seq(S) /\ Len(Cut(q)) = Len(q) - 1 /\ Len(q) \in Nat \ {0}
           /\ \A k \in 1 .. Len(q) - 1 : Cut(q)[k] = q[k]
  <1> DEFINE n == Len(q) - 1
  <1>1. Len(q) \in Nat \ {0} /\ n \in Int /\ n >= 0
    OBVIOUS
  <1>2. \A k \in 1 .. n : q[k] \in S
    BY <1>1
  <1>3. Cut(q) = SubSeq(q, 1, n)
    BY DEF Cut
  <1> HIDE DEF n
  <1>4. /\ SubSeq(q, 1, n) \in Seq(S)
        /\ Len(SubSeq(q, 1, n)) = IF 1 <= n THEN n - 1 + 1 ELSE 0
        /\ \A k \in 1 .. n - 1 + 1 : SubSeq(q, 1, n)[k] = q[1 + k - 1]
    BY <1>1, <1>2, SubSeqProperties
  <1>5. /\ Len(Cut(q)) = n /\ \A k \in 1 .. n : Cut(q)[k] = q[k]
    BY <1>1, <1>3, <1>4
  <1> QED
    BY <1>1, <1>3, <1>4, <1>5 DEF n

LEMMA Swapped ==
    ASSUME NEW S, NEW q \in Seq(S), q # << >>, NEW f \in S
    PROVE  /\ Swap(q, f) \in Seq(S) /\ Len(Swap(q, f)) = Len(q) /\ Swap(q, f) # << >>
           /\ Len(q) \in Nat \ {0}
           /\ \A k \in 1 .. Len(q) : Swap(q, f)[k] = IF k = Len(q) THEN f ELSE q[k]
  <1>1. /\ Cut(q) \in Seq(S) /\ Len(Cut(q)) = Len(q) - 1 /\ Len(q) \in Nat \ {0}
        /\ \A k \in 1 .. Len(q) - 1 : Cut(q)[k] = q[k]
    BY Popped
  <1> QED
    BY <1>1 DEF Swap

LEMMA Pushed ==
    ASSUME NEW S, NEW q \in Seq(S), NEW f \in S
    PROVE  /\ Push(q, f) \in Seq(S) /\ Len(Push(q, f)) = Len(q) + 1 /\ Len(q) \in Nat
           /\ Push(q, f) # << >>
           /\ \A k \in 1 .. Len(q) : Push(q, f)[k] = q[k]
           /\ Push(q, f)[Len(q) + 1] = f
  BY DEF Push

LEMMA Taken ==
    ASSUME NEW S, NEW q \in Seq(S), q # << >>
    PROVE  /\ Tail(q) \in Seq(S) /\ Len(Tail(q)) = Len(q) - 1 /\ Len(q) \in Nat \ {0}
           /\ \A k \in 1 .. Len(q) - 1 : Tail(q)[k] = q[k + 1]
           /\ Head(q) = q[1] /\ q[1] \in S
  OBVIOUS

LEMMA AtSwapped ==
    ASSUME NEW S, NEW q \in Seq(S), q # << >>, NEW f \in S, Like(f, q[Len(q)]), NEW s
    PROVE  At(Swap(q, f), s) = At(q, s)
  <1> DEFINE r == Swap(q, f)
  <1>1. /\ Len(r) = Len(q) /\ Len(q) \in Nat \ {0}
        /\ \A k \in 1 .. Len(q) : r[k] = IF k = Len(q) THEN f ELSE q[k]
    BY Swapped
  <1> HIDE DEF r
  <1>2. ASSUME NEW k \in 1 .. Len(q)
        PROVE  r[k].at \in CompileLabels /\ r[k].step = s
                 <=> q[k].at \in CompileLabels /\ q[k].step = s
    <2>1. CASE k = Len(q)
      BY <1>1, <2>1 DEF Like
    <2>2. CASE k # Len(q)
      BY <1>1, <2>2
    <2> QED
      BY <2>1, <2>2
  <1>3. At(r, s) = At(q, s)
    BY <1>1, <1>2 DEF At
  <1> QED
    BY <1>3 DEF r

LEMMA AtPopped ==
    ASSUME NEW S, NEW q \in Seq(S), q # << >>, NEW s
    PROVE  At(Cut(q), s) = At(q, s) \ {Len(q)}
  <1>1. /\ Len(Cut(q)) = Len(q) - 1 /\ Len(q) \in Nat \ {0}
        /\ \A k \in 1 .. Len(q) - 1 : Cut(q)[k] = q[k]
    BY Popped
  <1> QED
    BY <1>1 DEF At

LEMMA AtPushed ==
    ASSUME NEW S, NEW q \in Seq(S), NEW f \in S, NEW s
    PROVE  At(Push(q, f), s) = IF f.at \in CompileLabels /\ f.step = s
                               THEN At(q, s) \cup {Len(q) + 1} ELSE At(q, s)
  <1> DEFINE r == Push(q, f)
  <1>1. /\ Len(r) = Len(q) + 1 /\ Len(q) \in Nat
        /\ \A k \in 1 .. Len(q) : r[k] = q[k]
        /\ r[Len(q) + 1] = f
    BY Pushed
  <1> HIDE DEF r
  <1>2. ASSUME NEW k
        PROVE  k \in At(r, s) <=>
                 (k \in At(q, s) \/ (k = Len(q) + 1 /\ f.at \in CompileLabels /\ f.step = s))
    BY <1>1 DEF At
  <1>3. At(r, s) = IF f.at \in CompileLabels /\ f.step = s
                   THEN At(q, s) \cup {Len(q) + 1} ELSE At(q, s)
    BY <1>2
  <1> QED
    BY <1>3 DEF r

LEMMA AtTaken ==
    ASSUME NEW S, NEW q \in Seq(S), q # << >>, NEW s
    PROVE  \A k : k \in At(Tail(q), s) <=> k \in Nat \ {0} /\ k + 1 \in At(q, s)
  <1> DEFINE r == Tail(q)
  <1>1. /\ Len(r) = Len(q) - 1 /\ Len(q) \in Nat \ {0}
        /\ \A k \in 1 .. Len(q) - 1 : r[k] = q[k + 1]
    BY Taken
  <1> HIDE DEF r
  <1>2. \A k : k \in At(r, s) <=> k \in Nat \ {0} /\ k + 1 \in At(q, s)
    BY <1>1 DEF At
  <1> QED
    BY <1>2 DEF r

-----------------------------------------------------------------------------
(* Steps that leave every compile step in its place                         *)

LEMMA SameBuild ==
    ASSUME args' = args
    PROVE  /\ NSources' = NSources /\ Sources' = Sources /\ Steps' = Steps
           /\ HasPool' = HasPool /\ Calls' = Calls /\ Queued' = Queued
           /\ \A f : Submitted(f)' = Submitted(f)
  <1>1. NSources' = NSources /\ HasPool' = HasPool
    BY DEF NSources, HasPool
  <1>2. Sources' = Sources /\ Steps' = Steps
    BY <1>1 DEF Sources, Steps, Ld
  <1>3. Calls' = Calls
    BY <1>1, <1>2, Zenon DEF Calls
  <1>4. Queued' = Queued
    BY <1>3, Zenon DEF Queued
  <1> QED
    BY <1>1, <1>2, <1>3, <1>4 DEF Submitted

LEMMA BuildShape ==
    ASSUME args \in Builds
    PROVE  /\ NSources \in Nat \ {0} /\ Sources = 1 .. NSources /\ HasPool \in BOOLEAN
           /\ \A s \in Sources : args.stmts[s] \in Nat
           /\ Main \in Threads /\ Main \notin Workers /\ Sources \subseteq Nat
           /\ IsFiniteSet(Sources)
  <1>1. /\ args.stmts \in Seq(Nat) /\ args.stmts # << >> /\ HasPool \in BOOLEAN
        /\ Main \notin Workers
    BY BuildStepsAssumption DEF HasPool
  <1>2. NSources \in Nat \ {0} /\ Sources = 1 .. NSources
    BY <1>1 DEF NSources, Sources
  <1>3. IsFiniteSet(Sources)
    BY <1>2, FS_Interval
  <1> QED
    BY <1>1, <1>2, <1>3 DEF Threads, NSources

\* What a step has to show when no compile step begins to exist or ends.
LEMMA NobodyEnds ==
    ASSUME Where, args' = args, remaining' = remaining, Held', RootIsFirst', MainAlone',
           \A s \in Sources : InOnePlace(s)' /\ (Live(s)' <=> Live(s)),
           Decided' => Decided \/ \A s \in Sources : ~Live(s)
    PROVE  Where'
  <1>1. Sources' = Sources
    BY SameBuild
  <1>2. OnePlace'
    BY <1>1 DEF OnePlace
  <1>3. {s \in Sources : Live(s)}' = {s \in Sources : Live(s)}
    BY <1>1
  <1>4. Counted'
    BY <1>3 DEF Where, Counted
  <1>5. AfterAll'
    BY <1>1 DEF Where, AfterAll
  <1> QED
    BY <1>2, <1>4, <1>5 DEF Where

LEMMA NobodyMoves ==
    ASSUME Where, args' = args, remaining' = remaining,
           Held', RootIsFirst', MainAlone',
           \A t \in Threads : \A s \in Sources : At(stack'[t], s) = At(stack[t], s),
           \A s \in Sources : At(queue', s) = At(queue, s),
           \A s \in Sources : ToCome(s)' <=> ToCome(s),
           Decided' => Decided \/ \A s \in Sources : ~Live(s)
    PROVE  Where'
  <1>1. \A s \in Sources : Live(s)' <=> Live(s)
    BY DEF Live
  <1>2. ASSUME NEW s \in Sources
        PROVE  InOnePlace(s)'
    <2>1. InOnePlace(s)
      BY DEF Where, OnePlace
    <2>2. \A t, u \in Threads : \A k \in At(stack'[t], s), l \in At(stack'[u], s) :
            t = u /\ k = l
      BY <2>1 DEF InOnePlace
    <2>3. \A k, l \in At(queue', s) : k = l
      BY <2>1 DEF InOnePlace
    <2>4. At(queue', s) # {} => \A t \in Threads : At(stack'[t], s) = {}
      BY <2>1 DEF InOnePlace
    <2>5. ToCome(s)' => At(queue', s) = {} /\ \A t \in Threads : At(stack'[t], s) = {}
      BY <2>1 DEF InOnePlace
    <2> QED
      BY <2>2, <2>3, <2>4, <2>5 DEF InOnePlace
  <1> QED
    BY <1>1, <1>2, NobodyEnds

\* The queue as it is, or with another job of the pool.
JobQueued ==
    \/ queue' = queue
    \/ HasPool /\ \E j \in Queued : j.at \in JobLabels /\ queue' = Append(queue, j)

LEMMA QueueKept ==
    ASSUME queue \in Seq(Queued), MainAlone, JobQueued
    PROVE  /\ queue' \in Seq(Queued) /\ (~HasPool => queue' = << >>)
           /\ \A s : At(queue', s) = At(queue, s)
  <1>1. CASE queue' = queue
    BY <1>1 DEF MainAlone
  <1>2. ASSUME HasPool, NEW j \in Queued, j.at \in JobLabels, queue' = Append(queue, j)
        PROVE  queue' \in Seq(Queued) /\ \A s : At(queue', s) = At(queue, s)
    <2>1. j.at \notin CompileLabels /\ queue' = Push(queue, j)
      BY <1>2 DEF JobLabels, CompileLabels, Push
    <2>2. queue' \in Seq(Queued)
      BY <2>1, Pushed
    <2>3. \A s : At(queue', s) = At(queue, s)
      BY <2>1, AtPushed
    <2> QED
      BY <2>2, <2>3
  <1> QED
    BY <1>1, <1>2 DEF JobQueued

\* Thread t's calls become r.
LEMMA OneStack ==
    ASSUME Where, args \in Builds, args' = args, remaining' = remaining, JobQueued,
           NEW t \in Threads, stack[t] # << >>, NEW r \in Seq(Calls),
           stack' = [stack EXCEPT ![t] = r],
           \A s \in Sources : At(r, s) = At(stack[t], s),
           \A k \in 1 .. Len(r) : r[k].at \in RootLabels <=> t = Main /\ k = 1,
           t = Main =>
             /\ \A s \in Sources : (r # << >> /\ Submitted(r[1]) < s) <=> ToCome(s)
             /\ (r # << >> => r[1].at \notin {"submit", "wait_deps"})
                  => Decided \/ \A s \in Sources : ~Live(s)
    PROVE  Where'
  <1>1. /\ stack \in [Threads -> Seq(Calls)] /\ queue \in Seq(Queued) /\ MainAlone
        /\ RootIsFirst
    BY DEF Where, Held
  <1>2. /\ stack' \in [Threads -> Seq(Calls)]
        /\ stack'[t] = r /\ \A u \in Threads : u # t => stack'[u] = stack[u]
    BY <1>1
  <1>3. /\ Calls' = Calls /\ Queued' = Queued /\ HasPool' = HasPool
        /\ \A f : Submitted(f)' = Submitted(f)
    BY SameBuild
  <1>4. /\ queue' \in Seq(Queued) /\ (~HasPool => queue' = << >>)
        /\ \A s : At(queue', s) = At(queue, s)
    BY <1>1, QueueKept
  <1>5. Held'
    BY <1>2, <1>3, <1>4 DEF Held
  <1>6. RootIsFirst'
    <2>1. ASSUME NEW u \in Threads, NEW k \in 1 .. Len(stack'[u])
          PROVE  stack'[u][k].at \in RootLabels <=> u = Main /\ k = 1
      <3>1. CASE u = t
        BY <2>1, <3>1, <1>2
      <3>2. CASE u # t
        BY <2>1, <3>2, <1>1, <1>2 DEF RootIsFirst
      <3> QED
        BY <3>1, <3>2
    <2> QED
      BY <2>1 DEF RootIsFirst
  <1>7. MainAlone'
    BY <1>1, <1>2, <1>3, <1>4 DEF MainAlone
  <1>8. \A u \in Threads : \A s \in Sources : At(stack'[u], s) = At(stack[u], s)
    BY <1>2
  <1>9. Main \in Threads
    BY DEF Threads
  <1>10. \A s \in Sources : ToCome(s)' <=> ToCome(s)
    <2>1. CASE t = Main
      BY <2>1, <1>2, <1>3 DEF ToCome
    <2>2. CASE t # Main
      BY <2>2, <1>2, <1>3, <1>9 DEF ToCome
    <2> QED
      BY <2>1, <2>2
  <1>11. Decided' => Decided \/ \A s \in Sources : ~Live(s)
    <2>1. CASE t = Main
      BY <2>1, <1>2 DEF Decided
    <2>2. CASE t # Main
      BY <2>2, <1>2, <1>9 DEF Decided
    <2> QED
      BY <2>1, <2>2
  <1> QED
    BY <1>4, <1>5, <1>6, <1>7, <1>8, <1>10, <1>11, NobodyMoves

\* Thread t's innermost call goes on to f: the link step's own as its position allows.
LEMMA Advances ==
    ASSUME Where, args \in Builds, args' = args, remaining' = remaining, JobQueued,
           NEW t \in Threads, stack[t] # << >>, NEW f \in Calls, Like(f, Top(t)),
           Submitted(f) = Submitted(Top(t)),
           Top(t).at \in {"submit", "wait_deps"} /\ f.at \notin {"submit", "wait_deps"}
             => \A s \in Sources : ~Live(s),
           Become(t, f)
    PROVE  Where'
  <1> DEFINE q == stack[t]
             r == Swap(q, f)
  <1>1. q \in Seq(Calls) /\ q # << >> /\ RootIsFirst /\ stack' = [stack EXCEPT ![t] = r]
    BY DEF Where, Held, Become, Below, Cut, Swap
  <1>2. Like(f, q[Len(q)]) /\ Top(t) = q[Len(q)]
    BY DEF Top
  <1> HIDE DEF q
  <1>3. /\ r \in Seq(Calls) /\ Len(r) = Len(q) /\ r # << >> /\ Len(q) \in Nat \ {0}
        /\ \A k \in 1 .. Len(q) : r[k] = IF k = Len(q) THEN f ELSE q[k]
    BY <1>1, <1>2, Swapped
  <1>4. \A s \in Sources : At(r, s) = At(q, s)
    BY <1>1, <1>2, AtSwapped
  <1> HIDE DEF r
  <1>5. \A k \in 1 .. Len(q) : q[k].at \in RootLabels <=> t = Main /\ k = 1
    BY <1>1 DEF RootIsFirst, q
  <1>6. \A k \in 1 .. Len(r) : r[k].at \in RootLabels <=> t = Main /\ k = 1
    BY <1>2, <1>3, <1>5 DEF Like
  <1>7. /\ r # << >>
        /\ Submitted(r[1]) = Submitted(q[1])
        /\ r[1].at \notin {"submit", "wait_deps"} =>
             q[1].at \notin {"submit", "wait_deps"} \/ \A s \in Sources : ~Live(s)
    <2>1. CASE Len(q) = 1
      BY <2>1, <1>2, <1>3
    <2>2. CASE Len(q) # 1
      <3>1. r[1] = q[1]
        BY <2>2, <1>3
      <3> QED
        BY <3>1, <1>3
    <2> QED
      BY <2>1, <2>2
  <1>8. t = Main =>
          /\ \A s \in Sources : (r # << >> /\ Submitted(r[1]) < s) <=> ToCome(s)
          /\ (r # << >> => r[1].at \notin {"submit", "wait_deps"})
               => Decided \/ \A s \in Sources : ~Live(s)
    BY <1>1, <1>7 DEF ToCome, Decided, q
  <1> QED
    BY <1>1, <1>3, <1>4, <1>6, <1>8, OneStack DEF q

\* Thread t calls g, a job, from its innermost call, which goes on to f meanwhile.
LEMMA CallsJob ==
    ASSUME Where, args \in Builds, args' = args, remaining' = remaining, JobQueued,
           NEW t \in Threads, stack[t] # << >>, NEW f \in Calls, Like(f, Top(t)),
           f.at \notin RootLabels, NEW g \in Calls, g.at \in JobLabels,
           stack' = [stack EXCEPT ![t] = Push(Swap(stack[t], f), g)]
    PROVE  Where'
  <1> DEFINE q == stack[t]
             p == Swap(q, f)
             r == Push(p, g)
  <1>1. q \in Seq(Calls) /\ q # << >> /\ RootIsFirst /\ stack' = [stack EXCEPT ![t] = r]
    BY DEF Where, Held
  <1>2. Like(f, q[Len(q)]) /\ Top(t) = q[Len(q)]
    BY DEF Top
  <1>3. g.at \notin CompileLabels /\ g.at \notin RootLabels
    BY DEF JobLabels, CompileLabels, RootLabels
  <1> HIDE DEF q
  <1>4. /\ p \in Seq(Calls) /\ Len(p) = Len(q) /\ p # << >> /\ Len(q) \in Nat \ {0}
        /\ \A k \in 1 .. Len(q) : p[k] = IF k = Len(q) THEN f ELSE q[k]
    BY <1>1, <1>2, Swapped
  <1>5. \A s \in Sources : At(p, s) = At(q, s)
    BY <1>1, <1>2, AtSwapped
  <1> HIDE DEF p
  <1>6. /\ r \in Seq(Calls) /\ Len(r) = Len(p) + 1 /\ r # << >>
        /\ \A k \in 1 .. Len(p) : r[k] = p[k]
        /\ r[Len(p) + 1] = g
    <2>1. p \in Seq(Calls)
      BY <1>4
    <2> QED
      BY <2>1, Pushed, SMTT(30)
  <1>7. \A s \in Sources : At(r, s) = At(p, s)
    BY <1>3, <1>4, AtPushed
  <1>8. \A k \in 1 .. Len(q) : q[k].at \in RootLabels <=> t = Main /\ k = 1
    BY <1>1 DEF RootIsFirst, q
  <1> HIDE DEF r
  <1>9. Len(q) # 1 \/ t # Main
    BY <1>2, <1>4, <1>8 DEF Like
  <1>10. \A k \in 1 .. Len(r) : r[k].at \in RootLabels <=> t = Main /\ k = 1
    <2>1. ASSUME NEW k \in 1 .. Len(r)
          PROVE  r[k].at \in RootLabels <=> t = Main /\ k = 1
      <3>1. CASE k = Len(p) + 1
        BY <3>1, <1>3, <1>4, <1>6
      <3>2. CASE k = Len(q)
        BY <3>2, <1>4, <1>6, <1>9
      <3>3. CASE k # Len(p) + 1 /\ k # Len(q)
        <4>1. k \in 1 .. Len(q) /\ r[k] = q[k]
          BY <3>3, <2>1, <1>4, <1>6
        <4> QED
          BY <4>1, <1>8
      <3> QED
        BY <3>1, <3>2, <3>3
    <2> QED
      BY <2>1
  <1>11. t = Main => r[1] = q[1]
    <2>1. t = Main => 1 \in 1 .. Len(q) /\ 1 # Len(q)
      BY <1>4, <1>9
    <2> QED
      BY <2>1, <1>4, <1>6
  <1>12. t = Main =>
           /\ \A s \in Sources : (r # << >> /\ Submitted(r[1]) < s) <=> ToCome(s)
           /\ (r # << >> => r[1].at \notin {"submit", "wait_deps"})
                => Decided \/ \A s \in Sources : ~Live(s)
    BY <1>1, <1>6, <1>11 DEF ToCome, Decided, q
  <1>13. \A s \in Sources : At(r, s) = At(stack[t], s)
    BY <1>5, <1>7 DEF q
  <1> QED
    BY <1>1, <1>6, <1>10, <1>12, <1>13, OneStack DEF q

\* A job returns, or the link step's call does.
LEMMA Returns ==
    ASSUME Where, args \in Builds, args' = args, remaining' = remaining, UNCHANGED queue,
           NEW t \in Threads, stack[t] # << >>, Top(t).at \in JobLabels \cup {"return"},
           Return(t)
    PROVE  /\ Where'
           /\ Top(t).at = "return" => t = Main /\ stack'[Main] = << >>
  <1> DEFINE q == stack[t]
             r == Cut(q)
  <1>1. q \in Seq(Calls) /\ q # << >> /\ RootIsFirst /\ stack' = [stack EXCEPT ![t] = r]
    BY DEF Where, Held, Return, Below, Cut
  <1>2. Top(t) = q[Len(q)] /\ stack \in [Threads -> Seq(Calls)]
    BY DEF Top, Where, Held
  <1> HIDE DEF q
  <1>3. /\ r \in Seq(Calls) /\ Len(r) = Len(q) - 1 /\ Len(q) \in Nat \ {0}
        /\ \A k \in 1 .. Len(q) - 1 : r[k] = q[k]
    BY <1>1, Popped
  <1>4. q[Len(q)].at \notin CompileLabels
    BY <1>2 DEF JobLabels, CompileLabels
  <1>5. \A s \in Sources : At(r, s) = At(q, s)
    <2>1. ASSUME NEW s \in Sources
          PROVE  At(r, s) = At(q, s)
      <3>1. At(r, s) = At(q, s) \ {Len(q)}
        BY <1>1, AtPopped
      <3>2. Len(q) \notin At(q, s)
        BY <1>4 DEF At
      <3> QED
        BY <3>1, <3>2
    <2> QED
      BY <2>1
  <1> HIDE DEF r
  <1>6. \A k \in 1 .. Len(q) : q[k].at \in RootLabels <=> t = Main /\ k = 1
    BY <1>1 DEF RootIsFirst, q
  <1>7. \A k \in 1 .. Len(r) : r[k].at \in RootLabels <=> t = Main /\ k = 1
    BY <1>3, <1>6
  <1>8. CASE Top(t).at = "return"
    <2>1. t = Main /\ Len(q) = 1
      BY <1>2, <1>3, <1>6, <1>8 DEF RootLabels, Labels, CompileLabels, JobLabels
    <2>2. r = << >> /\ q[1].at = "return"
      BY <2>1, <1>2, <1>3, <1>8
    <2>3. /\ \A s \in Sources : (r # << >> /\ Submitted(r[1]) < s) <=> ToCome(s)
          /\ Decided
      BY <2>1, <2>2, BuildShape DEF ToCome, Decided, Submitted, q
    <2>4. stack'[Main] = << >>
      BY <2>1, <2>2, <1>1, <1>2
    <2> QED
      BY <2>1, <2>3, <2>4, <1>1, <1>3, <1>5, <1>7, OneStack DEF q, JobQueued
  <1>9. CASE Top(t).at \in JobLabels
    <2>1. q[Len(q)].at \notin RootLabels /\ Top(t).at # "return"
      BY <1>2, <1>9 DEF JobLabels, RootLabels
    <2>2. t = Main => r # << >> /\ r[1] = q[1]
      BY <2>1, <1>3, <1>6
    <2>3. t = Main =>
            /\ \A s \in Sources : (r # << >> /\ Submitted(r[1]) < s) <=> ToCome(s)
            /\ (r # << >> => r[1].at \notin {"submit", "wait_deps"})
                 => Decided \/ \A s \in Sources : ~Live(s)
      BY <1>1, <2>2 DEF ToCome, Decided, q
    <2> QED
      BY <2>1, <2>3, <1>1, <1>3, <1>5, <1>7, OneStack DEF q, JobQueued
  <1> QED
    BY <1>8, <1>9

-----------------------------------------------------------------------------
(* Steps that move a compile step                                           *)

\* Thread t takes the first job of the queue, on top of the calls it is in.
LEMMA Takes ==
    ASSUME Where, args \in Builds, args' = args, remaining' = remaining, HasPool,
           NEW t \in Threads, stack[t] # << >> \/ t # Main, queue # << >>,
           stack' = [stack EXCEPT ![t] = Push(stack[t], Head(queue))],
           queue' = Tail(queue)
    PROVE  Where'
  <1> DEFINE q == stack[t]
             h == Head(queue)
             r == Push(q, h)
  <1>1. /\ stack \in [Threads -> Seq(Calls)] /\ queue \in Seq(Queued) /\ RootIsFirst
        /\ q \in Seq(Calls)
    BY DEF Where, Held
  <1>2. /\ queue' \in Seq(Queued) /\ h = queue[1] /\ h \in Queued /\ Len(queue) \in Nat \ {0}
    BY <1>1, Taken
  <1>3. h \in Calls /\ h.at \notin RootLabels
    BY <1>2 DEF Queued, RootLabels, CompileLabels, JobLabels
  <1> HIDE DEF q, h
  <1>4. /\ r \in Seq(Calls) /\ Len(r) = Len(q) + 1 /\ Len(q) \in Nat /\ r # << >>
        /\ \A k \in 1 .. Len(q) : r[k] = q[k]
        /\ r[Len(q) + 1] = h
    BY <1>1, <1>3, Pushed, SMTT(30)
  <1>5. \A s : At(r, s) = IF h.at \in CompileLabels /\ h.step = s
                         THEN At(q, s) \cup {Len(q) + 1} ELSE At(q, s)
    BY <1>1, <1>3, AtPushed
  <1>6. \A s : \A k : k \in At(queue', s) <=> k \in Nat \ {0} /\ k + 1 \in At(queue, s)
    BY <1>1, AtTaken
  <1>7. stack' = [stack EXCEPT ![t] = r]
    BY DEF q, h
  <1> HIDE DEF r
  <1>8. /\ stack' \in [Threads -> Seq(Calls)]
        /\ stack'[t] = r /\ \A u \in Threads : u # t => stack'[u] = stack[u]
    BY <1>1, <1>4, <1>7
  <1>9. /\ Calls' = Calls /\ Queued' = Queued /\ HasPool' = HasPool
        /\ \A f : Submitted(f)' = Submitted(f)
    BY SameBuild
  <1>10. Held' /\ MainAlone'
    BY <1>2, <1>8, <1>9 DEF Held, MainAlone
  <1>11. RootIsFirst'
    <2>1. ASSUME NEW u \in Threads, NEW k \in 1 .. Len(stack'[u])
          PROVE  stack'[u][k].at \in RootLabels <=> u = Main /\ k = 1
      <3>1. CASE u # t
        BY <2>1, <3>1, <1>1, <1>8 DEF RootIsFirst
      <3>2. CASE u = t /\ k = Len(q) + 1
        <4>1. ~(t = Main /\ k = 1)
          BY <3>2, <1>1, <1>4 DEF q
        <4> QED
          BY <4>1, <3>2, <1>3, <1>4, <1>8
      <3>3. CASE u = t /\ k # Len(q) + 1
        <4>1. k \in 1 .. Len(q) /\ stack'[u][k] = stack[t][k]
          BY <2>1, <3>3, <1>4, <1>8 DEF q
        <4> QED
          BY <4>1, <3>3, <1>1 DEF RootIsFirst, q
      <3> QED
        BY <3>1, <3>2, <3>3
    <2> QED
      BY <2>1 DEF RootIsFirst
  <1>12. /\ stack'[Main] # << >> <=> stack[Main] # << >>
         /\ stack[Main] # << >> => stack'[Main][1] = stack[Main][1]
    <2>1. CASE t = Main
      <3>1. q # << >> /\ 1 \in 1 .. Len(q)
        BY <2>1, <1>1, <1>4 DEF q
      <3> QED
        BY <2>1, <3>1, <1>4, <1>8 DEF q
    <2>2. CASE t # Main
      BY <2>2, <1>8 DEF Threads
    <2> QED
      BY <2>1, <2>2
  <1>13. \A s : ToCome(s)' <=> ToCome(s)
    BY <1>9, <1>12 DEF ToCome
  <1>14. Decided' => Decided
    BY <1>12 DEF Decided
  <1>15. ASSUME NEW s \in Sources
         PROVE  InOnePlace(s)' /\ (Live(s)' <=> Live(s))
    <2>1. InOnePlace(s)
      BY DEF Where, OnePlace
    <2>2. CASE h.at \in CompileLabels /\ h.step = s
      <3>1. 1 \in At(queue, s)
        BY <2>2, <1>2 DEF At
      <3>2. At(queue', s) = {}
        <4>1. \A k \in Nat \ {0} : k + 1 \notin At(queue, s)
          BY <3>1, <2>1 DEF InOnePlace
        <4> QED
          BY <4>1, <1>6
      <3>3. ~ToCome(s) /\ \A u \in Threads : At(stack[u], s) = {}
        BY <3>1, <2>1 DEF InOnePlace
      <3>4. At(stack'[t], s) = {Len(q) + 1}
        BY <2>2, <3>3, <1>5, <1>8 DEF q
      <3>5. \A u \in Threads : u # t => At(stack'[u], s) = {}
        BY <3>3, <1>8
      <3>6. ~ToCome(s)'
        BY <3>3, <1>13
      <3>7. InOnePlace(s)'
        <4>1. \A u \in Threads : \A k \in At(stack'[u], s) : u = t /\ k = Len(q) + 1
          BY <3>4, <3>5
        <4>2. \A u, v \in Threads : \A k \in At(stack'[u], s), l \in At(stack'[v], s) :
                u = v /\ k = l
          BY <4>1
        <4> QED
          BY <3>2, <3>6, <4>2 DEF InOnePlace
      <3>8. Live(s)' /\ Live(s)
        BY <3>1, <3>4 DEF Live
      <3> QED
        BY <3>7, <3>8
    <2>3. CASE ~(h.at \in CompileLabels /\ h.step = s)
      <3>1. 1 \notin At(queue, s)
        BY <2>3, <1>2 DEF At
      <3>2. \A u \in Threads : At(stack'[u], s) = At(stack[u], s)
        BY <2>3, <1>5, <1>8 DEF q
      <3>3. At(queue', s) # {} <=> At(queue, s) # {}
        <4>1. ASSUME NEW k \in At(queue, s)
              PROVE  k - 1 \in At(queue', s)
          <5>1. k \in Nat \ {0} /\ k # 1
            BY <3>1, <1>2 DEF At
          <5>2. k - 1 \in Nat \ {0} /\ (k - 1) + 1 = k
            BY <5>1
          <5> QED
            BY <5>2, <1>6
        <4> QED
          BY <4>1, <1>6
      <3>4. \A k, l \in At(queue', s) : k = l
        <4>1. ASSUME NEW k \in At(queue', s), NEW l \in At(queue', s)
              PROVE  k = l
          <5>1. /\ k \in Nat /\ l \in Nat
                /\ k + 1 \in At(queue, s) /\ l + 1 \in At(queue, s)
            BY <1>6
          <5>2. k + 1 = l + 1
            BY <5>1, <2>1 DEF InOnePlace
          <5> QED
            BY <5>1, <5>2
        <4> QED
          BY <4>1
      <3>5. Live(s)' <=> Live(s)
        BY <3>2, <3>3, <1>13 DEF Live
      <3>6. \A u, v \in Threads : \A k \in At(stack'[u], s), l \in At(stack'[v], s) :
              u = v /\ k = l
        <4>1. ASSUME NEW u \in Threads, NEW v \in Threads,
                     NEW k \in At(stack'[u], s), NEW l \in At(stack'[v], s)
              PROVE  u = v /\ k = l
          <5>1. k \in At(stack[u], s) /\ l \in At(stack[v], s)
            BY <3>2
          <5> QED
            BY <5>1, <2>1 DEF InOnePlace
        <4> QED
          BY <4>1
      <3>7. At(queue', s) # {} => \A u \in Threads : At(stack'[u], s) = {}
        BY <2>1, <3>2, <3>3 DEF InOnePlace
      <3>8. ToCome(s)' => At(queue', s) = {} /\ \A u \in Threads : At(stack'[u], s) = {}
        BY <2>1, <3>2, <3>3, <1>13 DEF InOnePlace
      <3>9. InOnePlace(s)'
        BY <3>4, <3>6, <3>7, <3>8 DEF InOnePlace
      <3> QED
        BY <3>5, <3>9
    <2> QED
      BY <2>2, <2>3
  <1> QED
    BY <1>10, <1>11, <1>14, <1>15, NobodyEnds

\* A compile step is over (step_done): it is alive nowhere else.
LEMMA StepEnds ==
    ASSUME Where, args \in Builds, args' = args, remaining' = remaining - 1, UNCHANGED queue,
           NEW t \in Threads, stack[t] # << >>, Top(t).at = "done", Return(t),
           NEW e, e = Top(t).step
    PROVE  Where'
  <1> DEFINE q == stack[t]
             r == Cut(q)
  <1>1. /\ stack \in [Threads -> Seq(Calls)] /\ queue \in Seq(Queued) /\ RootIsFirst
        /\ q \in Seq(Calls) /\ q # << >> /\ stack' = [stack EXCEPT ![t] = r]
    BY DEF Where, Held, Return, Below, Cut
  <1>2. Top(t) = q[Len(q)]
    BY DEF Top
  <1> HIDE DEF q
  <1>3. /\ r \in Seq(Calls) /\ Len(r) = Len(q) - 1 /\ Len(q) \in Nat \ {0}
        /\ \A k \in 1 .. Len(q) - 1 : r[k] = q[k]
    BY <1>1, Popped
  <1>4. \A s : At(r, s) = At(q, s) \ {Len(q)}
    BY <1>1, AtPopped
  <1> HIDE DEF r
  <1>5. q[Len(q)] \in Calls
    BY <1>1, <1>3
  <1>6. e \in Sources /\ Len(q) \in At(q, e) /\ \A s : s # e => Len(q) \notin At(q, s)
    BY <1>2, <1>3, <1>5 DEF Calls, CompileLabels, At
  <1>7. /\ stack' \in [Threads -> Seq(Calls)]
        /\ stack'[t] = r /\ \A u \in Threads : u # t => stack'[u] = stack[u]
    BY <1>1, <1>3
  <1>8. /\ Calls' = Calls /\ Queued' = Queued /\ HasPool' = HasPool /\ Sources' = Sources
        /\ \A f : Submitted(f)' = Submitted(f)
    BY SameBuild
  <1>9. Held' /\ MainAlone'
    BY <1>1, <1>7, <1>8 DEF Held, MainAlone, Where, q
  <1>10. \A k \in 1 .. Len(q) : q[k].at \in RootLabels <=> t = Main /\ k = 1
    BY <1>1 DEF RootIsFirst, q
  <1>11. RootIsFirst'
    <2>1. ASSUME NEW u \in Threads, NEW k \in 1 .. Len(stack'[u])
          PROVE  stack'[u][k].at \in RootLabels <=> u = Main /\ k = 1
      <3>1. CASE u # t
        BY <2>1, <3>1, <1>1, <1>7 DEF RootIsFirst
      <3>2. CASE u = t
        <4>1. k \in 1 .. Len(q) /\ stack'[u][k] = q[k]
          BY <2>1, <3>2, <1>3, <1>7
        <4> QED
          BY <4>1, <3>2, <1>10
      <3> QED
        BY <3>1, <3>2
    <2> QED
      BY <2>1 DEF RootIsFirst
  <1>12. /\ stack'[Main] # << >> <=> stack[Main] # << >>
         /\ stack[Main] # << >> => stack'[Main][1] = stack[Main][1]
    <2>1. CASE t = Main
      <3>1. Len(q) # 1
        BY <2>1, <1>2, <1>3, <1>10 DEF RootLabels, CompileLabels
      <3>2. r # << >> /\ r[1] = q[1]
        BY <3>1, <1>3
      <3> QED
        BY <2>1, <3>2, <1>1, <1>7 DEF q
    <2>2. CASE t # Main
      BY <2>2, <1>7 DEF Threads
    <2> QED
      BY <2>1, <2>2
  <1>13. \A s : ToCome(s)' <=> ToCome(s)
    BY <1>8, <1>12 DEF ToCome
  <1>14. ASSUME NEW s \in Sources, s # e
         PROVE  InOnePlace(s)' /\ (Live(s)' <=> Live(s))
    <2>1. InOnePlace(s)
      BY DEF Where, OnePlace
    <2>2. \A u \in Threads : At(stack'[u], s) = At(stack[u], s)
      <3>1. At(r, s) = At(q, s)
        BY <1>4, <1>6, <1>14
      <3> QED
        BY <3>1, <1>7 DEF q
    <2>3. \A u, v \in Threads : \A k \in At(stack'[u], s), l \in At(stack'[v], s) :
            u = v /\ k = l
      <3>1. ASSUME NEW u \in Threads, NEW v \in Threads,
                   NEW k \in At(stack'[u], s), NEW l \in At(stack'[v], s)
            PROVE  u = v /\ k = l
        <4>1. k \in At(stack[u], s) /\ l \in At(stack[v], s)
          BY <2>2
        <4> QED
          BY <4>1, <2>1 DEF InOnePlace
      <3> QED
        BY <3>1
    <2>4. InOnePlace(s)'
      BY <2>1, <2>2, <2>3, <1>13 DEF InOnePlace
    <2> QED
      BY <2>2, <2>4, <1>13 DEF Live
  <1>15. InOnePlace(e)' /\ ~Live(e)' /\ Live(e)
    <2>1. InOnePlace(e)
      BY <1>6 DEF Where, OnePlace
    <2>2. \A u \in Threads : \A k \in At(stack[u], e) : u = t /\ k = Len(q)
      BY <2>1, <1>6 DEF InOnePlace, q
    <2>3. \A u \in Threads : At(stack'[u], e) = {}
      BY <2>2, <1>4, <1>7 DEF q
    <2>4. At(queue, e) = {}
      BY <2>1, <1>6 DEF InOnePlace, q
    <2>5. ~ToCome(e)
      BY <2>1, <1>6 DEF InOnePlace, q
    <2>6. ~ToCome(e)'
      BY <2>5, <1>13
    <2> QED
      BY <2>3, <2>4, <2>6, <1>6 DEF InOnePlace, Live, q
  <1>16. OnePlace'
    BY <1>8, <1>14, <1>15 DEF OnePlace
  <1>17. Counted'
    <2> DEFINE L == {s \in Sources : Live(s)}
    <2>1. {s \in Sources : Live(s)}' = L \ {e}
      BY <1>8, <1>14, <1>15
    <2>2. IsFiniteSet(L) /\ e \in L
      BY <1>6, <1>15, BuildShape, FS_Subset
    <2>3. Cardinality(L \ {e}) = Cardinality(L) - 1
      BY <2>2, FS_RemoveElement
    <2> QED
      BY <2>1, <2>3 DEF Where, Counted
  <1>18. AfterAll'
    BY <1>6, <1>12, <1>15 DEF Where, AfterAll, Decided
  <1> QED
    BY <1>9, <1>11, <1>16, <1>17, <1>18 DEF Where

\* While a compile step is on some stack the caller has no result yet.
LEMMA StepRuns ==
    ASSUME Where, NEW t \in Threads, stack[t] # << >>, Top(t).at \in CompileLabels
    PROVE  stack[Main] # << >>
  <1>1. /\ stack[t] \in Seq(Calls) /\ Len(stack[t]) \in 1 .. Len(stack[t])
        /\ stack[t][Len(stack[t])] \in Calls
    BY DEF Where, Held
  <1>2. /\ Top(t).step \in Sources /\ At(stack[t], Top(t).step) # {}
    BY <1>1 DEF Calls, At, Top
  <1> QED
    BY <1>2 DEF Where, AfterAll, Decided, Live

LEMMA SubmitDepIsRoot ==
    ASSUME Where, NEW t \in Threads, stack[t] # << >>, Top(t).at \in RootLabels
    PROVE  /\ t = Main /\ Len(stack[t]) = 1 /\ stack[t][1] = Top(t)
           /\ stack[t] \in Seq(Calls) /\ Top(t) \in Calls
  <1>1. /\ stack[t] \in Seq(Calls) /\ Len(stack[t]) \in Nat \ {0}
    BY DEF Where, Held
  <1>2. Len(stack[t]) \in 1 .. Len(stack[t]) /\ Top(t) = stack[t][Len(stack[t])]
    BY <1>1 DEF Top
  <1>3. t = Main /\ Len(stack[t]) = 1
    BY <1>2 DEF Where, RootIsFirst
  <1> QED
    BY <1>1, <1>2, <1>3

\* step_submit hands out the next source, to the pool or by a call of its own.
LEMMA Submits ==
    ASSUME Where, args \in Builds, args' = args, remaining' = remaining,
           NEW t \in Threads, SubmitDep(t), NEW e, e = Top(t).i + 1
    PROVE  Where'
  <1> DEFINE q == stack[t]
             n == Top(t).i
             d == Call("cpp", e)
             f == [Top(t) EXCEPT !.i = e]
             p == Swap(q, f)
             r == Push(p, d)
  <1>1. /\ q # << >> /\ Top(t).at = "submit" /\ n < NSources
    BY DEF SubmitDep, Active
  <1>2. /\ t = Main /\ Len(q) = 1 /\ q[1] = Top(t) /\ q \in Seq(Calls) /\ Top(t) \in Calls
    BY <1>1, SubmitDepIsRoot DEF RootLabels, Labels, CompileLabels, JobLabels
  <1>3. /\ NSources \in Nat /\ Sources = 1 .. NSources /\ Main \in Threads /\ HasPool \in BOOLEAN
    BY BuildShape
  <1>4. n \in Nat /\ e \in Sources /\ e \in Nat
    BY <1>1, <1>2, <1>3 DEF Calls
  <1>5. /\ f \in Calls /\ f.at = "submit" /\ f.i = e
    <2> DEFINE g == Top(t)
    <2>1. /\ g \in [at : Labels, step : Steps, i : Nat, tu : Nat, lo : Int, hi : Int]
          /\ g.at = "submit" /\ f = [g EXCEPT !.i = e] /\ e <= NSources
      BY <1>1, <1>2, <1>3, <1>4 DEF Calls
    <2> HIDE DEF g, f
    <2>2. f \in [at : Labels, step : Steps, i : Nat, tu : Nat, lo : Int, hi : Int]
      BY <2>1, <1>4
    <2>3. f.at = "submit" /\ f.i = e
      BY <2>1, <1>4
    <2> QED
      BY <2>1, <2>2, <2>3 DEF Calls, CompileLabels
  <1>6. /\ d \in Queued /\ d \in Calls /\ d.at = "cpp" /\ d.step = e
    BY <1>4 DEF Call, Frame, Queued, Calls, Labels, CompileLabels, Steps
  <1>7. /\ stack \in [Threads -> Seq(Calls)] /\ queue \in Seq(Queued) /\ RootIsFirst
        /\ MainAlone
    BY DEF Where, Held
  <1>8. \/ /\ HasPool /\ queue' = Push(queue, d) /\ stack' = [stack EXCEPT ![t] = p]
        \/ /\ queue' = queue /\ stack' = [stack EXCEPT ![t] = r]
    <2>1. CASE HasPool /\ NSources > 1
      BY <2>1 DEF SubmitDep, Submit, Become, Push, Swap, Below, Cut
    <2>2. CASE ~(HasPool /\ NSources > 1)
      <3>1. stack' = [stack EXCEPT ![t] = Below(t) \o <<f, d>>] /\ queue' = queue
        BY <2>2 DEF SubmitDep
      <3>2. Cut(q) \in Seq(Calls)
        BY <1>1, <1>2, Popped
      <3> HIDE DEF f, d
      <3>3. Cut(q) \o <<f, d>> = Append(Append(Cut(q), f), d)
        BY <3>2, <1>5, <1>6
      <3> QED
        BY <3>1, <3>3 DEF Push, Swap, Below, Cut
    <2> QED
      BY <2>1, <2>2
  <1> HIDE DEF f, d
  <1>9. /\ p \in Seq(Calls) /\ Len(p) = 1 /\ p # << >> /\ p[1] = f
    <2> HIDE DEF q
    <2>1. q \in Seq(Calls) /\ q # << >> /\ f \in Calls
      BY <1>1, <1>2, <1>5
    <2>2. /\ p \in Seq(Calls) /\ Len(p) = Len(q) /\ p # << >>
          /\ \A k \in 1 .. Len(q) : p[k] = IF k = Len(q) THEN f ELSE q[k]
      BY <2>1, Swapped, SMTT(30)
    <2> QED
      BY <2>2, <1>2
  <1> HIDE DEF p
  <1>10. /\ r \in Seq(Calls) /\ Len(r) = 2 /\ r # << >> /\ r[1] = f /\ r[2] = d
    <2>1. p \in Seq(Calls)
      BY <1>9
    <2>2. /\ r \in Seq(Calls) /\ Len(r) = Len(p) + 1 /\ r # << >>
          /\ \A k \in 1 .. Len(p) : r[k] = p[k]
          /\ r[Len(p) + 1] = d
      BY <1>6, <2>1, Pushed, SMTT(30)
    <2> QED
      BY <2>2, <1>9
  <1>11. \A s : At(p, s) = {} /\ At(q, s) = {} /\ At(r, s) = IF s = e THEN {2} ELSE {}
    BY <1>1, <1>2, <1>5, <1>6, <1>9, <1>10 DEF At, CompileLabels
  <1> HIDE DEF r
  <1>12. /\ stack' \in [Threads -> Seq(Calls)]
         /\ stack'[Main] # << >> /\ stack'[Main][1] = f
         /\ \A u \in Threads : u # Main => stack'[u] = stack[u]
         /\ stack'[Main] \in {p, r}
    BY <1>2, <1>3, <1>7, <1>8, <1>9, <1>10
  <1>13. /\ queue' \in Seq(Queued) /\ (~HasPool => queue' = queue)
         /\ queue' # queue => queue' = Push(queue, d)
    <2>1. CASE HasPool /\ queue' = Push(queue, d)
      BY <2>1, <1>6, <1>7, Pushed
    <2>2. CASE queue' = queue
      BY <2>2, <1>7
    <2> QED
      BY <2>1, <2>2, <1>8
  <1>14. /\ Calls' = Calls /\ Queued' = Queued /\ HasPool' = HasPool
         /\ \A g : Submitted(g)' = Submitted(g)
    BY SameBuild
  <1>15. Held' /\ MainAlone'
    BY <1>7, <1>12, <1>13, <1>14 DEF Held, MainAlone
  <1>16. RootIsFirst'
    <2>1. /\ f.at \in RootLabels /\ d.at \notin RootLabels
      BY <1>5, <1>6 DEF RootLabels, Labels, CompileLabels, JobLabels
    <2>2. ASSUME NEW u \in Threads, NEW k \in 1 .. Len(stack'[u])
          PROVE  stack'[u][k].at \in RootLabels <=> u = Main /\ k = 1
      <3>1. CASE u # Main
        BY <2>2, <3>1, <1>7, <1>12 DEF RootIsFirst
      <3>2. CASE u = Main
        BY <2>1, <2>2, <3>2, <1>9, <1>10, <1>12
      <3> QED
        BY <3>1, <3>2
    <2> QED
      BY <2>2 DEF RootIsFirst
  <1>17. \A s \in Sources : (ToCome(s) <=> n < s) /\ (ToCome(s)' <=> e < s)
    BY <1>1, <1>2, <1>5, <1>12, <1>14 DEF ToCome, Submitted
  <1>18. At(queue, e) = {} /\ \A u \in Threads : At(stack[u], e) = {}
    <2>1. InOnePlace(e) /\ n < e
      BY <1>4 DEF Where, OnePlace
    <2>2. ToCome(e)
      BY <2>1, <1>4, <1>17
    <2> QED
      BY <2>1, <2>2 DEF InOnePlace
  <1>19. ASSUME NEW s \in Sources, s # e
         PROVE  InOnePlace(s)' /\ (Live(s)' <=> Live(s))
    <2>1. InOnePlace(s)
      BY DEF Where, OnePlace
    <2>2. \A u \in Threads : At(stack'[u], s) = At(stack[u], s)
      BY <1>2, <1>11, <1>12, <1>19
    <2>3. At(queue', s) = At(queue, s)
      BY <1>6, <1>7, <1>13, <1>19, AtPushed
    <2>4. ToCome(s)' <=> ToCome(s)
      BY <1>3, <1>4, <1>17, <1>19
    <2>5. \A u, v \in Threads : \A k \in At(stack'[u], s), l \in At(stack'[v], s) :
            u = v /\ k = l
      <3>1. ASSUME NEW u \in Threads, NEW v \in Threads,
                   NEW k \in At(stack'[u], s), NEW l \in At(stack'[v], s)
            PROVE  u = v /\ k = l
        <4>1. k \in At(stack[u], s) /\ l \in At(stack[v], s)
          BY <2>2
        <4> QED
          BY <4>1, <2>1 DEF InOnePlace
      <3> QED
        BY <3>1
    <2>6. InOnePlace(s)'
      BY <2>1, <2>2, <2>3, <2>4, <2>5 DEF InOnePlace
    <2> QED
      BY <2>2, <2>3, <2>4, <2>6 DEF Live
  <1>20. InOnePlace(e)' /\ Live(e)' /\ Live(e)
    <2>1. ~ToCome(e)' /\ ToCome(e)
      BY <1>4, <1>17
    <2>2. CASE queue' = Push(queue, d) /\ stack' = [stack EXCEPT ![t] = p]
      <3>1. At(queue', e) = {Len(queue) + 1}
        BY <2>2, <1>6, <1>7, <1>18, AtPushed DEF CompileLabels
      <3>2. \A u \in Threads : At(stack'[u], e) = {}
        BY <2>2, <1>2, <1>7, <1>11, <1>18
      <3> QED
        BY <2>1, <3>1, <3>2 DEF InOnePlace, Live
    <2>3. CASE queue' = queue /\ stack' = [stack EXCEPT ![t] = r]
      <3>1. /\ At(stack'[Main], e) = {2}
            /\ \A u \in Threads : u # Main => At(stack'[u], e) = {}
        BY <2>3, <1>2, <1>3, <1>7, <1>11, <1>18
      <3>2. \A u \in Threads : \A k \in At(stack'[u], e) : u = Main /\ k = 2
        BY <3>1
      <3>3. \A u, v \in Threads : \A k \in At(stack'[u], e), l \in At(stack'[v], e) :
              u = v /\ k = l
        BY <3>2
      <3>4. At(queue', e) = {}
        BY <2>3, <1>18
      <3> QED
        BY <2>1, <3>1, <3>3, <3>4, <1>3 DEF InOnePlace, Live
    <2> QED
      BY <2>2, <2>3, <1>8
  <1>21. ~Decided'
    BY <1>5, <1>12 DEF Decided
  <1> QED
    BY <1>15, <1>16, <1>19, <1>20, <1>21, NobodyEnds

-----------------------------------------------------------------------------
(* The steps of the program                                                 *)

LEMMA TopCall ==
    ASSUME Where, NEW t \in Threads, stack[t] # << >>
    PROVE  Top(t) \in Calls
  BY DEF Where, Held, Top

\* A label and the one that follows it in the same call.
SameKind(l, m) == \E K \in {CompileLabels, JobLabels, RootLabels} : l \in K /\ m \in K

LEMMA Kinds ==
    ASSUME NEW f, NEW g, SameKind(f.at, g.at), f.step = g.step
    PROVE  Like(f, g)
  BY DEF SameKind, Like, CompileLabels, JobLabels, RootLabels

\* A call goes on to its next label, or with other values in it.
LEMMA GoesOn ==
    ASSUME Where, args \in Builds, args' = args, remaining' = remaining, JobQueued,
           NEW t \in Threads, stack[t] # << >>, NEW f \in Calls, SameKind(f.at, Top(t).at),
           f.step = Top(t).step, Become(t, f),
           Top(t).at # "submit", f.at # "submit",
           Top(t).at = "wait_deps" => \A s \in Sources : ~Live(s)
    PROVE  Where'
  BY Advances, Kinds DEF Submitted

LEMMA GoesTo ==
    ASSUME Where, args \in Builds, args' = args, remaining' = remaining, UNCHANGED queue,
           NEW t \in Threads, stack[t] # << >>, NEW l, SameKind(l, Top(t).at), Goto(t, l),
           Top(t).at # "submit", l \notin {"submit", "next_unit", "submit_ir"},
           Top(t).at = "wait_deps" => \A s \in Sources : ~Live(s)
    PROVE  Where'
  <1> DEFINE g == Top(t)
             f == [g EXCEPT !.at = l]
  <1>1. g \in Calls /\ Become(t, f)
    BY TopCall DEF Goto
  <1>2. l \in Labels /\ (l \in CompileLabels => g.at \in CompileLabels)
    BY DEF SameKind, CompileLabels, JobLabels, RootLabels, Labels
  <1> HIDE DEF g
  <1>3. f \in Calls /\ f.at = l /\ f.step = g.step
    BY <1>1, <1>2 DEF Calls
  <1> HIDE DEF f
  <1> QED
    BY <1>1, <1>3, GoesOn DEF g, JobQueued

\* A step of a thread that is in a call leaves the caller's result as true as it was, if
\* no compile step fails.
LEMMA ToldStays ==
    ASSUME Where, Told, NEW t \in Threads, stack[t] # << >>, NEW r,
           stack' = [stack EXCEPT ![t] = r],
           UNCHANGED <<errors, result>>, error_root' \subseteq error_root \cup {Ld}
    PROVE  Told'
  <1>1. stack[Main] = << >> => stack'[Main] = << >>
    BY DEF Where, Held
  <1> QED
    BY <1>1 DEF Told, Ld

\* step_error of a compile step.
LEMMA Fails ==
    ASSUME IInv, NEW t \in Threads, stack[t] # << >>, Top(t).at \in CompileLabels, FailStep(t)
    PROVE  IInv'
  <1>1. /\ Typed /\ Where /\ Told /\ UNCHANGED <<args, remaining, queue, cu, opt_left, result>>
        /\ errors' = errors + 1
    BY DEF IInv, FailStep, units, ir
  <1>2. Typed'
    BY <1>1, SameBuild DEF Typed
  <1>3. Where'
    <2>1. SameKind("done", Top(t).at) /\ Goto(t, "done") /\ Top(t).at # "submit"
          /\ Top(t).at # "wait_deps"
      BY DEF SameKind, CompileLabels, FailStep
    <2> QED
      BY <1>1, <2>1, GoesTo DEF Typed
  <1>4. Told'
    <2>1. stack[Main] # << >>
      BY <1>1, StepRuns
    <2> QED
      BY <1>1, <2>1 DEF Told, Typed
  <1> QED
    BY <1>2, <1>3, <1>4 DEF IInv

\* A step that keeps the counts and puts f in the place of the innermost call.
LEMMA Plain ==
    ASSUME IInv, UNCHANGED <<args, remaining, errors, result>>, JobQueued,
           cu' \in Seq(Sources), opt_left' \in Int, error_root' \subseteq error_root \cup {Ld},
           NEW t \in Threads, stack[t] # << >>, NEW f \in Calls, SameKind(f.at, Top(t).at),
           f.step = Top(t).step, Become(t, f),
           Top(t).at # "submit", f.at # "submit",
           Top(t).at = "wait_deps" => \A s \in Sources : ~Live(s)
    PROVE  IInv'
  <1>1. Typed'
    BY SameBuild DEF IInv, Typed
  <1>2. Where'
    BY GoesOn DEF IInv, Typed
  <1>3. Told'
    BY ToldStays DEF IInv, Become
  <1> QED
    BY <1>1, <1>2, <1>3 DEF IInv

LEMMA PlainGoto ==
    ASSUME IInv, UNCHANGED <<args, remaining, errors, result, queue>>,
           cu' \in Seq(Sources), opt_left' \in Int, error_root' \subseteq error_root \cup {Ld},
           NEW t \in Threads, stack[t] # << >>, NEW l, SameKind(l, Top(t).at), Goto(t, l),
           Top(t).at # "submit", l \notin {"submit", "next_unit", "submit_ir"},
           Top(t).at = "wait_deps" => \A s \in Sources : ~Live(s)
    PROVE  IInv'
  <1>1. Typed'
    BY SameBuild DEF IInv, Typed
  <1>2. Where'
    BY GoesTo DEF IInv, Typed
  <1>3. Told'
    BY ToldStays DEF IInv, Become, Goto
  <1> QED
    BY <1>1, <1>2, <1>3 DEF IInv

LEMMA Unchanged ==
    ASSUME IInv
    PROVE  /\ cu \in Seq(Sources) /\ opt_left \in Int /\ args \in Builds /\ Where
           /\ \A t \in Threads : stack[t] # << >> => Top(t) \in Calls
  BY TopCall DEF IInv, Typed

\* The compile steps' own labels, up to the end of irgen.
LEMMA CompileStepKeeps ==
    ASSUME IInv, NEW t \in Threads, CompileStep(t)
    PROVE  IInv'
  <1> USE Unchanged
  <1>1. CASE Active(t, "cpp") /\ FailStep(t)
    BY <1>1, Fails DEF Active, CompileLabels
  <1>2. CASE Active(t, "typecheck") /\ FailStep(t)
    BY <1>2, Fails DEF Active, CompileLabels
  <1>3. CASE Preprocess(t) /\ ~FailStep(t)
    BY <1>3, PlainGoto DEF Preprocess, Active, units, ir, steps, SameKind, CompileLabels
  <1>4. CASE AddToUnit(t)
    <2>1. Top(t).step \in Sources
      BY <1>4 DEF AddToUnit, Active, Calls, CompileLabels
    <2>2. cu' \in Seq(Sources)
      BY <2>1, <1>4 DEF AddToUnit
    <2> QED
      BY <2>2, <1>4, PlainGoto DEF AddToUnit, Active, ir, steps, SameKind, CompileLabels
  <1>5. CASE SemaCollect(t)
    BY <1>5, PlainGoto DEF SemaCollect, Active, ir, steps, SameKind, CompileLabels
  <1>6. CASE SemaTypeCheck(t) /\ ~FailStep(t)
    BY <1>6, PlainGoto DEF SemaTypeCheck, Active, units, ir, steps, SameKind, CompileLabels
  <1>7. CASE AllocateIR(t)
    BY <1>7, PlainGoto DEF AllocateIR, Active, ir, steps, SameKind, CompileLabels
  <1>8. CASE StepDone(t)
    <2>1. /\ stack[t] # << >> /\ Top(t).at = "done" /\ Return(t) /\ remaining' = remaining - 1
          /\ UNCHANGED <<queue, errors, error_root, args, cu, opt_left, result>>
      BY <1>8 DEF StepDone, Active, units, ir
    <2>2. Where'
      BY <2>1, StepEnds
    <2>3. Typed'
      BY <2>1, SameBuild DEF IInv, Typed
    <2>4. Told'
      BY <2>1, ToldStays DEF IInv, Return
    <2> QED
      BY <2>2, <2>3, <2>4 DEF IInv
  <1> QED
    BY <1>1, <1>2, <1>3, <1>4, <1>5, <1>6, <1>7, <1>8 DEF CompileStep, Preprocess, SemaTypeCheck

\* The frames the walk over the units goes through.
AtUnit(g, i) == [g EXCEPT !.at = "next_unit", !.i = i]
InUnit(g, tu, hi) == [g EXCEPT !.at = "submit_ir", !.tu = tu, !.lo = 1, !.hi = hi]
FromStmt(g, lo) == [g EXCEPT !.lo = lo]

LEMMA UnitFrame ==
    ASSUME NEW g \in Calls, g.step \in Sources, NEW i \in Nat, i >= 1
    PROVE  LET f == AtUnit(g, i)
           IN  f \in Calls /\ f.at = "next_unit" /\ f.step = g.step
  <1> DEFINE R == [at : Labels, step : Steps, i : Nat, tu : Nat, lo : Int, hi : Int]
             a == [g EXCEPT !.at = "next_unit"]
             f == AtUnit(g, i)
  <1>1. a \in R /\ a.at = "next_unit" /\ a.step = g.step /\ f = [a EXCEPT !.i = i]
    BY DEF Calls, Labels, AtUnit
  <1> HIDE DEF a, f
  <1>2. f \in R /\ f.at = "next_unit" /\ f.step = g.step /\ f.i = i
    BY <1>1
  <1> QED
    BY <1>2 DEF Calls, f

LEMMA StmtFrame ==
    ASSUME NEW g \in Calls, g.step \in Sources, g.i >= 1, NEW tu \in Nat, NEW hi \in Int
    PROVE  LET f == InUnit(g, tu, hi)
           IN  f \in Calls /\ f.at = "submit_ir" /\ f.step = g.step
  <1> DEFINE R == [at : Labels, step : Steps, i : Nat, tu : Nat, lo : Int, hi : Int]
             a == [g EXCEPT !.at = "submit_ir"]
             b == [a EXCEPT !.tu = tu]
             c == [b EXCEPT !.lo = 1]
             f == InUnit(g, tu, hi)
  <1>1. g \in R
    BY DEF Calls
  <1>2. a \in R /\ a.at = "submit_ir" /\ a.step = g.step /\ a.i = g.i
    BY <1>1 DEF Labels
  <1>3. f = [c EXCEPT !.hi = hi]
    BY <1>1 DEF InUnit
  <1> HIDE DEF a, f
  <1>4. b \in R /\ b.at = "submit_ir" /\ b.step = g.step /\ b.i = g.i
    BY <1>2
  <1> HIDE DEF b
  <1>5. c \in R /\ c.at = "submit_ir" /\ c.step = g.step /\ c.i = g.i
    BY <1>4
  <1> HIDE DEF c
  <1>6. f \in R /\ f.at = "submit_ir" /\ f.step = g.step /\ f.i = g.i
    BY <1>3, <1>5
  <1> QED
    BY <1>6 DEF Calls, f

LEMMA NextFrame ==
    ASSUME NEW g \in Calls, NEW lo \in Int
    PROVE  LET f == FromStmt(g, lo) IN  f \in Calls /\ f.at = g.at /\ f.step = g.step
  BY DEF Calls, FromStmt

LEMMA JobFrame ==
    ASSUME NEW st \in Sources, NEW tu \in Nat, NEW lo \in Int, NEW hi \in Int
    PROVE  IRJob(st, tu, lo, hi) \in Queued /\ IRJob(st, tu, lo, hi).at = "ir"
  <1> DEFINE f == IRJob(st, tu, lo, hi)
  <1>1. /\ f \in [at : Labels, step : Steps, i : Nat, tu : Nat, lo : Int, hi : Int]
        /\ f.at = "ir" /\ f.step = st
    BY DEF IRJob, Frame, Steps, Labels
  <1> HIDE DEF f
  <1>2. f \in Calls
    BY <1>1 DEF Calls, CompileLabels
  <1> QED
    BY <1>1, <1>2 DEF f, Queued

\* irgen and irgen_job.
LEMMA IRGenKeeps ==
    ASSUME IInv, NEW t \in Threads, IRGen(t)
    PROVE  IInv'
  <1> USE Unchanged
  <1>1. CASE CountIR(t)
    <2> DEFINE g == Top(t)
               f == AtUnit(g, 1)
    <2>1. /\ stack[t] # << >> /\ g.at = "count_ir" /\ Become(t, f) /\ g \in Calls
          /\ UNCHANGED <<queue, remaining, errors, error_root, args, cu, opt_left, result>>
      BY <1>1 DEF CountIR, Active, steps, units, AtUnit
    <2>2. g.step \in Sources
      BY <2>1 DEF Calls, CompileLabels
    <2>3. f \in Calls /\ f.at = "next_unit" /\ f.step = g.step
      BY <2>1, <2>2, UnitFrame
    <2>4. SameKind(f.at, g.at)
      BY <2>1, <2>3 DEF SameKind, CompileLabels
    <2> HIDE DEF f
    <2> QED
      BY <2>1, <2>3, <2>4, Plain DEF JobQueued
  <1>2. CASE NextUnit(t)
    <2> DEFINE g == Top(t)
               u == cu[g.i]
               n == StmtCount(u)
               f == InUnit(g, u, n)
    <2>1. /\ stack[t] # << >> /\ g.at = "next_unit" /\ Become(t, f) /\ g \in Calls
          /\ g.i <= Len(cu)
          /\ UNCHANGED <<queue, remaining, errors, error_root, args, cu, opt_left, result>>
      BY <1>2 DEF NextUnit, Active, steps, units, ir, InUnit
    <2>2. g.step \in Sources /\ g.i \in Nat /\ g.i >= 1
      BY <2>1 DEF Calls, CompileLabels
    <2>3. u \in Sources /\ u \in Nat
      BY <2>1, <2>2, BuildShape
    <2>4. n \in Int
      BY <2>3, BuildShape DEF StmtCount
    <2> HIDE DEF u, n, g
    <2>5. f \in Calls /\ f.at = "submit_ir" /\ f.step = g.step
      BY <2>1, <2>2, <2>3, <2>4, StmtFrame
    <2>6. SameKind(f.at, g.at)
      BY <2>1, <2>5 DEF SameKind, CompileLabels
    <2> HIDE DEF f
    <2> QED
      BY <2>1, <2>5, <2>6, Plain DEF JobQueued, g
  <1>3. CASE SubmitIR(t)
    <2> DEFINE g == Top(t)
               last == IF HasPool THEN Min2(g.lo + IRBatch - 1, g.hi) ELSE g.hi
               job == IRJob(g.step, g.tu, g.lo, last)
               n == last + 1
               f == FromStmt(g, n)
               e == AtUnit(g, g.i + 1)
    <2>1. /\ stack[t] # << >> /\ g.at = "submit_ir" /\ g \in Calls
          /\ UNCHANGED <<remaining, errors, error_root, args, cu, opt_left, result>>
          /\ \/ Become(t, e) /\ queue' = queue
             \/ HasPool /\ Submit(job) /\ Become(t, f)
             \/ stack' = [stack EXCEPT ![t] = Below(t) \o <<f, job>>] /\ queue' = queue
      BY <1>3 DEF SubmitIR, Active, steps, units, ir, AtUnit, FromStmt
    <2>2. /\ g.step \in Sources /\ g.i \in Nat /\ g.tu \in Nat /\ g.lo \in Int /\ g.hi \in Int
          /\ g.i >= 1
      BY <2>1 DEF Calls, CompileLabels
    <2>3. last \in Int /\ n \in Int
      BY <2>2, BuildStepsAssumption DEF Min2
    <2> HIDE DEF last, n, g
    <2>4. /\ f \in Calls /\ f.at = "submit_ir" /\ f.step = g.step
          /\ job \in Queued /\ job.at = "ir"
      <3>1. f \in Calls /\ f.at = g.at /\ f.step = g.step
        BY <2>1, <2>3, NextFrame
      <3>2. job \in Queued /\ job.at = "ir"
        BY <2>2, <2>3, JobFrame
      <3> QED
        BY <2>1, <3>1, <3>2
    <2>5. e \in Calls /\ e.at = "next_unit" /\ e.step = g.step
      <3>1. g.i + 1 \in Nat /\ g.i + 1 >= 1
        BY <2>2
      <3> QED
        BY <2>1, <2>2, <3>1, UnitFrame
    <2>6. /\ SameKind(f.at, g.at) /\ SameKind(e.at, g.at) /\ job.at \in JobLabels
          /\ f.at \notin RootLabels
      BY <2>1, <2>4, <2>5 DEF SameKind, CompileLabels, JobLabels, RootLabels
    <2> HIDE DEF f, e, job
    <2>7. CASE Become(t, e) /\ queue' = queue
      BY <2>1, <2>5, <2>6, <2>7, Plain DEF JobQueued, g
    <2>8. CASE HasPool /\ Submit(job) /\ Become(t, f)
      BY <2>1, <2>4, <2>6, <2>8, Plain DEF JobQueued, Submit, g
    <2>9. CASE stack' = [stack EXCEPT ![t] = Below(t) \o <<f, job>>] /\ queue' = queue
      <3>1. Cut(stack[t]) \in Seq(Calls) /\ job \in Calls
        BY <2>1, <2>4, Popped DEF Where, Held, Queued
      <3>2. Below(t) \o <<f, job>> = Push(Swap(stack[t], f), job)
        BY <3>1, <2>4 DEF Below, Cut, Swap, Push
      <3>3. Like(f, Top(t))
        BY <2>4, <2>6, Kinds DEF g
      <3>4. Where'
        BY <2>1, <2>4, <2>6, <2>9, <3>1, <3>2, <3>3, CallsJob DEF JobQueued
      <3>5. Typed' /\ Told'
        BY <2>1, <2>9, SameBuild, ToldStays DEF IInv, Typed
      <3> QED
        BY <3>4, <3>5 DEF IInv
    <2> QED
      BY <2>1, <2>7, <2>8, <2>9
  <1>4. CASE AllSubmitted(t)
    BY <1>4, PlainGoto DEF AllSubmitted, Active, units, ir, steps, SameKind, CompileLabels
  <1>5. CASE GenerateIR(t)
    BY <1>5, PlainGoto DEF GenerateIR, Active, units, steps, SameKind, JobLabels
  <1>6. CASE IRJobDone(t)
    <2>1. /\ stack[t] # << >> /\ Top(t).at = "ir_end" /\ Return(t)
          /\ UNCHANGED <<queue, remaining, errors, error_root, args, cu, opt_left, result>>
      BY <1>6 DEF IRJobDone, Active, steps, units
    <2>2. Where'
      BY <2>1, Returns DEF JobLabels
    <2>3. Typed' /\ Told'
      BY <2>1, SameBuild, ToldStays DEF IInv, Typed, Return
    <2> QED
      BY <2>2, <2>3 DEF IInv
  <1>7. CASE IRDone(t)
    BY <1>7, PlainGoto DEF IRDone, Active, ir, steps, SameKind, CompileLabels
  <1> QED
    BY <1>1, <1>2, <1>3, <1>4, <1>5, <1>6, <1>7 DEF IRGen

LEMMA MoreFrame ==
    ASSUME NEW g \in Calls, g.at # "submit"
    PROVE  LET f == [g EXCEPT !.i = @ + 1] IN  f \in Calls /\ f.at = g.at /\ f.step = g.step
  <1> DEFINE f == [g EXCEPT !.i = @ + 1]
  <1>1. /\ g \in [at : Labels, step : Steps, i : Nat, tu : Nat, lo : Int, hi : Int]
        /\ f = [g EXCEPT !.i = g.i + 1] /\ g.i \in Nat
    BY DEF Calls
  <1> HIDE DEF f
  <1>2. /\ f \in [at : Labels, step : Steps, i : Nat, tu : Nat, lo : Int, hi : Int]
        /\ f.at = g.at /\ f.step = g.step /\ f.i = g.i + 1
    BY <1>1
  <1>3. f \in Calls
    BY <1>1, <1>2 DEF Calls
  <1> QED
    BY <1>2, <1>3 DEF f

LEMMA CallFrame ==
    ASSUME args \in Builds, NEW l \in RootLabels \cup {"opt"}
    PROVE  Call(l, Ld) \in Calls /\ Call(l, Ld).at = l /\ Call(l, Ld).step = Ld
  <1> DEFINE f == Call(l, Ld)
  <1>1. /\ f \in [at : Labels, step : Steps, i : Nat, tu : Nat, lo : Int, hi : Int]
        /\ f.at = l /\ f.step = Ld /\ f.i = 0 /\ l \notin CompileLabels
    BY DEF Call, Frame, Steps, Labels, RootLabels, CompileLabels
  <1> HIDE DEF f
  <1>2. f \in Calls
    <2>1. f.at = "submit" => f.i <= NSources
      <3>1. NSources \in Nat
        BY BuildShape
      <3> QED
        BY <3>1, <1>1
    <2> QED
      BY <2>1, <1>1 DEF Calls, CompileLabels
  <1> QED
    BY <1>1, <1>2 DEF f

\* futex_signal: the waiter's call is still the link step's.
LEMMA SignalKeeps ==
    ASSUME IInv, NEW t \in Threads, FutexSignal(t)
    PROVE  IInv'
  <1> USE Unchanged
  <1> DEFINE Woken(u) == [Top(u) EXCEPT !.at = IF opt_left # Top(u).lo THEN "wait_opt" ELSE "futex"]
             new(u) == IF u = t THEN Cut(stack[u])
                       ELSE IF Active(u, "asleep") THEN Swap(stack[u], Woken(u)) ELSE stack[u]
  <1>1. /\ stack[t] # << >> /\ Top(t).at = "signal"
        /\ UNCHANGED <<queue, remaining, errors, error_root, args, cu, opt_left, result>>
        /\ stack' = [u \in Threads |-> new(u)]
    BY DEF FutexSignal, Active, steps, units, ir, Below, Cut, Swap
  <1>2. /\ stack \in [Threads -> Seq(Calls)] /\ queue \in Seq(Queued) /\ RootIsFirst /\ MainAlone
    BY DEF Where, Held
  <1> HIDE DEF new
  \* What becomes of the calls of one thread
  <1>3. ASSUME NEW u \in Threads
        PROVE  /\ new(u) \in Seq(Calls)
               /\ \A s : At(new(u), s) = At(stack[u], s)
               /\ \A k \in 1 .. Len(new(u)) : new(u)[k].at \in RootLabels <=> u = Main /\ k = 1
               /\ stack[u] = << >> => new(u) = << >>
               /\ u = Main => \/ stack[u] = << >> /\ new(u) = << >>
                              \/ /\ stack[u] # << >> /\ new(u) # << >>
                                 /\ \/ new(u)[1] = stack[u][1]
                                    \/ /\ stack[u][1].at \notin {"submit", "wait_deps"}
                                       /\ new(u)[1].at \notin {"submit", "wait_deps"}
    <2> DEFINE q == stack[u]
               r == new(u)
    <2>1. q \in Seq(Calls) /\ Len(q) \in Nat
      BY <1>2
    <2>2. \A k \in 1 .. Len(q) : q[k].at \in RootLabels <=> u = Main /\ k = 1
      BY <1>2 DEF RootIsFirst
    <2>3. Top(u) = q[Len(q)]
      BY DEF Top
    <2>4. CASE u = t
      <3>1. r = Cut(q) /\ q # << >> /\ q[Len(q)].at = "signal"
        BY <2>4, <1>1, <2>3 DEF new
      <3> HIDE DEF q, r
      <3>2. /\ r \in Seq(Calls) /\ Len(r) = Len(q) - 1 /\ Len(q) \in Nat \ {0}
            /\ \A k \in 1 .. Len(q) - 1 : r[k] = q[k]
        BY <2>1, <3>1, Popped
      <3>3. "signal" \notin CompileLabels /\ "signal" \notin RootLabels
        BY DEF CompileLabels, RootLabels, JobLabels
      <3>4. \A s : At(r, s) = At(q, s)
        <4>1. ASSUME NEW s
              PROVE  At(r, s) = At(q, s)
          <5>1. At(r, s) = At(q, s) \ {Len(q)}
            BY <2>1, <3>1, AtPopped
          <5>2. Len(q) \notin At(q, s)
            BY <3>1, <3>3 DEF At
          <5> QED
            BY <5>1, <5>2
        <4> QED
          BY <4>1
      <3>5. \A k \in 1 .. Len(r) : r[k].at \in RootLabels <=> u = Main /\ k = 1
        BY <2>2, <3>2
      <3>6. u = Main => r # << >> /\ r[1] = q[1]
        BY <2>2, <3>1, <3>2, <3>3
      <3> QED
        BY <3>1, <3>2, <3>4, <3>5, <3>6 DEF q, r
    <2>5. CASE u # t /\ Active(u, "asleep")
      <3> DEFINE f == Woken(u)
      <3>1. r = Swap(q, f) /\ q # << >> /\ q[Len(q)].at = "asleep" /\ q[Len(q)] \in Calls
        BY <2>1, <2>3, <2>5 DEF new, Active
      <3>2. /\ f \in Calls /\ f.at \in RootLabels \ {"submit", "wait_deps"}
            /\ Like(f, q[Len(q)])
        <4> DEFINE g == q[Len(q)]
                   l == IF opt_left # g.lo THEN "wait_opt" ELSE "futex"
        <4>1. l \in {"wait_opt", "futex"} /\ f = [g EXCEPT !.at = l]
          BY <2>3
        <4> HIDE DEF g, l, f
        <4>2. f \in Calls /\ f.at = l
          BY <3>1, <4>1 DEF g, Calls, Labels, CompileLabels
        <4>3. Like(f, g)
          BY <3>1, <4>1, <4>2 DEF g, Like, CompileLabels, RootLabels, Labels, JobLabels
        <4> QED
          BY <4>1, <4>2, <4>3 DEF g, RootLabels, Labels, CompileLabels, JobLabels
      <3> HIDE DEF f, q, r
      <3>3. /\ r \in Seq(Calls) /\ Len(r) = Len(q) /\ r # << >> /\ Len(q) \in Nat \ {0}
            /\ \A k \in 1 .. Len(q) : r[k] = IF k = Len(q) THEN f ELSE q[k]
        <4>1. q \in Seq(Calls) /\ q # << >> /\ f \in Calls
          BY <2>1, <3>1, <3>2
        <4>2. /\ Swap(q, f) \in Seq(Calls) /\ Len(Swap(q, f)) = Len(q) /\ Swap(q, f) # << >>
              /\ Len(q) \in Nat \ {0}
              /\ \A k \in 1 .. Len(q) : Swap(q, f)[k] = IF k = Len(q) THEN f ELSE q[k]
          BY <4>1, Swapped
        <4> QED
          BY <4>2, <3>1, Zenon
      <3>4. \A s : At(r, s) = At(q, s)
        BY <2>1, <3>1, <3>2, AtSwapped
      <3>5. u = Main /\ Len(q) = 1
        BY <2>2, <3>1, <3>3 DEF RootLabels, Labels, CompileLabels, JobLabels
      <3>6. r[1] = f
        BY <3>3, <3>5
      <3>7. \A k \in 1 .. Len(r) : r[k].at \in RootLabels <=> u = Main /\ k = 1
        BY <3>2, <3>3, <3>5, <3>6
      <3>8. r[1].at \notin {"submit", "wait_deps"} /\ q[1].at \notin {"submit", "wait_deps"}
        BY <3>1, <3>2, <3>5, <3>6
      <3> QED
        BY <3>1, <3>3, <3>4, <3>7, <3>8 DEF q, r
    <2>6. CASE u # t /\ ~Active(u, "asleep")
      <3>1. r = q
        BY <2>6 DEF new
      <3> QED
        BY <2>1, <2>2, <3>1
    <2> QED
      BY <2>4, <2>5, <2>6
  <1>4. \A u \in Threads : stack'[u] = new(u)
    BY <1>1
  <1>5. Main \in Threads
    BY DEF Threads
  <1>6. /\ Calls' = Calls /\ Queued' = Queued /\ HasPool' = HasPool
        /\ \A f : Submitted(f)' = Submitted(f)
    BY <1>1, SameBuild
  <1>7. Held'
    BY <1>1, <1>2, <1>3, <1>6 DEF Held
  <1>8. RootIsFirst'
    BY <1>3, <1>4 DEF RootIsFirst
  <1>9. MainAlone'
    BY <1>1, <1>2, <1>3, <1>4, <1>6 DEF MainAlone
  <1>10. \/ stack[Main] = << >> /\ stack'[Main] = << >>
         \/ /\ stack[Main] # << >> /\ stack'[Main] # << >>
            /\ \/ stack'[Main][1] = stack[Main][1]
               \/ /\ stack[Main][1].at \notin {"submit", "wait_deps"}
                  /\ stack'[Main][1].at \notin {"submit", "wait_deps"}
    BY <1>3, <1>4, <1>5
  <1>11. \A s \in Sources : ToCome(s)' <=> ToCome(s)
    BY <1>6, <1>10 DEF ToCome, Submitted
  <1>12. Decided' => Decided
    BY <1>10 DEF Decided
  <1>13. Where'
    BY <1>1, <1>3, <1>4, <1>7, <1>8, <1>9, <1>11, <1>12, NobodyMoves
  <1>14. Typed'
    BY <1>1, SameBuild DEF IInv, Typed
  <1>15. Told'
    BY <1>1, <1>10 DEF IInv, Told
  <1> QED
    BY <1>13, <1>14, <1>15 DEF IInv

LEMMA ReadFrame ==
    ASSUME NEW g \in Calls, g.at = "reread", NEW lo \in Int
    PROVE  LET f == [g EXCEPT !.at = "futex", !.lo = lo]
           IN  f \in Calls /\ f.at = "futex" /\ f.step = g.step
  <1> DEFINE R == [at : Labels, step : Steps, i : Nat, tu : Nat, lo : Int, hi : Int]
             a == [g EXCEPT !.at = "futex"]
             f == [g EXCEPT !.at = "futex", !.lo = lo]
  <1>1. a \in R /\ a.at = "futex" /\ a.step = g.step /\ f = [a EXCEPT !.lo = lo]
    BY DEF Calls, Labels
  <1> HIDE DEF a, f
  <1>2. f \in R /\ f.at = "futex" /\ f.step = g.step
    BY <1>1
  <1> QED
    BY <1>2 DEF Calls, f, CompileLabels

\* ld_invoke, and the backend's jobs.
LEMMA LinkStepKeeps ==
    ASSUME IInv, NEW t \in Threads, LinkStep(t)
    PROVE  IInv'
  <1> USE Unchanged
  <1>1. CASE PerFunction(t)
    <2> DEFINE g == Top(t)
               f == [g EXCEPT !.i = @ + 1]
               j == Call("opt", Ld)
    <2>1. /\ stack[t] # << >> /\ g.at = "backend" /\ g \in Calls
          /\ UNCHANGED <<remaining, errors, error_root, args, cu, result>>
      BY <1>1 DEF PerFunction, Active, steps, units
    <2>2. CASE Goto(t, "wait_opt") /\ UNCHANGED <<queue, opt_left>>
      <3>1. SameKind("wait_opt", Top(t).at)
        BY <2>1 DEF SameKind, RootLabels, Labels, CompileLabels, JobLabels
      <3> QED
        BY <2>1, <2>2, <3>1, PlainGoto
    <2>3. CASE ~(Goto(t, "wait_opt") /\ UNCHANGED <<queue, opt_left>>)
      <3>1. /\ HasPool /\ queue' = Append(queue, j) /\ Become(t, f) /\ opt_left' = opt_left + 1
        <4> DEFINE n == CeilDiv(Cardinality(Generated), FuncBatch)
        <4> HIDE DEF n
        <4>1. /\ Top(t).i < IF HasPool THEN n ELSE 0
              /\ Submit(j) /\ Become(t, f) /\ opt_left' = opt_left + 1
          BY <1>1, <2>3 DEF PerFunction, n
        <4>2. Top(t).i \in Nat /\ HasPool \in BOOLEAN
          BY <2>1, BuildShape DEF Calls
        <4> QED
          BY <4>1, <4>2 DEF Submit
      <3>2. f \in Calls /\ f.at = "backend" /\ f.step = g.step
        BY <2>1, MoreFrame
      <3>3. j \in Queued /\ j.at \in JobLabels
        <4>1. j \in Calls /\ j.at = "opt"
          BY CallFrame
        <4> HIDE DEF j
        <4> QED
          BY <4>1 DEF Queued, JobLabels
      <3>4. SameKind(f.at, g.at) /\ opt_left' \in Int
        BY <2>1, <3>1, <3>2 DEF SameKind, RootLabels, Labels, CompileLabels, JobLabels
      <3> HIDE DEF f, j
      <3>5. JobQueued
        BY <3>1, <3>3 DEF JobQueued
      <3> HIDE DEF g
      <3> QED
        BY <2>1, <3>1, <3>2, <3>4, <3>5, Plain DEF g
    <2> QED
      BY <2>2, <2>3
  <1>2. CASE OptimizeFunctions(t)
    BY <1>2, PlainGoto DEF OptimizeFunctions, Active, steps, units, SameKind, JobLabels
  <1>3. CASE FutexSignal(t)
    BY <1>3, SignalKeeps
  <1> DEFINE Waits == {"wait_opt", "reread", "futex", "asleep", "export", "ld_end", "return"}
  <1>4. \A l, m \in Waits : SameKind(l, m) /\ l \notin {"submit", "wait_deps"}
    BY DEF SameKind, RootLabels, Labels, CompileLabels, JobLabels
  <1>5. CASE OptimizeDone(t)
    <2>1. PICK l \in {"ld_end", "export"} : Goto(t, l)
      BY <1>5 DEF OptimizeDone
    <2> QED
      BY <2>1, <1>4, <1>5, PlainGoto DEF OptimizeDone, Active, steps, ir
  <1>6. CASE FutexTest(t)
    BY <1>4, <1>6, PlainGoto DEF FutexTest, Active, steps, units, ir
  <1>7. CASE FutexReread(t)
    <2> DEFINE g == Top(t)
               f == [g EXCEPT !.at = "futex", !.lo = opt_left]
    <2>1. /\ stack[t] # << >> /\ g.at = "reread" /\ g \in Calls /\ Become(t, f)
          /\ UNCHANGED <<queue, remaining, errors, error_root, args, cu, opt_left, result>>
      BY <1>7 DEF FutexReread, Active, steps, units, ir
    <2>2. f \in Calls /\ f.at = "futex" /\ f.step = g.step
      BY <2>1, ReadFrame
    <2>3. SameKind(f.at, g.at)
      BY <1>4, <2>1, <2>2
    <2> HIDE DEF f
    <2> QED
      BY <2>1, <2>2, <2>3, Plain DEF JobQueued
  <1>8. CASE FutexWait(t)
    BY <1>4, <1>8, PlainGoto DEF FutexWait, Active, steps, units, ir
  <1>9. CASE Export(t)
    BY <1>4, <1>9, PlainGoto DEF Export, Active, units, ir
  <1>10. CASE LdDone(t)
    BY <1>4, <1>10, PlainGoto DEF LdDone, Active, steps, units, ir
  <1> QED
    BY <1>1, <1>2, <1>3, <1>5, <1>6, <1>7, <1>8, <1>9, <1>10 DEF LinkStep

LEMMA NobodyIsLeft ==
    ASSUME Where, args \in Builds, remaining <= 0
    PROVE  \A s \in Sources : ~Live(s)
  <1> DEFINE A == {s \in Sources : Live(s)}
  <1>1. IsFiniteSet(A)
    BY BuildShape, FS_Subset
  <1>2. Cardinality(A) \in Nat /\ remaining = Cardinality(A)
    BY <1>1, FS_CardinalityType DEF Where, Counted
  <1>3. A = {}
    BY <1>1, <1>2, FS_EmptySet
  <1> QED
    BY <1>3

\* Without a pool every step has been run by a call when the last one returns.
LEMMA NobodyIsLeftAlone ==
    ASSUME Where, args \in Builds, ~HasPool, NEW t \in Threads, stack[t] # << >>,
           Top(t).at = "submit", Top(t).i = NSources
    PROVE  \A s \in Sources : ~Live(s)
  <1>1. t = Main /\ Len(stack[t]) = 1 /\ stack[t][1] = Top(t)
    BY SubmitDepIsRoot DEF RootLabels, Labels, CompileLabels, JobLabels
  <1>2. queue = << >> /\ \A u \in Threads \ {Main} : stack[u] = << >>
    BY DEF Where, MainAlone
  <1>3. \A s : At(queue, s) = {} /\ \A u \in Threads \ {Main} : At(stack[u], s) = {}
    BY <1>2 DEF At
  <1>4. \A s : At(stack[Main], s) = {}
    BY <1>1 DEF At, CompileLabels
  <1>5. \A s \in Sources : ~ToCome(s)
    BY <1>1, BuildShape DEF ToCome, Submitted
  <1> QED
    BY <1>3, <1>4, <1>5 DEF Live

\* step_submit and cuik_step_run.
LEMMA RunStepKeeps ==
    ASSUME IInv, NEW t \in Threads, RunStep(t)
    PROVE  IInv'
  <1> USE Unchanged
  <1>1. CASE SubmitDep(t)
    <2>1. /\ stack[t] # << >>
          /\ UNCHANGED <<remaining, errors, error_root, args, cu, opt_left, result>>
      BY <1>1 DEF SubmitDep, Active, steps, units, ir
    <2>2. Where'
      BY <1>1, <2>1, Submits
    <2>3. Typed'
      BY <2>1, SameBuild DEF IInv, Typed
    <2>4. PICK r : stack' = [stack EXCEPT ![t] = r]
      BY <1>1 DEF SubmitDep, Become
    <2>5. Told'
      BY <2>1, <2>4, ToldStays DEF IInv
    <2> QED
      BY <2>2, <2>3, <2>5 DEF IInv
  <1>2. CASE DepsSubmitted(t)
    <2> DEFINE g == Top(t)
    <2>1. PICK l \in {"wait_deps", "check_deps"} :
            /\ stack[t] # << >> /\ g.at = "submit" /\ g.i = NSources /\ g \in Calls
            /\ Goto(t, l) /\ (l = "check_deps" => ~HasPool)
            /\ UNCHANGED <<queue, remaining, errors, error_root, args, cu, opt_left, result>>
      <3>1. HasPool \in BOOLEAN
        BY BuildShape
      <3> QED
        BY <1>2, <3>1 DEF DepsSubmitted, Active, steps, units, ir
    <2> DEFINE f == [g EXCEPT !.at = l]
    <2>2. f \in Calls /\ f.at = l
      BY <2>1 DEF Calls, Labels, CompileLabels
    <2>3. Become(t, f)
      BY <2>1 DEF Goto
    <2> HIDE DEF f
    <2>4. Like(f, g) /\ Submitted(f) = Submitted(g)
      BY <2>1, <2>2 DEF Like, Submitted, RootLabels, Labels, CompileLabels, JobLabels
    <2>5. f.at \notin {"submit", "wait_deps"} => \A s \in Sources : ~Live(s)
      BY <2>1, <2>2, NobodyIsLeftAlone
    <2>6. Where'
      BY <2>1, <2>2, <2>3, <2>4, <2>5, Advances DEF JobQueued
    <2>7. Typed' /\ Told'
      BY <2>1, SameBuild, ToldStays DEF IInv, Typed, Goto, Become
    <2> QED
      BY <2>6, <2>7 DEF IInv
  <1>3. CASE DepsDone(t)
    <2>1. \A s \in Sources : ~Live(s)
      BY <1>3, NobodyIsLeft DEF DepsDone
    <2>2. SameKind("check_deps", "wait_deps")
      BY DEF SameKind, RootLabels, Labels, CompileLabels, JobLabels
    <2> QED
      BY <1>3, <2>1, <2>2, PlainGoto DEF DepsDone, Active, steps, units, ir
  <1>4. CASE CheckDeps(t)
    <2>1. SameKind("return", "check_deps")
      BY DEF SameKind, RootLabels, Labels, CompileLabels, JobLabels
    <2>2. CASE error_root' = error_root \cup {Ld} /\ Goto(t, "return")
      BY <1>4, <2>1, <2>2, PlainGoto DEF CheckDeps, Active, units, ir
    <2>3. CASE ~(error_root' = error_root \cup {Ld} /\ Goto(t, "return"))
      <3> DEFINE f == Call("backend", Ld)
      <3>1. /\ stack[t] # << >> /\ Top(t).at = "check_deps" /\ Become(t, f)
            /\ UNCHANGED <<queue, remaining, errors, error_root, args, cu, opt_left, result>>
        BY <1>4, <2>3 DEF CheckDeps, Active, units, ir
      <3>2. f \in Calls /\ f.at = "backend"
        <4>1. "backend" \in RootLabels
          BY DEF RootLabels, Labels, CompileLabels, JobLabels
        <4> QED
          BY <4>1, CallFrame
      <3> HIDE DEF f
      <3>3. Like(f, Top(t)) /\ Submitted(f) = Submitted(Top(t))
        BY <3>1, <3>2 DEF Like, Submitted, RootLabels, Labels, CompileLabels, JobLabels
      <3>4. Where'
        BY <3>1, <3>2, <3>3, Advances DEF JobQueued
      <3>5. Typed' /\ Told'
        BY <3>1, SameBuild, ToldStays DEF IInv, Typed, Become
      <3> QED
        BY <3>4, <3>5 DEF IInv
    <2> QED
      BY <2>2, <2>3
  <1>5. CASE StepRunReturn(t)
    <2>1. /\ stack[t] # << >> /\ Top(t).at = "return" /\ Return(t)
          /\ UNCHANGED <<queue, remaining, errors, error_root, args, cu, opt_left>>
          /\ result' = IF errors = 0 THEN "true" ELSE "false"
      BY <1>5 DEF StepRunReturn, Active, steps, units, ir
    <2>2. Where' /\ stack'[Main] = << >>
      BY <2>1, Returns
    <2>3. Typed'
      BY <2>1, SameBuild DEF IInv, Typed
    <2>4. Told'
      BY <2>1, <2>2 DEF IInv, Typed, Told, Ld
    <2> QED
      BY <2>2, <2>3, <2>4 DEF IInv
  <1> QED
    BY <1>1, <1>2, <1>3, <1>4, <1>5 DEF RunStep

-----------------------------------------------------------------------------
(* The theorem                                                              *)

LEMMA InitKeeps == Init => IInv
  <1> SUFFICES ASSUME Init PROVE IInv
    OBVIOUS
  <1> DEFINE f == Call("submit", Ld)
  <1>1. args \in Builds
    BY DEF Init
  <1>2. /\ NSources \in Nat \ {0} /\ Sources = 1 .. NSources /\ Main \in Threads
        /\ Main \notin Workers
    BY <1>1, BuildShape
  <1>3. f \in Calls /\ f.at = "submit" /\ f.i = 0
    <2>1. "submit" \in RootLabels
      BY DEF RootLabels, Labels, CompileLabels, JobLabels
    <2> QED
      BY <1>1, <2>1, CallFrame DEF Call, Frame
  <1>4. /\ stack = [t \in Threads |-> IF t = Main THEN <<f>> ELSE << >>]
        /\ queue = << >> /\ remaining = NSources /\ errors = 0 /\ error_root = {}
        /\ cu = << >> /\ opt_left = 0 /\ result = "none"
    BY DEF Init
  <1> HIDE DEF f
  <1>5. /\ stack[Main] = <<f>> /\ \A t \in Threads : t # Main => stack[t] = << >>
        /\ stack[Main][1] = f /\ Len(stack[Main]) = 1 /\ stack[Main] # << >>
    BY <1>2, <1>4
  <1>6. Held
    BY <1>3, <1>4 DEF Held
  <1>7. RootIsFirst
    BY <1>3, <1>5 DEF RootIsFirst, RootLabels, Labels, CompileLabels, JobLabels
  <1>8. MainAlone
    BY <1>4, <1>5 DEF MainAlone
  <1>9. \A s : At(queue, s) = {} /\ \A t \in Threads : At(stack[t], s) = {}
    <2>1. ASSUME NEW s
          PROVE  At(queue, s) = {} /\ \A t \in Threads : At(stack[t], s) = {}
      <3>1. At(queue, s) = {}
        BY <1>4 DEF At
      <3>2. At(stack[Main], s) = {}
        BY <1>3, <1>5 DEF At, CompileLabels
      <3>3. \A t \in Threads : t # Main => At(stack[t], s) = {}
        BY <1>5 DEF At
      <3> QED
        BY <3>1, <3>2, <3>3
    <2> QED
      BY <2>1
  <1>10. OnePlace
    BY <1>9 DEF OnePlace, InOnePlace
  <1>11. Counted
    <2>1. \A s \in Sources : ToCome(s)
      BY <1>2, <1>3, <1>5 DEF ToCome, Submitted
    <2>2. {s \in Sources : Live(s)} = 1 .. NSources
      BY <2>1, <1>2 DEF Live
    <2>3. Cardinality(1 .. NSources) = NSources
      BY <1>2, FS_Interval
    <2> QED
      BY <2>2, <2>3, <1>4 DEF Counted
  <1>12. AfterAll
    BY <1>3, <1>5 DEF AfterAll, Decided
  <1>13. Typed
    BY <1>1, <1>2, <1>4 DEF Typed
  <1>14. Told
    BY <1>4 DEF Told
  <1> QED
    BY <1>6, <1>7, <1>8, <1>10, <1>11, <1>12, <1>13, <1>14 DEF IInv, Where

\* A job is taken from the queue, by an idle worker or by a thread that waits.
LEMMA TakingKeeps ==
    ASSUME IInv, NEW t \in Threads, stack[t] # << >> \/ t \in Workers, queue # << >>,
           stack' = [stack EXCEPT ![t] = Append(@, Head(queue))],
           queue' = Tail(queue), UNCHANGED <<steps, units, ir, result>>
    PROVE  IInv'
  <1>1. /\ UNCHANGED <<remaining, errors, error_root, args, cu, opt_left, result>>
        /\ args \in Builds /\ Where
    BY DEF steps, units, ir, IInv, Typed
  <1>2. HasPool /\ (stack[t] # << >> \/ t # Main)
    BY <1>1, BuildShape DEF Where, MainAlone
  <1>3. Where'
    BY <1>1, <1>2, Takes DEF Push
  <1>4. Typed'
    BY <1>1, SameBuild DEF IInv, Typed
  <1>5. Told'
    <2>1. stack[Main] = << >> => t # Main \/ result = "none"
      BY <1>1, <1>2
    <2>2. stack[Main] = << >> => stack'[Main] = << >>
      BY <2>1, <1>1, <1>2 DEF Where, Held
    <2> QED
      BY <1>1, <2>2 DEF IInv, Told
  <1> QED
    BY <1>3, <1>4, <1>5 DEF IInv

LEMMA NextKeeps == IInv /\ [Next]_vars => IInv'
  <1> SUFFICES ASSUME IInv, [Next]_vars PROVE IInv'
    OBVIOUS
  <1>1. ASSUME NEW w \in Workers, TakeJob(w)
        PROVE  IInv'
    <2>1. w \in Threads /\ stack \in [Threads -> Seq(Calls)] /\ queue \in Seq(Queued)
      BY DEF Threads, IInv, Where, Held
    <2>2. Append(stack[w], Head(queue)) = <<Head(queue)>>
      BY <1>1, <2>1 DEF TakeJob
    <2> QED
      BY <1>1, <2>1, <2>2, TakingKeeps DEF TakeJob
  <1>2. ASSUME NEW t \in Threads, WorkOneJob(t)
        PROVE  IInv'
    BY <1>2, TakingKeeps DEF WorkOneJob, Waiting, Active
  <1>3. ASSUME NEW t \in Threads, Thread(t)
        PROVE  IInv'
    BY <1>2, <1>3, RunStepKeeps, CompileStepKeeps, IRGenKeeps, LinkStepKeeps DEF Thread
  <1>4. CASE UNCHANGED vars
    <2>1. UNCHANGED <<stack, queue, remaining, errors, error_root, args, cu, opt_left, result>>
      BY <1>4 DEF vars, steps, units, ir
    <2>2. Typed' /\ Told'
      BY <2>1, SameBuild DEF IInv, Typed, Told
    <2>3. Where'
      <3>1. Where /\ Held' /\ RootIsFirst' /\ MainAlone'
        BY <2>1, SameBuild DEF IInv, Where, Held, RootIsFirst, MainAlone
      <3>2. \A s : ToCome(s)' <=> ToCome(s)
        BY <2>1, SameBuild DEF ToCome
      <3>3. Decided' => Decided
        BY <2>1 DEF Decided
      <3> QED
        BY <2>1, <3>1, <3>2, <3>3, NobodyMoves
    <2> QED
      BY <2>2, <2>3 DEF IInv
  <1> QED
    BY <1>1, <1>3, <1>4 DEF Next, Finished

\* No failed compile step is lost on its way to the root: the result of cuik_step_run is
\* true only if every source compiled (property FailuresReachTheRoot), for every build.
THEOREM EveryFailureIsTold == Spec => []FailuresReachTheRoot
  <1>1. IInv => FailuresReachTheRoot
    BY DEF IInv, Told, FailuresReachTheRoot
  <1> QED
    BY InitKeeps, NextKeeps, <1>1, PTL DEF Spec
================================================================================

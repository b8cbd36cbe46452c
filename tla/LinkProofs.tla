------------------------------ MODULE LinkProofs ------------------------------
(***************************************************************************)
(* What the link step may count on when it begins, for any build.          *)
(*                                                                         *)
(* BuildStepsProofs follows the compile steps; here each carries what it   *)
(* has done so far (Staged), and opt_left counts the backend's jobs        *)
(* (OptCounted).  irgen's own jobs are left to IRJobProofs.                *)
(***************************************************************************)
EXTENDS BuildStepsProofs

LinkLabels == {"backend", "wait_opt", "reread", "futex", "asleep", "export", "ld_end"}
OptWaits == {"backend", "wait_opt", "reread", "futex", "asleep"}
GenLabels == {"count_ir", "next_unit", "submit_ir", "wait_ir"}
CallLabels == {"next_unit", "submit_ir", "wait_ir"}   \* irgen, once it has counted
IRLabels == {"ir", "ir_end"}

\* Whose call or job it is.
Owned(f) ==
    /\ f.at \in RootLabels \cup {"opt", "signal"} => f.step = Ld
    /\ f.at \in IRLabels => f.step \in Sources /\ ~SyntaxOnly
    /\ f.at \in IRLabels \cup {"submit_ir"} => f.tu \in Sources

JobsOwned == \A f \in Frames \cup Jobs : Owned(f)

\* Where the call of the link step is.
RootAt(L) == stack[Main] # << >> /\ stack[Main][1].at \in L

\* The link step began because nothing had failed, and nothing fails any more.
BeganClean == RootAt(LinkLabels) => errors = 0

\* The units of the compilation unit's list.
Added == {cu[k] : k \in 1 .. Len(cu)}
AddedOnce == \A k, l \in 1 .. Len(cu) : cu[k] = cu[l] => k = l

\* What a compile step at label l has done, and has not.
Stage(l, s) ==
    /\ l \in {"cpp", "add"} => s \notin Added
    /\ l \notin {"cpp", "add", "done"} => s \in Added
    /\ l \in GenLabels \cup {"allocate"} => ~SyntaxOnly
    /\ l \in GenLabels => s \in allocated
    /\ l = "done" => s \in error_root \/ (s \in Added /\ (SyntaxOnly \/ s \in allocated))
    /\ l # "done" => s \notin is_free

Reached(s) == {l \in CompileLabels : Stage(l, s)}
StagedAt(s) ==
    /\ \A t \in Threads : \A k \in At(stack[t], s) : stack[t][k].at \in Reached(s)
    /\ ToCome(s) \/ At(queue, s) # {} => "cpp" \in Reached(s)
    /\ ~Live(s) => "done" \in Reached(s)

Staged == \A s \in Sources : StagedAt(s)

\* How many calls and jobs there are with a label of L.
Spots(q, L) == {k \in 1 .. Len(q) : q[k].at \in L}
On(L) == UNION {{t} \X Spots(stack[t], L) : t \in Threads}
Pending(L) == Cardinality(On(L)) + Cardinality(Spots(queue, L))

OptCounted ==
    /\ Pending({"opt"}) = opt_left
    /\ opt_left # 0 => RootAt(OptWaits)

\* The inductive invariant, beside IInv.
GInv == JobsOwned /\ BeganClean /\ AddedOnce /\ Staged /\ OptCounted

-----------------------------------------------------------------------------
(* Counting the calls and jobs at some labels                               *)

One(b) == IF b THEN 1 ELSE 0

LEMMA SpotsSwapped ==
    ASSUME NEW S, NEW q \in Seq(S), q # << >>, NEW f \in S, NEW L
    PROVE  Spots(Swap(q, f), L) = IF f.at \in L THEN Spots(q, L) \cup {Len(q)}
                                  ELSE Spots(q, L) \ {Len(q)}
  <1> DEFINE r == Swap(q, f)
  <1>1. /\ Len(r) = Len(q) /\ Len(q) \in Nat \ {0}
        /\ \A k \in 1 .. Len(q) : r[k] = IF k = Len(q) THEN f ELSE q[k]
    BY Swapped
  <1> HIDE DEF r
  <1>2. ASSUME NEW k
        PROVE  k \in Spots(r, L) <=>
                 IF f.at \in L THEN k \in Spots(q, L) \/ k = Len(q)
                 ELSE k \in Spots(q, L) /\ k # Len(q)
    BY <1>1 DEF Spots
  <1>3. Spots(r, L) = IF f.at \in L THEN Spots(q, L) \cup {Len(q)}
                      ELSE Spots(q, L) \ {Len(q)}
    BY <1>2
  <1> QED
    BY <1>3 DEF r

LEMMA SpotsPushed ==
    ASSUME NEW S, NEW q \in Seq(S), NEW f \in S, NEW L
    PROVE  /\ Spots(Push(q, f), L) = IF f.at \in L THEN Spots(q, L) \cup {Len(q) + 1}
                                     ELSE Spots(q, L)
           /\ Len(q) + 1 \notin Spots(q, L)
  <1> DEFINE r == Push(q, f)
  <1>1. /\ Len(r) = Len(q) + 1 /\ Len(q) \in Nat
        /\ \A k \in 1 .. Len(q) : r[k] = q[k]
        /\ r[Len(q) + 1] = f
    BY Pushed
  <1> HIDE DEF r
  <1>2. ASSUME NEW k
        PROVE  k \in Spots(r, L) <=> k \in Spots(q, L) \/ (k = Len(q) + 1 /\ f.at \in L)
    BY <1>1 DEF Spots
  <1>3. Spots(r, L) = IF f.at \in L THEN Spots(q, L) \cup {Len(q) + 1} ELSE Spots(q, L)
    BY <1>2
  <1>4. Len(q) + 1 \notin Spots(q, L)
    BY <1>1 DEF Spots
  <1> QED
    BY <1>3, <1>4 DEF r

LEMMA SpotsPopped ==
    ASSUME NEW S, NEW q \in Seq(S), q # << >>, NEW L
    PROVE  /\ Spots(Cut(q), L) = Spots(q, L) \ {Len(q)}
           /\ Len(q) \in Spots(q, L) <=> q[Len(q)].at \in L
  <1>1. /\ Len(Cut(q)) = Len(q) - 1 /\ Len(q) \in Nat \ {0}
        /\ \A k \in 1 .. Len(q) - 1 : Cut(q)[k] = q[k]
    BY Popped
  <1> QED
    BY <1>1 DEF Spots

LEMMA SpotsFinite ==
    ASSUME NEW S, NEW q \in Seq(S), NEW L
    PROVE  /\ IsFiniteSet(Spots(q, L)) /\ Cardinality(Spots(q, L)) \in Nat
           /\ Spots(q, L) \subseteq 1 .. Len(q)
  <1>1. IsFiniteSet(1 .. Len(q))
    BY FS_Interval
  <1>2. Spots(q, L) \subseteq 1 .. Len(q)
    BY DEF Spots
  <1> QED
    BY <1>1, <1>2, FS_Subset, FS_CardinalityType

LEMMA SpotsTaken ==
    ASSUME NEW S, NEW q \in Seq(S), q # << >>, NEW L
    PROVE  Cardinality(Spots(q, L)) = Cardinality(Spots(Tail(q), L)) + One(Head(q).at \in L)
  <1> DEFINE A == Spots(Tail(q), L)
             B == Spots(q, L) \ {1}
             f == [k \in A |-> k + 1]
  <1>1. /\ Tail(q) \in Seq(S) /\ Len(Tail(q)) = Len(q) - 1 /\ Len(q) \in Nat \ {0}
        /\ \A k \in 1 .. Len(q) - 1 : Tail(q)[k] = q[k + 1]
        /\ Head(q) = q[1]
    BY Taken
  <1>2. IsFiniteSet(A) /\ IsFiniteSet(Spots(q, L))
    BY <1>1, SpotsFinite
  <1>3. \A k \in Int : k \in A <=> k \in 1 .. Len(q) - 1 /\ q[k + 1].at \in L
    BY <1>1 DEF Spots
  <1>4. \A k \in Int : k \in B <=> k \in 2 .. Len(q) /\ q[k].at \in L
    BY <1>1 DEF Spots
  <1>5. A \subseteq Int /\ B \subseteq Int
    BY <1>1 DEF Spots
  <1>6. 1 \in Spots(q, L) <=> Head(q).at \in L
    BY <1>1 DEF Spots
  <1>7. Cardinality(B) = Cardinality(Spots(q, L)) - One(Head(q).at \in L)
    <2>1. CASE Head(q).at \in L
      BY <2>1, <1>2, <1>6, FS_RemoveElement DEF One
    <2>2. CASE Head(q).at \notin L
      <3>1. B = Spots(q, L)
        BY <2>2, <1>6
      <3>2. Cardinality(Spots(q, L)) \in Nat
        BY <1>2, FS_CardinalityType
      <3>3. One(Head(q).at \in L) = 0
        BY <2>2 DEF One
      <3> HIDE DEF B
      <3> QED
        BY <3>1, <3>2, <3>3
    <2> QED
      BY <2>1, <2>2
  <1> HIDE DEF A, B
  <1>8. f \in [A -> B] /\ f \in Bijection(A, B)
    <2>1. f \in [A -> B]
      BY <1>1, <1>3, <1>4, <1>5
    <2>2. \A a, b \in A : f[a] = f[b] => a = b
      BY <1>5
    <2>3. \A b \in B : b - 1 \in A /\ f[b - 1] = b
      BY <1>1, <1>3, <1>4, <1>5
    <2>4. f \in Injection(A, B)
      BY <2>1, <2>2 DEF Injection, IsInjective
    <2>5. f \in Surjection(A, B)
      BY <2>1, <2>3 DEF Surjection
    <2> QED
      BY <2>1, <2>4, <2>5 DEF Bijection
  <1>9. Cardinality(A) = Cardinality(B)
    BY <1>2, <1>8, FS_Bijection DEF ExistsBijection
  <1>10. Cardinality(A) \in Nat /\ Cardinality(Spots(q, L)) \in Nat
    BY <1>2, FS_CardinalityType
  <1> QED
    BY <1>7, <1>9, <1>10 DEF A, One

\* Thread t's list of calls becomes r.
LEMMA OnChanged ==
    ASSUME Held, NEW t \in Threads, NEW r, stack' = [stack EXCEPT ![t] = r], NEW L
    PROVE  /\ Spots(r, L) = Spots(stack[t], L) => On(L)' = On(L)
           /\ \A k : k \notin Spots(stack[t], L) /\ Spots(r, L) = Spots(stack[t], L) \cup {k}
                => On(L)' = On(L) \cup {<<t, k>>} /\ <<t, k>> \notin On(L)
           /\ \A k : k \in Spots(stack[t], L) /\ Spots(r, L) = Spots(stack[t], L) \ {k}
                => On(L)' = On(L) \ {<<t, k>>} /\ <<t, k>> \in On(L)
  <1>1. stack'[t] = r /\ \A u \in Threads : u # t => stack'[u] = stack[u]
    BY DEF Held
  <1>2. \A p : p \in On(L) <=> \E u \in Threads : \E k \in Spots(stack[u], L) : p = <<u, k>>
    BY DEF On
  <1>3. \A p : p \in On(L)' <=> \E u \in Threads : \E k \in Spots(stack'[u], L) : p = <<u, k>>
    BY DEF On
  <1>4. \A u \in Threads : \A k : <<u, k>> \in On(L) <=> k \in Spots(stack[u], L)
    BY <1>2
  <1>5. \A u \in Threads : \A k : <<u, k>> \in On(L)' <=> k \in Spots(stack'[u], L)
    BY <1>3
  <1>6. ASSUME Spots(r, L) = Spots(stack[t], L)
        PROVE  On(L)' = On(L)
    BY <1>1, <1>2, <1>3, <1>6
  <1>7. ASSUME NEW k, k \notin Spots(stack[t], L), Spots(r, L) = Spots(stack[t], L) \cup {k}
        PROVE  On(L)' = On(L) \cup {<<t, k>>} /\ <<t, k>> \notin On(L)
    <2>1. \A u \in Threads : \A l :
            l \in Spots(stack'[u], L) <=> l \in Spots(stack[u], L) \/ (u = t /\ l = k)
      BY <1>1, <1>7
    <2>2. \A p : p \in On(L)' <=> p \in On(L) \/ p = <<t, k>>
      BY <2>1, <1>2, <1>3
    <2>3. On(L)' = On(L) \cup {<<t, k>>}
      BY <2>2
    <2> QED
      BY <2>3, <1>4, <1>7
  <1>8. ASSUME NEW k, k \in Spots(stack[t], L), Spots(r, L) = Spots(stack[t], L) \ {k}
        PROVE  On(L)' = On(L) \ {<<t, k>>} /\ <<t, k>> \in On(L)
    <2>1. \A u \in Threads : \A l :
            l \in Spots(stack'[u], L) <=> l \in Spots(stack[u], L) /\ ~(u = t /\ l = k)
      BY <1>1, <1>8
    <2>2. \A p : p \in On(L)' <=> p \in On(L) /\ p # <<t, k>>
      BY <2>1, <1>2, <1>3
    <2>3. On(L)' = On(L) \ {<<t, k>>}
      BY <2>2
    <2> QED
      BY <2>3, <1>4, <1>8
  <1> QED
    BY <1>6, <1>7, <1>8

LEMMA OnFinite ==
    ASSUME Held, NEW L
    PROVE  IsFiniteSet(On(L)) /\ Cardinality(On(L)) \in Nat
  <1> DEFINE W == {{t} \X Spots(stack[t], L) : t \in Threads}
             g == [t \in Threads |-> {t} \X Spots(stack[t], L)]
  <1>1. IsFiniteSet(Threads)
    BY BuildStepsAssumption, FS_Union, FS_Singleton DEF Threads
  <1>2. \A t \in Threads : IsFiniteSet({t} \X Spots(stack[t], L))
    BY SpotsFinite, FS_Singleton, FS_Product DEF Held
  <1>3. g \in Surjection(Threads, W)
    BY DEF Surjection
  <1>4. IsFiniteSet(W)
    BY <1>1, <1>3, FS_Surjection
  <1>5. \A w \in W : IsFiniteSet(w)
    BY <1>2
  <1>6. IsFiniteSet(UNION W)
    BY <1>4, <1>5, FS_UNION
  <1> QED
    BY <1>6, FS_CardinalityType DEF On

\* How the number of calls and jobs changes with thread t's list of calls.
Grown(t, r, L, d) ==
    \/ d = 0 /\ Spots(r, L) = Spots(stack[t], L)
    \/ d = 1 /\ \E k : k \notin Spots(stack[t], L) /\ Spots(r, L) = Spots(stack[t], L) \cup {k}
    \/ d = -1 /\ \E k \in Spots(stack[t], L) : Spots(r, L) = Spots(stack[t], L) \ {k}

LEMMA OnGrown ==
    ASSUME Held, Held', NEW t \in Threads, NEW r, stack' = [stack EXCEPT ![t] = r], NEW L,
           NEW d, Grown(t, r, L, d)
    PROVE  Cardinality(On(L))' = Cardinality(On(L)) + d
  <1>1. IsFiniteSet(On(L)) /\ Cardinality(On(L)) \in Nat
    BY OnFinite
  <1>2. CASE d = 0 /\ Spots(r, L) = Spots(stack[t], L)
    <2>1. On(L)' = On(L)
      BY <1>2, OnChanged
    <2> QED
      BY <1>1, <1>2, <2>1
  <1>3. ASSUME d = 1, NEW k, k \notin Spots(stack[t], L),
               Spots(r, L) = Spots(stack[t], L) \cup {k}
        PROVE  Cardinality(On(L))' = Cardinality(On(L)) + d
    <2>1. On(L)' = On(L) \cup {<<t, k>>} /\ <<t, k>> \notin On(L)
      BY <1>3, OnChanged
    <2>2. Cardinality(On(L) \cup {<<t, k>>}) = Cardinality(On(L)) + 1
      BY <1>1, <2>1, FS_AddElement
    <2> QED
      BY <1>3, <2>1, <2>2
  <1>4. ASSUME d = -1, NEW k \in Spots(stack[t], L),
               Spots(r, L) = Spots(stack[t], L) \ {k}
        PROVE  Cardinality(On(L))' = Cardinality(On(L)) + d
    <2>1. On(L)' = On(L) \ {<<t, k>>} /\ <<t, k>> \in On(L)
      BY <1>4, OnChanged
    <2>2. Cardinality(On(L) \ {<<t, k>>}) = Cardinality(On(L)) - 1
      BY <1>1, <2>1, FS_RemoveElement
    <2> QED
      BY <1>1, <1>4, <2>1, <2>2
  <1> QED
    BY <1>2, <1>3, <1>4 DEF Grown

\* Thread t's innermost call gives way to f; f and a call of g; nothing; or has the head of
\* the queue put on top of it.
LEMMA PendingSwapped ==
    ASSUME Held, Held', NEW t \in Threads, stack[t] # << >>, NEW f \in Calls, NEW L,
           stack' = [stack EXCEPT ![t] = Swap(stack[t], f)]
    PROVE  Cardinality(On(L))' = (Cardinality(On(L)) + One(f.at \in L)) - One(Top(t).at \in L)
  <1> DEFINE q == stack[t]
             r == Swap(q, f)
             n == Len(q)
  <1>1. q \in Seq(Calls) /\ q # << >> /\ Top(t) = q[n]
    BY DEF Held, Top
  <1>2. n \in Spots(q, L) <=> Top(t).at \in L
    BY <1>1, SpotsPopped
  <1>3. Spots(r, L) = IF f.at \in L THEN Spots(q, L) \cup {n} ELSE Spots(q, L) \ {n}
    BY <1>1, SpotsSwapped
  <1>4. Cardinality(On(L)) \in Nat
    BY OnFinite
  <1>5. stack' = [stack EXCEPT ![t] = r]
    OBVIOUS
  <1> HIDE DEF r, n, q
  <1>6. CASE f.at \in L /\ Top(t).at \in L
    <2>1. Spots(r, L) = Spots(q, L)
      BY <1>2, <1>3, <1>6
    <2>2. Grown(t, r, L, 0)
      BY <2>1 DEF Grown, q
    <2>3. Cardinality(On(L))' = Cardinality(On(L)) + 0
      BY ONLY Held, Held', t \in Threads, <1>5, <2>2, OnGrown
    <2> QED
      BY <1>4, <1>6, <2>3 DEF One
  <1>7. CASE f.at \notin L /\ Top(t).at \notin L
    <2>1. Spots(r, L) = Spots(q, L)
      BY <1>2, <1>3, <1>7
    <2>2. Grown(t, r, L, 0)
      BY <2>1 DEF Grown, q
    <2>3. Cardinality(On(L))' = Cardinality(On(L)) + 0
      BY ONLY Held, Held', t \in Threads, <1>5, <2>2, OnGrown
    <2> QED
      BY <1>4, <1>7, <2>3 DEF One
  <1>8. CASE f.at \in L /\ Top(t).at \notin L
    <2>1. Spots(r, L) = Spots(q, L) \cup {n} /\ n \notin Spots(q, L)
      BY <1>2, <1>3, <1>8
    <2>2. Grown(t, r, L, 1)
      BY <2>1 DEF Grown, q
    <2>3. Cardinality(On(L))' = Cardinality(On(L)) + 1
      BY ONLY Held, Held', t \in Threads, <1>5, <2>2, OnGrown
    <2> QED
      BY <1>4, <1>8, <2>3 DEF One
  <1>9. CASE f.at \notin L /\ Top(t).at \in L
    <2>1. Spots(r, L) = Spots(q, L) \ {n} /\ n \in Spots(q, L)
      BY <1>2, <1>3, <1>9
    <2>2. Grown(t, r, L, -1)
      BY <2>1 DEF Grown, q
    <2>3. Cardinality(On(L))' = Cardinality(On(L)) + (-1)
      BY ONLY Held, Held', t \in Threads, <1>5, <2>2, OnGrown
    <2> QED
      BY <1>4, <1>9, <2>3 DEF One
  <1> QED
    BY <1>6, <1>7, <1>8, <1>9

LEMMA PendingPushed ==
    ASSUME Held, Held', NEW t \in Threads, NEW g \in Calls, NEW L,
           stack' = [stack EXCEPT ![t] = Push(stack[t], g)]
    PROVE  Cardinality(On(L))' = Cardinality(On(L)) + One(g.at \in L)
  <1> DEFINE q == stack[t]
             r == Push(q, g)
             n == Len(q) + 1
  <1>1. q \in Seq(Calls)
    BY DEF Held
  <1>2. /\ Spots(r, L) = IF g.at \in L THEN Spots(q, L) \cup {n} ELSE Spots(q, L)
        /\ n \notin Spots(q, L)
    BY <1>1, SpotsPushed
  <1>3. stack' = [stack EXCEPT ![t] = r]
    OBVIOUS
  <1> HIDE DEF r, n, q
  <1>4. CASE g.at \in L
    <2>1. Grown(t, r, L, 1)
      BY <1>2, <1>4 DEF Grown, q
    <2>2. Cardinality(On(L))' = Cardinality(On(L)) + 1
      BY ONLY Held, Held', t \in Threads, <1>3, <2>1, OnGrown
    <2> QED
      BY <1>4, <2>2 DEF One
  <1>5. CASE g.at \notin L
    <2>1. Grown(t, r, L, 0)
      BY <1>2, <1>5 DEF Grown, q
    <2>2. Cardinality(On(L))' = Cardinality(On(L)) + 0
      BY ONLY Held, Held', t \in Threads, <1>3, <2>1, OnGrown
    <2> QED
      BY <1>5, <2>2 DEF One
  <1> QED
    BY <1>4, <1>5

LEMMA PendingPopped ==
    ASSUME Held, Held', NEW t \in Threads, stack[t] # << >>, Return(t), NEW L
    PROVE  Cardinality(On(L))' = Cardinality(On(L)) - One(Top(t).at \in L)
  <1> DEFINE q == stack[t]
             r == Cut(q)
             n == Len(q)
  <1>1. q \in Seq(Calls) /\ q # << >> /\ Top(t) = q[n]
    BY DEF Held, Top
  <1>2. /\ n \in Spots(q, L) <=> Top(t).at \in L
        /\ Spots(r, L) = Spots(q, L) \ {n}
    BY <1>1, SpotsPopped
  <1>3. Cardinality(On(L)) \in Nat
    BY OnFinite
  <1>4. stack' = [stack EXCEPT ![t] = r]
    BY DEF Return, Below, Cut
  <1> HIDE DEF r, n, q
  <1>5. CASE Top(t).at \in L
    <2>1. Grown(t, r, L, -1)
      BY <1>2, <1>5 DEF Grown, q
    <2>2. Cardinality(On(L))' = Cardinality(On(L)) + (-1)
      BY ONLY Held, Held', t \in Threads, <1>4, <2>1, OnGrown
    <2> QED
      BY <1>3, <1>5, <2>2 DEF One
  <1>6. CASE Top(t).at \notin L
    <2>1. Grown(t, r, L, 0)
      BY <1>2, <1>6 DEF Grown, q
    <2>2. Cardinality(On(L))' = Cardinality(On(L)) + 0
      BY ONLY Held, Held', t \in Threads, <1>4, <2>1, OnGrown
    <2> QED
      BY <1>3, <1>6, <2>2 DEF One
  <1> QED
    BY <1>5, <1>6

\* Of the calls and jobs at L, those of thread t's list as it becomes, and those of the queue.
LEMMA PendingCalled ==
    ASSUME Held, NEW t \in Threads, stack[t] # << >>, NEW f \in Calls, NEW g \in Calls, NEW L,
           stack' = [stack EXCEPT ![t] = Push(Swap(stack[t], f), g)],
           f.at \notin L, g.at \notin L, Top(t).at \notin L
    PROVE  On(L)' = On(L)
  <1> DEFINE q == stack[t]
             p == Swap(q, f)
             r == Push(p, g)
             n == Len(q)
  <1>1. q \in Seq(Calls) /\ q # << >> /\ Top(t) = q[n]
    BY DEF Held, Top
  <1>2. /\ n \notin Spots(q, L)
        /\ Spots(p, L) = Spots(q, L) \ {n}
        /\ p \in Seq(Calls)
    BY <1>1, SpotsPopped, SpotsSwapped, Swapped
  <1>3. stack' = [stack EXCEPT ![t] = r]
    OBVIOUS
  <1> HIDE DEF p
  <1>4. Spots(r, L) = Spots(p, L)
    BY <1>2, SpotsPushed
  <1> HIDE DEF r, n
  <1>5. Spots(r, L) = Spots(stack[t], L)
    BY <1>2, <1>4
  <1> HIDE DEF q
  <1> QED
    BY ONLY Held, t \in Threads, <1>3, <1>5, OnChanged

LEMMA JobPosted ==
    ASSUME queue \in Seq(Queued), NEW j \in Queued, queue' = Append(queue, j), NEW L
    PROVE  Cardinality(Spots(queue, L))' = Cardinality(Spots(queue, L)) + One(j.at \in L)
  <1> DEFINE A == Spots(queue, L)
             n == Len(queue) + 1
  <1>1. /\ Spots(queue', L) = IF j.at \in L THEN A \cup {n} ELSE A
        /\ n \notin A
    BY SpotsPushed DEF Push
  <1>2. IsFiniteSet(A) /\ Cardinality(A) \in Nat
    BY SpotsFinite
  <1> HIDE DEF A, n
  <1>3. CASE j.at \in L
    <2>1. Cardinality(A \cup {n}) = Cardinality(A) + 1
      BY <1>1, <1>2, FS_AddElement
    <2>2. Cardinality(Spots(queue', L)) = Cardinality(A) + 1
      BY <1>1, <1>3, <2>1
    <2> QED
      BY <2>2, <1>3 DEF A, One
  <1>4. CASE j.at \notin L
    <2>1. Cardinality(Spots(queue', L)) = Cardinality(A)
      BY <1>1, <1>4
    <2>2. One(j.at \in L) = 0
      BY <1>4 DEF One
    <2> QED
      BY <1>2, <2>1, <2>2 DEF A
  <1> QED
    BY <1>3, <1>4

LEMMA PendingTaken ==
    ASSUME Held, Held', NEW t \in Threads, queue # << >>, NEW L,
           stack' = [stack EXCEPT ![t] = Push(stack[t], Head(queue))], queue' = Tail(queue)
    PROVE  Pending(L)' = Pending(L)
  <1> DEFINE h == Head(queue)
  <1>1. queue \in Seq(Queued) /\ h \in Calls
    BY Taken DEF Held, Queued
  <1>2. stack' = [stack EXCEPT ![t] = Push(stack[t], h)]
    OBVIOUS
  <1>3. Cardinality(Spots(queue, L)) = Cardinality(Spots(queue', L)) + One(h.at \in L)
    BY <1>1, SpotsTaken
  <1> HIDE DEF h
  <1>4. Cardinality(On(L))' = Cardinality(On(L)) + One(h.at \in L)
    BY ONLY Held, Held', t \in Threads, <1>1, <1>2, PendingPushed
  <1>5. /\ Cardinality(On(L)) \in Nat /\ Cardinality(Spots(queue', L)) \in Nat
        /\ One(h.at \in L) \in Nat
    BY OnFinite, SpotsFinite DEF Held, One
  <1> QED
    BY <1>3, <1>4, <1>5 DEF Pending

\* Nobody is counted exactly if nobody is there.
LEMMA PendingNone ==
    ASSUME Held, NEW L
    PROVE  /\ Pending(L) \in Nat
           /\ Pending(L) = 0 <=> \A f \in Frames \cup Jobs : f.at \notin L
           /\ Pending(L) = 0 => On(L) = {}
  <1> DEFINE A == On(L)
             B == Spots(queue, L)
  <1>1. /\ IsFiniteSet(A) /\ Cardinality(A) \in Nat
        /\ IsFiniteSet(B) /\ Cardinality(B) \in Nat
    BY OnFinite, SpotsFinite DEF Held
  <1>2. A = {} <=> \A f \in Frames : f.at \notin L
    <2>1. A = {} <=> \A t \in Threads : Spots(stack[t], L) = {}
      <3>1. \A t \in Threads : \A k \in Spots(stack[t], L) : <<t, k>> \in A
        BY DEF On
      <3>2. \A p \in A : \E t \in Threads : Spots(stack[t], L) # {}
        BY DEF On
      <3> HIDE DEF A
      <3> QED
        BY <3>1, <3>2
    <2>2. \A t \in Threads : Spots(stack[t], L) = {} <=>
            \A k \in 1 .. Len(stack[t]) : stack[t][k].at \notin L
      BY DEF Spots
    <2>3. \A f : f \in Frames <=> \E t \in Threads : \E k \in 1 .. Len(stack[t]) : f = stack[t][k]
      BY DEF Frames
    <2> HIDE DEF A
    <2>4. ASSUME A = {}, NEW f \in Frames
          PROVE  f.at \notin L
      <3>1. PICK t \in Threads : \E k \in 1 .. Len(stack[t]) : f = stack[t][k]
        BY <2>3
      <3> QED
        BY <2>1, <2>2, <2>4, <3>1
    <2>5. ASSUME \A f \in Frames : f.at \notin L, NEW t \in Threads
          PROVE  Spots(stack[t], L) = {}
      <3>1. \A k \in 1 .. Len(stack[t]) : stack[t][k] \in Frames
        BY <2>3
      <3> QED
        BY <2>2, <2>5, <3>1
    <2> QED
      BY <2>1, <2>4, <2>5
  <1>3. B = {} <=> \A f \in Jobs : f.at \notin L
    BY DEF Spots, Jobs
  <1> HIDE DEF A, B
  <1>4. (Cardinality(A) = 0 <=> A = {}) /\ (Cardinality(B) = 0 <=> B = {})
    BY <1>1, FS_EmptySet
  <1>5. Pending(L) = Cardinality(A) + Cardinality(B)
    BY DEF Pending, A, B
  <1> QED
    BY <1>1, <1>2, <1>3, <1>4, <1>5 DEF A

-----------------------------------------------------------------------------
(* What a step of one thread leaves alone                                   *)
\* Thread t's list of calls becomes r: all but the innermost call stay.
Keeps(t, r) ==
    /\ stack' = [stack EXCEPT ![t] = r] /\ r \in Seq(Calls)
    /\ Len(r) >= Len(stack[t]) - 1
    /\ \A k \in 1 .. Len(stack[t]) - 1 : r[k] = stack[t][k]

LEMMA RootStays ==
    ASSUME Where, args' = args, NEW t \in Threads, stack[t] # << >>,
           Top(t).at \notin RootLabels, NEW r, Keeps(t, r)
    PROVE  /\ \A L : RootAt(L)' <=> RootAt(L)
           /\ \A s : ToCome(s)' <=> ToCome(s)
           /\ t = Main => Len(stack[t]) >= 2
  <1> DEFINE q == stack[t]
  <1>1. /\ stack \in [Threads -> Seq(Calls)] /\ q \in Seq(Calls) /\ RootIsFirst
        /\ Len(q) \in Nat \ {0}
    BY DEF Where, Held
  <1>2. q[Len(q)].at \notin RootLabels
    BY DEF Top
  <1>3. t = Main => Len(q) # 1
    BY <1>1, <1>2 DEF RootIsFirst
  <1>4. t = Main => Len(q) >= 2 /\ r # << >> /\ r[1] = q[1]
    <2>1. /\ Len(r) >= Len(q) - 1 /\ r \in Seq(Calls)
          /\ \A k \in 1 .. Len(q) - 1 : r[k] = q[k]
      BY DEF Keeps
    <2>2. Len(q) \in Nat /\ Len(q) # 0 /\ Len(r) \in Nat
      BY <1>1, <2>1
    <2>3. \A n, m \in Nat : n # 0 /\ n # 1 /\ m >= n - 1 => n >= 2 /\ m >= 1 /\ 1 \in 1 .. n - 1
      OBVIOUS
    <2>4. Len(q) # 1 => Len(q) >= 2 /\ Len(r) >= 1 /\ 1 \in 1 .. Len(q) - 1
      BY <2>1, <2>2, <2>3
    <2>5. Len(q) # 1 => r # << >> /\ r[1] = q[1]
      BY <2>1, <2>2, <2>4
    <2> QED
      BY <1>3, <2>4, <2>5
  <1>5. /\ stack'[Main] # << >> <=> stack[Main] # << >>
        /\ stack[Main] # << >> => stack'[Main][1] = stack[Main][1]
    <2>1. CASE t = Main
      BY <2>1, <1>1, <1>4 DEF Keeps
    <2>2. CASE t # Main
      BY <2>2, <1>1 DEF Keeps, Threads
    <2> QED
      BY <2>1, <2>2
  <1>6. \A f : Submitted(f)' = Submitted(f)
    BY SameBuild
  <1> QED
    BY <1>4, <1>5, <1>6 DEF RootAt, ToCome

\* The calls of thread t's new list are old ones in their place, or in X.
LEMMA NewFrames ==
    ASSUME Held, NEW t \in Threads, NEW r, stack' = [stack EXCEPT ![t] = r], NEW X,
           \A k \in 1 .. Len(r) : r[k] \in X \/ (k \in 1 .. Len(stack[t]) /\ r[k] = stack[t][k])
    PROVE  Frames' \subseteq Frames \cup X
  <1>1. stack'[t] = r /\ \A u \in Threads : u # t => stack'[u] = stack[u]
    BY DEF Held
  <1>2. \A f : f \in Frames' <=> \E u \in Threads : \E k \in 1 .. Len(stack'[u]) : f = stack'[u][k]
    BY DEF Frames
  <1>3. \A u \in Threads : \A k \in 1 .. Len(stack[u]) : stack[u][k] \in Frames
    BY DEF Frames
  <1>4. ASSUME NEW u \in Threads, NEW k \in 1 .. Len(stack'[u])
        PROVE  stack'[u][k] \in Frames \cup X
    <2>1. CASE u = t
      BY <1>1, <1>3, <2>1
    <2>2. CASE u # t
      BY <1>1, <1>3, <2>2
    <2> QED
      BY <2>1, <2>2
  <1> QED
    BY <1>2, <1>4

LEMMA TurnShape ==
    ASSUME Held, NEW t \in Threads, stack[t] # << >>, NEW f \in Calls, Become(t, f)
    PROVE  /\ Keeps(t, Swap(stack[t], f)) /\ Frames' \subseteq Frames \cup {f}
           /\ stack'[t] # << >> /\ Top(t)' = f /\ Len(stack'[t]) = Len(stack[t])
           /\ Len(stack[t]) \in Nat \ {0}
           /\ \A k \in 1 .. Len(stack[t]) :
                 stack'[t][k] = IF k = Len(stack[t]) THEN f ELSE stack[t][k]
           /\ \A u \in Threads : u # t => stack'[u] = stack[u]
  <1> DEFINE q == stack[t]
             r == Swap(q, f)
  <1>1. q \in Seq(Calls) /\ q # << >> /\ stack' = [stack EXCEPT ![t] = r]
    BY DEF Held, Become, Below, Swap, Cut
  <1> HIDE DEF q
  <1>2. /\ r \in Seq(Calls) /\ Len(r) = Len(q) /\ r # << >> /\ Len(q) \in Nat \ {0}
        /\ \A k \in 1 .. Len(q) : r[k] = IF k = Len(q) THEN f ELSE q[k]
    BY <1>1, Swapped
  <1> HIDE DEF r
  <1>3. stack'[t] = r /\ \A u \in Threads : u # t => stack'[u] = stack[u]
    BY <1>1 DEF Held
  <1>4. Keeps(t, r)
    BY <1>1, <1>2 DEF Keeps, q
  <1>5. Frames' \subseteq Frames \cup {f}
    <2>1. \A k \in 1 .. Len(r) : r[k] \in {f} \/ (k \in 1 .. Len(q) /\ r[k] = q[k])
      BY <1>2
    <2> QED
      BY ONLY Held, t \in Threads, <1>1, <2>1, NewFrames DEF q
  <1>6. Top(t)' = f
    BY <1>2, <1>3 DEF Top
  <1> QED
    BY <1>2, <1>3, <1>4, <1>5, <1>6 DEF r, q

LEMMA ReturnShape ==
    ASSUME Held, NEW t \in Threads, stack[t] # << >>, Return(t)
    PROVE  /\ Keeps(t, Cut(stack[t])) /\ Frames' \subseteq Frames
           /\ Len(stack'[t]) = Len(stack[t]) - 1 /\ Len(stack[t]) \in Nat \ {0}
           /\ \A k \in 1 .. Len(stack[t]) - 1 : stack'[t][k] = stack[t][k]
           /\ \A u \in Threads : u # t => stack'[u] = stack[u]
  <1> DEFINE q == stack[t]
             r == Cut(q)
  <1>1. q \in Seq(Calls) /\ q # << >> /\ stack' = [stack EXCEPT ![t] = r]
    BY DEF Held, Return, Below, Cut
  <1> HIDE DEF q
  <1>2. /\ r \in Seq(Calls) /\ Len(r) = Len(q) - 1 /\ Len(q) \in Nat \ {0}
        /\ \A k \in 1 .. Len(q) - 1 : r[k] = q[k]
    BY <1>1, Popped
  <1> HIDE DEF r
  <1>3. stack'[t] = r /\ \A u \in Threads : u # t => stack'[u] = stack[u]
    BY <1>1 DEF Held
  <1>4. Keeps(t, r)
    BY <1>1, <1>2 DEF Keeps, q
  <1>5. Frames' \subseteq Frames \cup {}
    <2>1. \A k \in 1 .. Len(r) : r[k] \in {} \/ (k \in 1 .. Len(q) /\ r[k] = q[k])
      BY <1>2
    <2> QED
      BY ONLY Held, t \in Threads, <1>1, <2>1, NewFrames DEF q
  <1> QED
    BY <1>2, <1>3, <1>4, <1>5 DEF r, q

LEMMA CallShape ==
    ASSUME Held, NEW t \in Threads, stack[t] # << >>, NEW f \in Calls, NEW g \in Calls,
           stack' = [stack EXCEPT ![t] = Push(Swap(stack[t], f), g)]
    PROVE  /\ Keeps(t, Push(Swap(stack[t], f), g)) /\ Frames' \subseteq Frames \cup {f, g}
           /\ Len(stack'[t]) = Len(stack[t]) + 1 /\ Len(stack[t]) \in Nat \ {0}
           /\ \A k \in 1 .. Len(stack[t]) :
                 stack'[t][k] = IF k = Len(stack[t]) THEN f ELSE stack[t][k]
           /\ stack'[t][Len(stack[t]) + 1] = g
           /\ \A u \in Threads : u # t => stack'[u] = stack[u]
  <1> DEFINE q == stack[t]
             p == Swap(q, f)
             r == Push(p, g)
  <1>1. q \in Seq(Calls) /\ q # << >> /\ stack' = [stack EXCEPT ![t] = r]
    BY DEF Held
  <1> HIDE DEF q
  <1>2. /\ p \in Seq(Calls) /\ Len(p) = Len(q) /\ Len(q) \in Nat \ {0}
        /\ \A k \in 1 .. Len(q) : p[k] = IF k = Len(q) THEN f ELSE q[k]
    BY <1>1, Swapped
  <1> HIDE DEF p
  <1>3. /\ r \in Seq(Calls) /\ Len(r) = Len(p) + 1
        /\ \A k \in 1 .. Len(p) : r[k] = p[k]
        /\ r[Len(p) + 1] = g
    <2>1. p \in Seq(Calls)
      BY <1>2
    <2> QED
      BY <2>1, Pushed, SMTT(30)
  <1> HIDE DEF r
  <1>4. stack'[t] = r /\ \A u \in Threads : u # t => stack'[u] = stack[u]
    BY <1>1 DEF Held
  <1>5. /\ \A k \in 1 .. Len(q) : r[k] = IF k = Len(q) THEN f ELSE q[k]
        /\ Len(r) = Len(q) + 1 /\ r[Len(q) + 1] = g
    BY <1>2, <1>3
  <1>6. Keeps(t, r)
    <2>1. /\ Len(r) >= Len(q) - 1 /\ r \in Seq(Calls)
          /\ \A k \in 1 .. Len(q) - 1 : r[k] = q[k]
      BY <1>2, <1>3, <1>5
    <2> QED
      BY <1>1, <2>1 DEF Keeps, q
  <1>7. Frames' \subseteq Frames \cup {f, g}
    <2>1. \A k \in 1 .. Len(r) : r[k] \in {f, g} \/ (k \in 1 .. Len(q) /\ r[k] = q[k])
      BY <1>2, <1>5
    <2> QED
      BY ONLY Held, t \in Threads, <1>1, <2>1, NewFrames DEF q
  <1> QED
    BY <1>2, <1>4, <1>5, <1>6, <1>7 DEF r, p, q

-----------------------------------------------------------------------------
(* What a compile step has done goes with it                                *)

LEMMA StagedSame ==
    ASSUME NEW s, StagedAt(s),
           \A t \in Threads : At(stack'[t], s) = At(stack[t], s) /\
              \A k \in At(stack[t], s) : stack'[t][k].at = stack[t][k].at,
           (ToCome(s) \/ At(queue, s) # {})' => ToCome(s) \/ At(queue, s) # {},
           Live(s) => Live(s)',
           Reached(s) \subseteq Reached(s)'
    PROVE  StagedAt(s)'
  <1>1. \A t \in Threads : \A k \in At(stack'[t], s) : stack'[t][k].at \in Reached(s)'
    BY DEF StagedAt
  <1>2. (ToCome(s) \/ At(queue, s) # {})' => "cpp" \in Reached(s)'
    BY DEF StagedAt
  <1>3. ~Live(s)' => "done" \in Reached(s)'
    BY DEF StagedAt
  <1> QED
    BY <1>1, <1>2, <1>3 DEF StagedAt

\* Compile step s is call k of thread t and nothing else: what it has done is said there.
Only(s, t, k) ==
    InOnePlace(s) /\ t \in Threads /\ k \in At(stack[t], s) /\ stack[t][k].at \in Reached(s)

LEMMA StagedThere ==
    ASSUME NEW s, NEW t, NEW k
    PROVE  Only(s, t, k) => StagedAt(s)
  <1> SUFFICES ASSUME Only(s, t, k) PROVE StagedAt(s)
    OBVIOUS
  <1>1. \A u \in Threads : \A l \in At(stack[u], s) : u = t /\ l = k
    BY DEF InOnePlace, Only
  <1>2. ~ToCome(s) /\ At(queue, s) = {} /\ Live(s)
    BY DEF InOnePlace, Live, Only
  <1> QED
    BY <1>1, <1>2 DEF StagedAt, Only

LEMMA StagedThen ==
    ASSUME NEW s, NEW t, NEW k
    PROVE  Only(s, t, k)' => StagedAt(s)'
  BY StagedThere, PTL

-----------------------------------------------------------------------------
(* The steps of a thread, by what they do to its list of calls              *)

LEMMA LabelSets ==
    /\ \A l \in CompileLabels : l \notin RootLabels /\ l \notin JobLabels
    /\ \A l \in JobLabels : l \notin RootLabels /\ l \notin CompileLabels
    /\ CallLabels \subseteq GenLabels /\ GenLabels \subseteq CompileLabels
    /\ IRLabels \subseteq JobLabels /\ {"opt", "signal"} \subseteq JobLabels
    /\ IRLabels \cap {"opt", "signal"} = {}
    /\ OptWaits \subseteq LinkLabels /\ LinkLabels \subseteq RootLabels
    /\ "submit" \notin LinkLabels /\ "wait_deps" \notin LinkLabels
  BY DEF CompileLabels, RootLabels, JobLabels, Labels, CallLabels, GenLabels, IRLabels,
         OptWaits, LinkLabels

LEMMA OwnedSame ==
    ASSUME args' = args
    PROVE  \A f : Owned(f)' <=> Owned(f)
  <1>1. Sources' = Sources /\ SyntaxOnly' = SyntaxOnly
    BY SameBuild DEF SyntaxOnly
  <1> QED
    BY <1>1 DEF Owned

LEMMA OwnedCompile ==
    ASSUME NEW f, f.at \in CompileLabels \ {"submit_ir"}
    PROVE  Owned(f)
  BY LabelSets DEF Owned

\* While a compile step is alive the link step has not begun.
LEMMA LiveNotBegun ==
    ASSUME Where, NEW s \in Sources, Live(s)
    PROVE  ~RootAt(LinkLabels) /\ stack[Main] # << >>
  BY LabelSets DEF Where, AfterAll, Decided, RootAt

LEMMA TopIsLive ==
    ASSUME Where, NEW t \in Threads, stack[t] # << >>, Top(t).at \in CompileLabels
    PROVE  /\ Top(t).step \in Sources /\ Len(stack[t]) \in At(stack[t], Top(t).step)
           /\ Live(Top(t).step)
  <1>1. /\ stack[t] \in Seq(Calls) /\ Len(stack[t]) \in 1 .. Len(stack[t])
        /\ stack[t][Len(stack[t])] \in Calls
    BY DEF Where, Held
  <1>2. Top(t).step \in Sources /\ Len(stack[t]) \in At(stack[t], Top(t).step)
    BY <1>1 DEF Calls, At, Top
  <1> QED
    BY <1>2 DEF Live

\* The queue as it is, or with one more IR job.
IRQueued ==
    \/ queue' = queue
    \/ \E j \in Queued : j.at = "ir" /\ Owned(j) /\ queue' = Append(queue, j)

LEMMA IRQueuedKeeps ==
    ASSUME queue \in Seq(Queued), IRQueued
    PROVE  /\ \A g \in Jobs' : g \in Jobs \/ Owned(g)
           /\ \A s : At(queue', s) = At(queue, s)
           /\ Cardinality(Spots(queue, {"opt"}))' = Cardinality(Spots(queue, {"opt"}))
  <1>1. CASE queue' = queue
    BY <1>1 DEF Jobs
  <1>2. ASSUME NEW j \in Queued, j.at = "ir", Owned(j), queue' = Append(queue, j)
        PROVE  /\ \A g \in Jobs' : g \in Jobs \/ Owned(g)
               /\ \A s : At(queue', s) = At(queue, s)
               /\ Cardinality(Spots(queue, {"opt"}))' = Cardinality(Spots(queue, {"opt"}))
    <2>1. /\ Len(queue') = Len(queue) + 1 /\ Len(queue) \in Nat
          /\ \A k \in 1 .. Len(queue) : queue'[k] = queue[k]
          /\ queue'[Len(queue) + 1] = j
      BY <1>2
    <2>2. \A g \in Jobs' : g \in Jobs \/ g = j
      BY <2>1 DEF Jobs
    <2>3. \A s : At(queue', s) = At(queue, s)
      BY <1>2, AtPushed DEF Push, CompileLabels
    <2>4. Cardinality(Spots(queue, {"opt"})) \in Nat
      BY SpotsFinite
    <2>5. Cardinality(Spots(queue, {"opt"}))'
            = Cardinality(Spots(queue, {"opt"})) + One(j.at \in {"opt"})
      BY ONLY queue \in Seq(Queued), <1>2, JobPosted
    <2>6. One(j.at \in {"opt"}) = 0
      BY <1>2 DEF One
    <2> QED
      BY <1>2, <2>2, <2>3, <2>4, <2>5, <2>6
  <1> QED
    BY <1>1, <1>2 DEF IRQueued

\* The compile step on top of thread t's calls goes on.
LEMMA CompileTurn ==
    ASSUME IInv, IInv', GInv, args' = args, opt_left' = opt_left, IRQueued,
           NEW t \in Threads, stack[t] # << >>, NEW f \in Calls, Become(t, f),
           Top(t).at \in CompileLabels, f.at \in CompileLabels, f.step = Top(t).step,
           AddedOnce', Owned(f),
           \A s \in Sources : s # f.step => Reached(s) \subseteq Reached(s)',
           f.at \in Reached(f.step)'
    PROVE  GInv'
  <1> DEFINE e == f.step
             n == Len(stack[t])
  <1>1. /\ Where /\ Held /\ Where' /\ Held' /\ args \in Builds /\ queue \in Seq(Queued)
        /\ OnePlace' /\ Sources' = Sources
    BY SameBuild DEF IInv, Where, Typed, Held
  <1>2. /\ Keeps(t, Swap(stack[t], f)) /\ Frames' \subseteq Frames \cup {f}
        /\ n \in Nat \ {0} /\ Len(stack'[t]) = n /\ stack'[t][n] = f
        /\ \A k \in 1 .. n : k # n => stack'[t][k] = stack[t][k]
        /\ \A u \in Threads : u # t => stack'[u] = stack[u]
    BY <1>1, TurnShape
  <1>3. /\ \A L : RootAt(L)' <=> RootAt(L)
        /\ \A s : ToCome(s)' <=> ToCome(s)
    BY <1>1, <1>2, RootStays, LabelSets
  <1>4. e \in Sources /\ Live(e)
    BY <1>1, TopIsLive
  <1>5. /\ \A g \in Jobs' : g \in Jobs \/ Owned(g)
        /\ \A s : At(queue', s) = At(queue, s)
        /\ Cardinality(Spots(queue, {"opt"}))' = Cardinality(Spots(queue, {"opt"}))
    BY <1>1, IRQueuedKeeps
  <1>6. JobsOwned'
    <2>1. \A g \in (Frames \cup Jobs)' : Owned(g)
      BY <1>2, <1>5 DEF GInv, JobsOwned
    <2> QED
      BY <2>1, OwnedSame DEF JobsOwned
  <1>7. BeganClean'
    BY <1>1, <1>3, <1>4, LiveNotBegun DEF BeganClean
  <1>8. Staged'
    <2>1. ASSUME NEW s \in Sources, s # e
          PROVE  StagedAt(s)'
      <3>2. \A u \in Threads : At(stack'[u], s) = At(stack[u], s) /\
              \A k \in At(stack[u], s) : stack'[u][k].at = stack[u][k].at
        <4>1. ASSUME NEW k \in 1 .. n
              PROVE  stack'[t][k] = stack[t][k] \/ (stack'[t][k].step = e /\ stack[t][k].step = e)
          BY <1>2, <4>1 DEF Top
        <4>2. At(stack'[t], s) = At(stack[t], s) /\
              \A k \in At(stack[t], s) : stack'[t][k].at = stack[t][k].at
          BY <1>2, <2>1, <4>1 DEF At
        <4> QED
          BY <1>2, <4>2
      <3>3. Live(s) => Live(s)'
        BY <1>3, <1>5, <3>2 DEF Live
      <3>4. StagedAt(s)
        BY DEF GInv, Staged
      <3>5. (ToCome(s) \/ At(queue, s) # {})' => ToCome(s) \/ At(queue, s) # {}
        BY <1>3, <1>5
      <3> HIDE DEF e, n
      <3>6. Reached(s) \subseteq Reached(s)'
        BY <2>1 DEF e
      <3> QED
        BY <3>2, <3>3, <3>4, <3>5, <3>6, StagedSame
    <2>2. StagedAt(e)'
      <3>1. n \in At(stack'[t], e)
        BY <1>2 DEF At
      <3>2. InOnePlace(e)'
        BY <1>1, <1>4 DEF OnePlace
      <3>3. Only(e, t, n)'
        BY <1>2, <3>1, <3>2 DEF Only
      <3> QED
        BY <3>3, StagedThen
    <2> QED
      BY <1>1, <2>1, <2>2 DEF Staged
  <1>9. OptCounted'
    <2>1. Top(t).at \notin {"opt"} /\ f.at \notin {"opt"}
      BY LabelSets
    <2>2. stack' = [stack EXCEPT ![t] = Swap(stack[t], f)]
      BY <1>2 DEF Keeps
    <2>3. Cardinality(On({"opt"}))' =
            (Cardinality(On({"opt"})) + One(f.at \in {"opt"})) - One(Top(t).at \in {"opt"})
      BY ONLY t \in Threads, stack[t] # << >>, f \in Calls, <1>1, <2>2, PendingSwapped
    <2>4. One(f.at \in {"opt"}) = 0 /\ One(Top(t).at \in {"opt"}) = 0
      BY <2>1 DEF One
    <2>5. Cardinality(On({"opt"})) \in Nat
      BY <1>1, OnFinite
    <2>6. Pending({"opt"})' = Pending({"opt"})
      BY <1>5, <2>3, <2>4, <2>5 DEF Pending
    <2> QED
      BY <1>3, <2>6 DEF GInv, OptCounted
  <1> QED
    BY <1>6, <1>7, <1>8, <1>9 DEF GInv

\* What a step that moves no compile step leaves for Staged.
LEMMA NobodyStages ==
    ASSUME Staged, args' = args,
           \A u \in Threads : \A s \in Sources : At(stack'[u], s) = At(stack[u], s) /\
              \A k \in At(stack[u], s) : stack'[u][k].at = stack[u][k].at,
           \A s \in Sources : At(queue', s) = At(queue, s) /\ (ToCome(s)' <=> ToCome(s))
             /\ Reached(s) \subseteq Reached(s)'
    PROVE  Staged'
  <1>1. Sources' = Sources
    BY SameBuild
  <1>2. ASSUME NEW s \in Sources
        PROVE  StagedAt(s)'
    <2>1. Live(s) => Live(s)'
      BY DEF Live
    <2>2. StagedAt(s)
      BY DEF Staged
    <2> QED
      BY <2>1, <2>2, StagedSame
  <1> QED
    BY <1>1, <1>2 DEF Staged

LEMMA ReachedSame ==
    ASSUME UNCHANGED <<args, cu, allocated, is_free>>, error_root \subseteq error_root', NEW s
    PROVE  Reached(s) \subseteq Reached(s)'
  <1>1. Added' = Added /\ SyntaxOnly' = SyntaxOnly
    BY DEF Added, SyntaxOnly
  <1>2. ASSUME NEW l \in CompileLabels, Stage(l, s)
        PROVE  Stage(l, s)'
    BY <1>1, <1>2 DEF Stage
  <1> QED
    BY <1>2 DEF Reached

\* A job goes on, or returns.
LEMMA JobTurn ==
    ASSUME IInv, IInv', GInv,
           UNCHANGED <<queue, args, errors, error_root, cu, allocated, is_free>>,
           NEW t \in Threads, stack[t] # << >>, NEW f \in Calls, Become(t, f),
           Top(t).at \in JobLabels, f.at \in JobLabels \ {"opt"}, Owned(f),
           opt_left' = opt_left - One(Top(t).at = "opt")
    PROVE  GInv'
  <1> DEFINE n == Len(stack[t])
  <1>1. /\ Where /\ Held /\ Where' /\ Held' /\ args \in Builds /\ queue \in Seq(Queued)
    BY DEF IInv, Where, Typed, Held
  <1>2. /\ Keeps(t, Swap(stack[t], f)) /\ Frames' \subseteq Frames \cup {f}
        /\ n \in Nat \ {0} /\ Len(stack'[t]) = n /\ stack'[t][n] = f
        /\ \A k \in 1 .. n : k # n => stack'[t][k] = stack[t][k]
        /\ \A u \in Threads : u # t => stack'[u] = stack[u]
    BY <1>1, TurnShape
  <1>3. /\ \A L : RootAt(L)' <=> RootAt(L)
        /\ \A s : ToCome(s)' <=> ToCome(s)
    BY <1>1, <1>2, RootStays, LabelSets
  <1>4. JobsOwned'
    <2>1. \A g \in (Frames \cup Jobs)' : Owned(g)
      BY <1>2 DEF GInv, JobsOwned, Jobs
    <2> QED
      BY <2>1, OwnedSame DEF JobsOwned
  <1>5. BeganClean' /\ AddedOnce'
    BY <1>3 DEF GInv, BeganClean, AddedOnce
  <1>6. Staged'
    <2>1. ASSUME NEW s \in Sources
          PROVE  /\ At(stack'[t], s) = At(stack[t], s)
                 /\ \A k \in At(stack[t], s) : stack'[t][k].at = stack[t][k].at
      <3>1. n \notin At(stack[t], s) /\ n \notin At(stack'[t], s)
        BY <1>2, LabelSets DEF At, Top
      <3> QED
        BY <1>2, <3>1 DEF At
    <2>2. \A s \in Sources : Reached(s) \subseteq Reached(s)'
      BY ReachedSame
    <2> HIDE DEF n
    <2> QED
      BY <1>2, <1>3, <2>1, <2>2, NobodyStages DEF GInv
  <1>7. OptCounted'
    <2>2. stack' = [stack EXCEPT ![t] = Swap(stack[t], f)]
      BY <1>2 DEF Keeps
    <2>3. Cardinality(On({"opt"}))' =
            (Cardinality(On({"opt"})) + One(f.at \in {"opt"})) - One(Top(t).at \in {"opt"})
      BY ONLY t \in Threads, stack[t] # << >>, f \in Calls, <1>1, <2>2, PendingSwapped
    <2>4. One(f.at \in {"opt"}) = 0 /\ One(Top(t).at \in {"opt"}) = One(Top(t).at = "opt")
      BY DEF One
    <2>5. Cardinality(On({"opt"})) \in Nat /\ Cardinality(Spots(queue, {"opt"})) \in Nat
          /\ One(Top(t).at = "opt") \in {0, 1}
      BY <1>1, OnFinite, SpotsFinite DEF One
    <2>6. Pending({"opt"})' = Pending({"opt"}) - One(Top(t).at = "opt")
      BY <2>3, <2>4, <2>5 DEF Pending
    <2>7. opt_left' # 0 => opt_left # 0
      <3>1. CASE Top(t).at = "opt"
        <4>1. Top(t) \in Frames
          BY <1>2 DEF Frames, Top
        <4>2. Pending({"opt"}) # 0
          BY <1>1, <3>1, <4>1, PendingNone
        <4> QED
          BY <4>2 DEF GInv, OptCounted
      <3>2. CASE Top(t).at # "opt"
        BY <3>2 DEF One, IInv, Typed
      <3> QED
        BY <3>1, <3>2
    <2> QED
      BY <1>3, <2>6, <2>7 DEF GInv, OptCounted
  <1> QED
    BY <1>4, <1>5, <1>6, <1>7 DEF GInv

LEMMA JobReturn ==
    ASSUME IInv, IInv', GInv,
           UNCHANGED <<queue, args, errors, error_root, cu, allocated, is_free, opt_left>>,
           NEW t \in Threads, stack[t] # << >>, Return(t), Top(t).at \in JobLabels \ {"opt"}
    PROVE  GInv'
  <1> DEFINE n == Len(stack[t])
  <1>1. /\ Where /\ Held /\ Where' /\ Held' /\ args \in Builds /\ queue \in Seq(Queued)
    BY DEF IInv, Where, Typed, Held
  <1>2. /\ Keeps(t, Cut(stack[t])) /\ Frames' \subseteq Frames
        /\ n \in Nat \ {0} /\ Len(stack'[t]) = n - 1
        /\ \A k \in 1 .. n - 1 : stack'[t][k] = stack[t][k]
        /\ \A u \in Threads : u # t => stack'[u] = stack[u]
    BY <1>1, ReturnShape
  <1>3. /\ \A L : RootAt(L)' <=> RootAt(L)
        /\ \A s : ToCome(s)' <=> ToCome(s)
    BY <1>1, <1>2, RootStays, LabelSets
  <1>4. JobsOwned'
    <2>1. \A g \in (Frames \cup Jobs)' : Owned(g)
      BY <1>2 DEF GInv, JobsOwned, Jobs
    <2> QED
      BY <2>1, OwnedSame DEF JobsOwned
  <1>5. BeganClean' /\ AddedOnce'
    BY <1>3 DEF GInv, BeganClean, AddedOnce
  <1>6. Staged'
    <2>1. ASSUME NEW s \in Sources
          PROVE  /\ At(stack'[t], s) = At(stack[t], s)
                 /\ \A k \in At(stack[t], s) : stack'[t][k].at = stack[t][k].at
      <3>1. n \notin At(stack[t], s)
        BY <1>2, LabelSets DEF At, Top
      <3> QED
        BY <1>2, <3>1 DEF At
    <2>2. \A s \in Sources : Reached(s) \subseteq Reached(s)'
      BY ReachedSame
    <2> HIDE DEF n
    <2> QED
      BY <1>2, <1>3, <2>1, <2>2, NobodyStages DEF GInv
  <1>7. OptCounted'
    <2>1. Cardinality(On({"opt"}))' = Cardinality(On({"opt"})) - One(Top(t).at \in {"opt"})
      BY ONLY t \in Threads, stack[t] # << >>, Return(t), <1>1, PendingPopped
    <2>2. One(Top(t).at \in {"opt"}) = 0 /\ Cardinality(On({"opt"})) \in Nat
      BY <1>1, OnFinite DEF One
    <2>3. Pending({"opt"})' = Pending({"opt"})
      BY <2>1, <2>2 DEF Pending
    <2> QED
      BY <1>3, <2>3 DEF GInv, OptCounted
  <1> QED
    BY <1>4, <1>5, <1>6, <1>7 DEF GInv

\* step_done: the compile step on top of thread t's calls is over.
LEMMA StepOver ==
    ASSUME IInv, IInv', GInv,
           UNCHANGED <<queue, args, errors, error_root, cu, allocated, is_free, opt_left>>,
           NEW t \in Threads, stack[t] # << >>, Return(t), Top(t).at = "done"
    PROVE  GInv'
  <1> DEFINE n == Len(stack[t])
             e == Top(t).step
  <1>1. /\ Where /\ Held /\ Where' /\ Held' /\ args \in Builds /\ queue \in Seq(Queued)
        /\ Sources' = Sources /\ Top(t).at \in CompileLabels
    BY SameBuild DEF IInv, Where, Typed, Held, CompileLabels
  <1>2. /\ Keeps(t, Cut(stack[t])) /\ Frames' \subseteq Frames
        /\ n \in Nat \ {0} /\ Len(stack'[t]) = n - 1
        /\ \A k \in 1 .. n - 1 : stack'[t][k] = stack[t][k]
        /\ \A u \in Threads : u # t => stack'[u] = stack[u]
    BY <1>1, ReturnShape
  <1>3. /\ \A L : RootAt(L)' <=> RootAt(L)
        /\ \A s : ToCome(s)' <=> ToCome(s)
    BY <1>1, <1>2, RootStays, LabelSets
  <1>4. JobsOwned'
    <2>1. \A g \in (Frames \cup Jobs)' : Owned(g)
      BY <1>2 DEF GInv, JobsOwned, Jobs
    <2> QED
      BY <2>1, OwnedSame DEF JobsOwned
  <1>5. BeganClean' /\ AddedOnce'
    BY <1>3 DEF GInv, BeganClean, AddedOnce
  <1>6. Staged'
    <2>1. ASSUME NEW s \in Sources
          PROVE  StagedAt(s)'
      <3>1. Reached(s) \subseteq Reached(s)' /\ StagedAt(s)
        BY ReachedSame DEF GInv, Staged
      <3>2. \A u \in Threads : \A k \in At(stack'[u], s) :
              k \in At(stack[u], s) /\ stack'[u][k] = stack[u][k]
        BY <1>2 DEF At
      <3>3. \A u \in Threads : \A k \in At(stack'[u], s) : stack'[u][k].at \in Reached(s)'
        BY <3>1, <3>2 DEF StagedAt
      <3>4. (ToCome(s) \/ At(queue, s) # {})' => "cpp" \in Reached(s)'
        BY <1>3, <3>1 DEF StagedAt
      <3>5. "done" \in Reached(s)' \/ Live(s)'
        <4>1. CASE s = e
          <5>1. n \in At(stack[t], s) /\ stack[t][n].at = "done"
            BY <4>1, <1>1, <1>2, TopIsLive DEF Top
          <5> QED
            BY <5>1, <3>1 DEF StagedAt
        <4>2. CASE s # e
          <5>1. At(stack'[t], s) = At(stack[t], s)
            <6>1. n \notin At(stack[t], s)
              BY <4>2 DEF At, Top
            <6> QED
              BY <6>1, <1>2 DEF At
          <5>2. \A u \in Threads : At(stack'[u], s) = At(stack[u], s)
            BY <5>1, <1>2
          <5>3. Live(s)' <=> Live(s)
            BY <5>2, <1>3 DEF Live
          <5> QED
            BY <5>3, <3>1 DEF StagedAt
        <4> QED
          BY <4>1, <4>2
      <3> QED
        BY <3>3, <3>4, <3>5 DEF StagedAt
    <2> QED
      BY <2>1, <1>1 DEF Staged
  <1>7. OptCounted'
    <2>1. Cardinality(On({"opt"}))' = Cardinality(On({"opt"})) - One(Top(t).at \in {"opt"})
      BY ONLY t \in Threads, stack[t] # << >>, Return(t), <1>1, PendingPopped
    <2>2. One(Top(t).at \in {"opt"}) = 0 /\ Cardinality(On({"opt"})) \in Nat
      BY <1>1, OnFinite DEF One
    <2>3. Pending({"opt"})' = Pending({"opt"})
      BY <2>1, <2>2 DEF Pending
    <2> QED
      BY <1>3, <2>3 DEF GInv, OptCounted
  <1> QED
    BY <1>4, <1>5, <1>6, <1>7 DEF GInv

\* The queue as it is, or with one more job of the backend.
OptQueued(d) ==
    \/ d = 0 /\ queue' = queue
    \/ d = 1 /\ queue' = Append(queue, Call("opt", Ld))

LEMMA OptQueuedKeeps ==
    ASSUME args \in Builds, queue \in Seq(Queued), NEW d, OptQueued(d)
    PROVE  /\ \A g \in Jobs' : g \in Jobs \/ Owned(g)
           /\ \A s : At(queue', s) = At(queue, s)
           /\ Cardinality(Spots(queue, {"opt"}))' = Cardinality(Spots(queue, {"opt"})) + d
           /\ Cardinality(Spots(queue, {"opt"})) \in Nat /\ d \in {0, 1}
  <1>0. Cardinality(Spots(queue, {"opt"})) \in Nat
    BY SpotsFinite
  <1>1. CASE d = 0 /\ queue' = queue
    BY <1>0, <1>1 DEF Jobs
  <1>2. CASE d = 1 /\ queue' = Append(queue, Call("opt", Ld))
    <2> DEFINE j == Call("opt", Ld)
    <2>1. j \in Queued /\ j.at = "opt" /\ Owned(j)
      <3>1. j \in Calls /\ j.at = "opt" /\ j.step = Ld
        BY CallFrame, LabelSets DEF Call, Frame
      <3> QED
        BY <3>1, LabelSets DEF Queued, Owned
    <2> HIDE DEF j
    <2>2. /\ Len(queue') = Len(queue) + 1 /\ Len(queue) \in Nat
          /\ \A k \in 1 .. Len(queue) : queue'[k] = queue[k]
          /\ queue'[Len(queue) + 1] = j
      BY <1>2, <2>1 DEF j
    <2>3. \A g \in Jobs' : g \in Jobs \/ g = j
      BY <2>2 DEF Jobs
    <2>4. queue' = Append(queue, j)
      BY <1>2 DEF j
    <2>5. \A s : At(queue', s) = At(queue, s)
      BY <2>1, <2>4, AtPushed DEF Push, CompileLabels
    <2>6. Cardinality(Spots(queue, {"opt"}))'
            = Cardinality(Spots(queue, {"opt"})) + One(j.at \in {"opt"})
      BY ONLY queue \in Seq(Queued), <2>1, <2>4, JobPosted
    <2>7. One(j.at \in {"opt"}) = 1
      BY <2>1 DEF One
    <2> QED
      BY <1>0, <1>2, <2>1, <2>3, <2>5, <2>6, <2>7
  <1> QED
    BY <1>1, <1>2 DEF OptQueued

\* The link step's own call goes on.
LEMMA RootTurn ==
    ASSUME IInv, IInv', GInv, UNCHANGED <<args, errors, cu>>,
           NEW t \in Threads, stack[t] # << >>, NEW f \in Calls, Become(t, f),
           Top(t).at \in RootLabels, f.at \in RootLabels, f.step = Ld,
           Submitted(f) = Submitted(Top(t)),
           f.at \in LinkLabels => Top(t).at \in LinkLabels \/ errors = 0,
           NEW d, OptQueued(d), opt_left' = opt_left + d,
           opt_left' # 0 => f.at \in OptWaits,
           \A s \in Sources : \/ Reached(s) \subseteq Reached(s)'
                              \/ ~Live(s) /\ ("done" \in Reached(s) => "done" \in Reached(s)')
    PROVE  GInv'
  <1>1. /\ Where /\ Held /\ Where' /\ Held' /\ args \in Builds /\ queue \in Seq(Queued)
        /\ Sources' = Sources
    BY SameBuild DEF IInv, Where, Typed, Held
  <1>2. t = Main /\ Len(stack[t]) = 1 /\ stack[t][1] = Top(t)
    BY <1>1, SubmitDepIsRoot
  <1>3. /\ Keeps(t, Swap(stack[t], f)) /\ Frames' \subseteq Frames \cup {f}
        /\ Len(stack'[t]) = 1 /\ stack'[t][1] = f /\ stack'[t] # << >>
        /\ \A u \in Threads : u # t => stack'[u] = stack[u]
    BY <1>1, <1>2, TurnShape
  <1>4. /\ \A L : RootAt(L)' <=> f.at \in L
        /\ \A L : RootAt(L) <=> Top(t).at \in L
    BY <1>2, <1>3 DEF RootAt
  <1>5. \A s : ToCome(s)' <=> ToCome(s)
    BY <1>2, <1>3, SameBuild DEF ToCome
  <1>6. /\ \A g \in Jobs' : g \in Jobs \/ Owned(g)
        /\ \A s : At(queue', s) = At(queue, s)
        /\ Cardinality(Spots(queue, {"opt"}))' = Cardinality(Spots(queue, {"opt"})) + d
        /\ Cardinality(Spots(queue, {"opt"})) \in Nat /\ d \in {0, 1}
    BY <1>1, OptQueuedKeeps
  <1>7. JobsOwned'
    <2>1. Owned(f)
      BY LabelSets DEF Owned, CallLabels
    <2>2. \A g \in (Frames \cup Jobs)' : Owned(g)
      BY <2>1, <1>3, <1>6 DEF GInv, JobsOwned
    <2> QED
      BY <2>2, OwnedSame DEF JobsOwned
  <1>8. BeganClean' /\ AddedOnce'
    BY <1>4 DEF GInv, BeganClean, AddedOnce
  <1>9. Staged'
    <2>1. \A s : At(stack'[t], s) = {} /\ At(stack[t], s) = {}
      BY <1>2, <1>3, LabelSets DEF At
    <2>2. ASSUME NEW s \in Sources
          PROVE  StagedAt(s)'
      <3>1. /\ \A u \in Threads : At(stack'[u], s) = At(stack[u], s) /\
                 \A k \in At(stack[u], s) : stack'[u][k].at = stack[u][k].at
            /\ StagedAt(s)
        BY <1>3, <2>1 DEF GInv, Staged
      <3>2. Live(s)' <=> Live(s)
        BY <3>1, <1>5, <1>6 DEF Live
      <3>3. CASE Reached(s) \subseteq Reached(s)'
        BY <3>1, <3>2, <3>3, <1>5, <1>6, StagedSame
      <3>4. CASE ~Live(s) /\ ("done" \in Reached(s) => "done" \in Reached(s)')
        <4>1. "done" \in Reached(s)'
          BY <3>1, <3>4 DEF StagedAt
        <4>2. ~(ToCome(s) \/ At(queue, s) # {})'
          BY <3>2, <3>4 DEF Live
        <4>3. \A u \in Threads : At(stack'[u], s) = {}
          BY <3>2, <3>4 DEF Live
        <4> QED
          BY <4>1, <4>2, <4>3 DEF StagedAt
      <3> QED
        BY <3>3, <3>4
    <2> QED
      BY <2>2, <1>1 DEF Staged
  <1>10. OptCounted'
    <2>1. Top(t).at \notin {"opt"} /\ f.at \notin {"opt"}
      BY LabelSets
    <2>2. stack' = [stack EXCEPT ![t] = Swap(stack[t], f)]
      BY <1>3 DEF Keeps
    <2>3. Cardinality(On({"opt"}))' =
            (Cardinality(On({"opt"})) + One(f.at \in {"opt"})) - One(Top(t).at \in {"opt"})
      BY ONLY t \in Threads, stack[t] # << >>, f \in Calls, <1>1, <2>2, PendingSwapped
    <2>4. One(f.at \in {"opt"}) = 0 /\ One(Top(t).at \in {"opt"}) = 0
      BY <2>1 DEF One
    <2>5. Cardinality(On({"opt"})) \in Nat
      BY <1>1, OnFinite
    <2>6. Pending({"opt"})' = Pending({"opt"}) + d
      BY <1>6, <2>3, <2>4, <2>5 DEF Pending
    <2> QED
      BY <1>4, <2>6 DEF GInv, OptCounted
  <1> QED
    BY <1>7, <1>8, <1>9, <1>10 DEF GInv

\* futex_signal ends a job, and may wake the main thread.
Woken(f, g) ==
    f.at = "asleep" /\ g.at \in {"wait_opt", "futex"} /\ g.step = f.step

SignalEffect ==
    /\ \A u \in Threads : \A k \in 1 .. Len(stack'[u]) :
          /\ k \in 1 .. Len(stack[u])
          /\ stack'[u][k] = stack[u][k] \/ Woken(stack[u][k], stack'[u][k])
    /\ \A u \in Threads : \A k \in 1 .. Len(stack[u]) :
          k \in 1 .. Len(stack'[u]) \/ stack[u][k].at = "signal"
    /\ Len(stack[Main]) > 0 /\ stack[Main][1].at \in RootLabels => Len(stack'[Main]) > 0

\* A list whose innermost call gives way to one like it.
LEMMA WokenThere ==
    ASSUME NEW S, NEW q \in Seq(S), q # << >>, NEW f \in S, Woken(q[Len(q)], f),
           NEW r, r = Swap(q, f)
    PROVE  /\ Len(r) = Len(q)
           /\ \A k \in 1 .. Len(q) : r[k] = q[k] \/ Woken(q[k], r[k])
  <1>1. /\ Len(r) = Len(q) /\ Len(q) \in Nat \ {0}
        /\ \A k \in 1 .. Len(q) : r[k] = IF k = Len(q) THEN f ELSE q[k]
    <2>1. /\ Swap(q, f) \in Seq(S) /\ Len(Swap(q, f)) = Len(q) /\ Swap(q, f) # << >>
          /\ Len(q) \in Nat \ {0}
          /\ \A k \in 1 .. Len(q) : Swap(q, f)[k] = IF k = Len(q) THEN f ELSE q[k]
      BY ONLY q \in Seq(S), q # << >>, f \in S, Swapped
    <2> QED
      BY <2>1, Zenon
  <1> QED
    BY <1>1

LEMMA SignalShape ==
    ASSUME Held, RootIsFirst, NEW t \in Threads, FutexSignal(t)
    PROVE  SignalEffect
  <1> DEFINE W(u) == [Top(u) EXCEPT !.at = IF opt_left # Top(u).lo THEN "wait_opt" ELSE "futex"]
             new(u) == IF u = t THEN Cut(stack[u])
                       ELSE IF Active(u, "asleep") THEN Swap(stack[u], W(u)) ELSE stack[u]
  <1>1. /\ stack[t] # << >> /\ Top(t).at = "signal"
        /\ stack' = [u \in Threads |-> new(u)]
    BY DEF FutexSignal, Active, Below, Cut, Swap
  <1> HIDE DEF new
  <1>2. ASSUME NEW u \in Threads
        PROVE  /\ \A k \in 1 .. Len(new(u)) :
                     /\ k \in 1 .. Len(stack[u])
                     /\ new(u)[k] = stack[u][k] \/ Woken(stack[u][k], new(u)[k])
               /\ \A k \in 1 .. Len(stack[u]) :
                     k \in 1 .. Len(new(u)) \/ stack[u][k].at = "signal"
    <2> DEFINE q == stack[u]
               r == new(u)
    <2>1. q \in Seq(Calls) /\ Len(q) \in Nat /\ Top(u) = q[Len(q)]
      BY DEF Held, Top
    <2>2. CASE u = t
      <3>1. r = Cut(q) /\ q # << >> /\ q[Len(q)].at = "signal"
        BY <2>1, <2>2, <1>1 DEF new
      <3> HIDE DEF q, r
      <3>2. /\ Len(r) = Len(q) - 1 /\ Len(q) \in Nat \ {0}
            /\ \A k \in 1 .. Len(q) - 1 : r[k] = q[k]
        BY <2>1, <3>1, Popped
      <3>3. /\ \A k \in 1 .. Len(r) : k \in 1 .. Len(q) /\ r[k] = q[k]
            /\ \A k \in 1 .. Len(q) : k \in 1 .. Len(r) \/ k = Len(q)
        BY <3>2
      <3> QED
        BY <3>1, <3>3 DEF q, r
    <2>3. CASE u # t /\ Active(u, "asleep")
      <3> DEFINE f == W(u)
                 g == q[Len(q)]
      <3>1. r = Swap(q, f) /\ q # << >> /\ g.at = "asleep" /\ g \in Calls
        BY <2>1, <2>3 DEF new, Active
      <3>2. f \in Calls /\ Woken(g, f)
        <4> DEFINE l == IF opt_left # g.lo THEN "wait_opt" ELSE "futex"
        <4>1. l \in {"wait_opt", "futex"} /\ f = [g EXCEPT !.at = l]
          BY <2>1
        <4> HIDE DEF g, l, f
        <4>2. f \in Calls /\ f.at = l /\ f.step = g.step
          BY <3>1, <4>1 DEF Calls, Labels, CompileLabels
        <4> QED
          BY <3>1, <4>1, <4>2 DEF Woken
      <3>3. q \in Seq(Calls) /\ q # << >> /\ f \in Calls /\ r = Swap(q, f) /\ Woken(q[Len(q)], f)
        BY <2>1, <3>1, <3>2
      <3> HIDE DEF q, r, f, g, W
      <3>4. /\ Len(r) = Len(q)
            /\ \A k \in 1 .. Len(q) : r[k] = q[k] \/ Woken(q[k], r[k])
        BY ONLY <3>3, WokenThere
      <3> QED
        BY <3>4 DEF q, r
    <2>4. CASE u # t /\ ~Active(u, "asleep")
      BY <2>4 DEF new
    <2> QED
      BY <2>2, <2>3, <2>4
  <1>3. \A u \in Threads : stack'[u] = new(u)
    BY <1>1
  <1>4. \A u \in Threads : Len(stack[u]) \in Nat
    BY DEF Held
  <1>5. /\ \A u \in Threads : \A k \in 1 .. Len(stack'[u]) :
             /\ k \in 1 .. Len(stack[u])
             /\ stack'[u][k] = stack[u][k] \/ Woken(stack[u][k], stack'[u][k])
        /\ \A u \in Threads : \A k \in 1 .. Len(stack[u]) :
             k \in 1 .. Len(stack'[u]) \/ stack[u][k].at = "signal"
    BY <1>2, <1>3
  <1>6. "signal" \notin RootLabels
    BY LabelSets
  <1>7. Len(stack[Main]) > 0 /\ stack[Main][1].at \in RootLabels => Len(stack'[Main]) > 0
    <2>1. Main \in Threads
      BY DEF Threads
    <2>2. SUFFICES ASSUME Len(stack[Main]) > 0, stack[Main][1].at \in RootLabels
                   PROVE  Len(stack'[Main]) > 0
      OBVIOUS
    <2>3. 1 \in 1 .. Len(stack[Main])
      BY <1>4, <2>1, <2>2
    <2>4. 1 \in 1 .. Len(stack'[Main])
      BY <1>5, <1>6, <2>1, <2>2, <2>3
    <2> QED
      BY <2>4
  <1> QED
    BY <1>5, <1>7 DEF SignalEffect

LEMMA SpotsSame ==
    ASSUME NEW L, \A u \in Threads : Spots(stack'[u], L) = Spots(stack[u], L)
    PROVE  On(L)' = On(L)
  <1>1. \A p : p \in On(L) <=> \E u \in Threads : \E k \in Spots(stack[u], L) : p = <<u, k>>
    BY DEF On
  <1>2. \A p : p \in On(L)' <=> \E u \in Threads : \E k \in Spots(stack'[u], L) : p = <<u, k>>
    BY DEF On
  <1> QED
    BY <1>1, <1>2

LEMMA SignalSpots ==
    ASSUME SignalEffect, NEW L, "signal" \notin L, "asleep" \notin L, "wait_opt" \notin L,
           "futex" \notin L
    PROVE  /\ \A u \in Threads : Spots(stack'[u], L) = Spots(stack[u], L)
           /\ On(L)' = On(L)
  <1>1. ASSUME NEW u \in Threads
        PROVE  Spots(stack'[u], L) = Spots(stack[u], L)
    <2>1. \A k \in 1 .. Len(stack'[u]) :
            k \in 1 .. Len(stack[u]) /\ (stack'[u][k].at \in L <=> stack[u][k].at \in L)
      BY DEF SignalEffect, Woken
    <2>2. \A k \in 1 .. Len(stack[u]) : k \in 1 .. Len(stack'[u]) \/ stack[u][k].at \notin L
      BY DEF SignalEffect
    <2> QED
      BY <2>1, <2>2 DEF Spots
  <1> QED
    BY <1>1, SpotsSame

LEMMA SignalStays ==
    ASSUME IInv, IInv', GInv, NEW t \in Threads, FutexSignal(t)
    PROVE  GInv'
  <1>1. /\ Where /\ Held /\ Where' /\ Held' /\ args \in Builds /\ queue \in Seq(Queued)
        /\ Sources' = Sources /\ Calls' = Calls /\ RootIsFirst
        /\ UNCHANGED <<queue, args, errors, error_root, cu, allocated, is_free, opt_left>>
    BY SameBuild DEF IInv, Where, Typed, Held, FutexSignal, steps, units, ir
  <1>2. SignalEffect
    BY <1>1, SignalShape
  <1>3. ASSUME NEW L, "asleep" \in L <=> "wait_opt" \in L, "asleep" \in L <=> "futex" \in L
        PROVE  RootAt(L)' <=> RootAt(L)
    <2>1. /\ stack[Main] \in Seq(Calls) /\ stack'[Main] \in Seq(Calls) /\ Main \in Threads
      BY <1>1 DEF Held, Threads
    <2>2. stack[Main] # << >> => stack[Main][1].at \in RootLabels
      BY <1>1, <2>1 DEF RootIsFirst
    <2>3. stack[Main] # << >> <=> stack'[Main] # << >>
      BY <1>2, <2>1, <2>2 DEF SignalEffect
    <2>4. stack'[Main] # << >> => stack'[Main][1].at = stack[Main][1].at
                                  \/ Woken(stack[Main][1], stack'[Main][1])
      BY <1>2, <2>1 DEF SignalEffect
    <2> QED
      BY <1>3, <2>3, <2>4 DEF RootAt, Woken
  <1>4. RootAt(LinkLabels)' = RootAt(LinkLabels) /\ RootAt(OptWaits)' = RootAt(OptWaits)
    <2>1. (RootAt(LinkLabels)' <=> RootAt(LinkLabels)) /\ (RootAt(OptWaits)' <=> RootAt(OptWaits))
      BY <1>3 DEF LinkLabels, OptWaits
    <2> QED
      BY <2>1 DEF RootAt
  <1>5. JobsOwned'
    <2>1. \A f \in Frames' : f \in Frames \/ \E g \in Frames : Woken(g, f)
      BY <1>2 DEF SignalEffect, Frames
    <2>2. \A f \in Frames' : Owned(f)
      <3>1. \A g : Woken(g, g) => FALSE
        BY DEF Woken
      <3>2. ASSUME NEW f \in Frames', NEW g \in Frames, Woken(g, f)
            PROVE  Owned(f)
        <4>1. Owned(g) /\ g.at \in RootLabels
          BY <3>2 DEF GInv, JobsOwned, Woken, RootLabels, Labels, CompileLabels, JobLabels
        <4>2. f.step = Ld /\ f.at \notin IRLabels \cup {"submit_ir"}
          BY <3>2, <4>1 DEF Owned, Woken, IRLabels
        <4> QED
          BY <4>2 DEF Owned
      <3> QED
        BY <2>1, <3>2 DEF GInv, JobsOwned
    <2>3. \A g \in (Frames \cup Jobs)' : Owned(g)
      BY <1>1, <2>2 DEF GInv, JobsOwned, Jobs
    <2> QED
      BY <1>1, <2>3, OwnedSame DEF JobsOwned
  <1>6. BeganClean' /\ AddedOnce'
    BY <1>1, <1>4 DEF GInv, BeganClean, AddedOnce
  <1>7. Staged'
    <2>1. ASSUME NEW u \in Threads, NEW s \in Sources
          PROVE  /\ At(stack'[u], s) = At(stack[u], s)
                 /\ \A k \in At(stack[u], s) : stack'[u][k].at = stack[u][k].at
      <3>1. \A k \in 1 .. Len(stack'[u]) :
              /\ k \in 1 .. Len(stack[u])
              /\ \/ stack'[u][k] = stack[u][k]
                 \/ stack[u][k].at \notin CompileLabels /\ stack'[u][k].at \notin CompileLabels
        BY <1>2 DEF SignalEffect, Woken, CompileLabels
      <3>2. \A k \in 1 .. Len(stack[u]) :
              k \in 1 .. Len(stack'[u]) \/ stack[u][k].at \notin CompileLabels
        BY <1>2 DEF SignalEffect, CompileLabels
      <3> QED
        BY <3>1, <3>2 DEF At
    <2>2. \A s \in Sources : Reached(s) \subseteq Reached(s)'
      BY <1>1, ReachedSame
    <2>3. \A s \in Sources : ToCome(s)' <=> ToCome(s)
      <3> DEFINE L == {"submit"}
      <3>1. RootAt(L)' <=> RootAt(L)
        BY <1>3
      <3>2. stack[Main] \in Seq(Calls) /\ stack'[Main] \in Seq(Calls) /\ Main \in Threads
        BY <1>1 DEF Held, Threads
      <3>3. RootAt(L) => stack'[Main][1] = stack[Main][1]
        BY <1>2, <3>1, <3>2 DEF SignalEffect, Woken, RootAt
      <3>4. NSources' = NSources
        BY <1>1 DEF NSources
      <3>5. \A s \in Sources : ~(NSources < s)
        BY <1>1, BuildShape
      <3>6. \A s \in Sources : ToCome(s) <=> RootAt(L) /\ stack[Main][1].i < s
        BY <3>5 DEF ToCome, RootAt, Submitted
      <3>7. \A s \in Sources : ToCome(s)' <=> RootAt(L)' /\ stack'[Main][1].i < s
        BY <3>4, <3>5 DEF ToCome, RootAt, Submitted
      <3> QED
        BY <3>1, <3>3, <3>6, <3>7
    <2> QED
      BY <1>1, <2>1, <2>2, <2>3, NobodyStages DEF GInv
  <1>8. OptCounted'
    <2>1. On({"opt"})' = On({"opt"})
      BY <1>2, SignalSpots
    <2>2. Pending({"opt"})' = Pending({"opt"})
      BY <1>1, <2>1 DEF Pending
    <2> QED
      BY <1>1, <1>4, <2>2 DEF GInv, OptCounted
  <1> QED
    BY <1>5, <1>6, <1>7, <1>8 DEF GInv

\* The link step's call with the next source submitted.
Further(g, e) == [g EXCEPT !.i = e]

\* The link step's call at f submits e as d.
Submitting(t, e, d, f) ==
    /\ stack[t] # << >> /\ t = Main /\ Len(stack[t]) = 1 /\ stack[t][1] = Top(t)
    /\ e \in Sources /\ Top(t).at = "submit" /\ Top(t).i = e - 1
    /\ f \in Calls /\ f.at = "submit" /\ f.i = e /\ f.step = Top(t).step
    /\ d \in Queued /\ d \in Calls /\ d.at = "cpp" /\ d.step = e
    /\ \/ queue' = Append(queue, d) /\ Become(t, f)
       \/ queue' = queue /\ stack' = [stack EXCEPT ![t] = Push(Swap(stack[t], f), d)]
    /\ UNCHANGED <<args, errors, error_root, cu, allocated, is_free, opt_left>>

LEMMA SubmitShape ==
    ASSUME Where, args \in Builds, NEW t \in Threads, SubmitDep(t),
           NEW e, e = Top(t).i + 1, NEW d, d = Call("cpp", e), NEW f, f = Further(Top(t), e)
    PROVE  Submitting(t, e, d, f)
  <1> DEFINE g == Top(t)
  <1>1. /\ stack[t] # << >> /\ g.at = "submit" /\ g.i < NSources
        /\ UNCHANGED <<args, errors, error_root, cu, allocated, is_free, opt_left>>
    BY DEF SubmitDep, Active, steps, units, ir
  <1>2. /\ t = Main /\ Len(stack[t]) = 1 /\ stack[t][1] = Top(t) /\ stack[t] \in Seq(Calls)
        /\ g \in Calls
    BY <1>1, SubmitDepIsRoot DEF RootLabels, Labels, CompileLabels, JobLabels
  <1>3. e \in Sources /\ e \in Nat /\ g.i = e - 1 /\ e <= NSources
    BY <1>1, <1>2, BuildShape DEF Calls
  <1>4. d \in Queued /\ d \in Calls /\ d.at = "cpp" /\ d.step = e
    BY <1>3 DEF Call, Frame, Queued, Calls, Labels, CompileLabels, Steps
  <1>5. f \in Calls /\ f.at = "submit" /\ f.i = e /\ f.step = g.step
    <2>1. /\ g \in [at : Labels, step : Steps, i : Nat, tu : Nat, lo : Int, hi : Int]
          /\ g.at = "submit" /\ f = [g EXCEPT !.i = e]
      BY <1>1, <1>2 DEF Calls, Further
    <2> HIDE DEF g
    <2>2. /\ f \in [at : Labels, step : Steps, i : Nat, tu : Nat, lo : Int, hi : Int]
          /\ f.at = "submit" /\ f.i = e /\ f.step = g.step
      BY <2>1, <1>3
    <2> QED
      BY <2>2, <1>3 DEF Calls, CompileLabels
  <1>6. \/ queue' = Append(queue, d) /\ Become(t, f)
        \/ queue' = queue /\ stack' = [stack EXCEPT ![t] = Push(Swap(stack[t], f), d)]
    <2>1. CASE HasPool /\ NSources > 1
      BY <2>1 DEF SubmitDep, Submit, Further
    <2>2. CASE ~(HasPool /\ NSources > 1)
      <3>1. stack' = [stack EXCEPT ![t] = Below(t) \o <<f, d>>] /\ queue' = queue
        BY <2>2 DEF SubmitDep, Further
      <3>2. Cut(stack[t]) \in Seq(Calls)
        BY <1>1, <1>2, Popped
      <3>3. Cut(stack[t]) \o <<f, d>> = Append(Append(Cut(stack[t]), f), d)
        BY <3>2, <1>4, <1>5
      <3> QED
        BY <3>1, <3>3 DEF Push, Swap, Below, Cut
    <2> QED
      BY <2>1, <2>2
  <1> QED
    BY <1>1, <1>2, <1>3, <1>4, <1>5, <1>6 DEF Submitting

\* step_submit hands out the next source.
LEMMA SubmitStays ==
    ASSUME IInv, IInv', GInv, NEW t \in Threads, SubmitDep(t)
    PROVE  GInv'
  <1>1. /\ Where /\ Held /\ Where' /\ Held' /\ args \in Builds /\ queue \in Seq(Queued)
        /\ OnePlace /\ OnePlace'
    BY DEF IInv, Where, Typed, Held
  <1> DEFINE x == Top(t).i + 1
  <1>2. Submitting(t, x, Call("cpp", x), Further(Top(t), x))
    BY <1>1, SubmitShape
  <1> HIDE DEF x
  <1>3. PICK e, d, f : Submitting(t, e, d, f)
    BY <1>2
  <1>4. /\ stack[t] # << >> /\ t = Main /\ Len(stack[t]) = 1 /\ stack[t][1] = Top(t)
        /\ e \in Sources /\ Top(t).at = "submit" /\ Top(t).i = e - 1
        /\ f \in Calls /\ f.at = "submit" /\ f.i = e /\ f.step = Top(t).step
        /\ d \in Queued /\ d \in Calls /\ d.at = "cpp" /\ d.step = e
        /\ \/ queue' = Append(queue, d) /\ Become(t, f)
           \/ queue' = queue /\ stack' = [stack EXCEPT ![t] = Push(Swap(stack[t], f), d)]
        /\ UNCHANGED <<args, errors, error_root, cu, allocated, is_free, opt_left>>
    BY <1>3 DEF Submitting
  <1>5. ASSUME queue' = queue, stack' = [stack EXCEPT ![t] = Push(Swap(stack[t], f), d)]
        PROVE  /\ Frames' \subseteq Frames \cup {f, d}
               /\ Len(stack'[t]) = 2 /\ stack'[t][1] = f /\ stack'[t][2] = d
               /\ \A u \in Threads : u # t => stack'[u] = stack[u]
    <2>1. /\ Keeps(t, Push(Swap(stack[t], f), d)) /\ Frames' \subseteq Frames \cup {f, d}
          /\ Len(stack'[t]) = Len(stack[t]) + 1 /\ Len(stack[t]) \in Nat \ {0}
          /\ \A k \in 1 .. Len(stack[t]) :
                stack'[t][k] = IF k = Len(stack[t]) THEN f ELSE stack[t][k]
          /\ stack'[t][Len(stack[t]) + 1] = d
          /\ \A u \in Threads : u # t => stack'[u] = stack[u]
      BY ONLY t \in Threads, <1>1, <1>4, <1>5, CallShape
    <2> QED
      BY <1>4, <2>1
  <1>6. Sources' = Sources /\ NSources' = NSources /\ Sources \subseteq Nat
        /\ \A s \in Sources : s <= NSources
    BY <1>1, <1>4, SameBuild, BuildShape
  <1>7. /\ Frames' \subseteq Frames \cup {f, d} /\ stack'[t] # << >> /\ stack'[t][1] = f
        /\ \A u \in Threads : u # t => stack'[u] = stack[u]
        /\ \A g \in Jobs' : g \in Jobs \/ g = d
    <2>1. CASE queue' = Append(queue, d) /\ Become(t, f)
      <3>1. /\ Frames' \subseteq Frames \cup {f} /\ Len(stack'[t]) = 1 /\ stack'[t][1] = f
            /\ \A u \in Threads : u # t => stack'[u] = stack[u]
            /\ stack'[t] # << >>
        BY <1>1, <1>4, <2>1, TurnShape
      <3>2. \A g \in Jobs' : g \in Jobs \/ g = d
        BY <1>1, <1>4, <2>1 DEF Jobs
      <3> QED
        BY <3>1, <3>2
    <2>2. CASE queue' = queue /\ stack' = [stack EXCEPT ![t] = Push(Swap(stack[t], f), d)]
      <3>1. /\ Frames' \subseteq Frames \cup {f, d} /\ Len(stack'[t]) = 2 /\ stack'[t][1] = f
            /\ \A u \in Threads : u # t => stack'[u] = stack[u]
        BY <1>5, <2>2
      <3> QED
        BY <3>1, <2>2 DEF Jobs
    <2> QED
      BY <1>4, <2>1, <2>2
  <1>8. \A L : (RootAt(L)' <=> "submit" \in L) /\ (RootAt(L) <=> "submit" \in L)
    BY <1>4, <1>7 DEF RootAt
  <1>9. JobsOwned'
    <2>1. Owned(f) /\ Owned(d)
      <3>1. Top(t) \in Frames
        BY <1>4 DEF Frames
      <3>2. Owned(Top(t)) /\ Top(t).at \in RootLabels
        BY <1>4, <3>1 DEF GInv, JobsOwned, RootLabels, Labels, CompileLabels, JobLabels
      <3> QED
        BY <1>4, <3>2, OwnedCompile DEF Owned, IRLabels, CompileLabels
    <2>2. \A g \in (Frames \cup Jobs)' : Owned(g)
      BY <1>7, <2>1 DEF GInv, JobsOwned
    <2> QED
      BY <1>4, <2>2, OwnedSame DEF JobsOwned
  <1>10. BeganClean' /\ AddedOnce'
    BY <1>4, <1>8, LabelSets DEF GInv, BeganClean, AddedOnce
  <1>11. \A s \in Sources : (ToCome(s) <=> e - 1 < s) /\ (ToCome(s)' <=> e < s)
    BY <1>4, <1>6, <1>7, SameBuild DEF ToCome, Submitted
  <1>12. ToCome(e) /\ ~ToCome(e)'
    <2>1. e \in Nat
      BY <1>4, <1>6
    <2> QED
      BY <1>4, <1>11, <2>1
  <1>13. \A s \in Sources : Reached(s) \subseteq Reached(s)'
    BY <1>4, ReachedSame
  <1>14. \A s : At(stack[t], s) = {}
    BY <1>4 DEF At, CompileLabels
  <1>15. ASSUME NEW s \in Sources, s # e
         PROVE  StagedAt(s)'
    <2>1. At(stack'[t], s) = {} /\ At(queue', s) = At(queue, s)
      <3>1. CASE queue' = Append(queue, d) /\ Become(t, f)
        <4>1. Len(stack'[t]) = 1 /\ stack'[t][1] = f
          BY <1>1, <1>4, <3>1, TurnShape
        <4>2. At(queue', s) = At(queue, s)
          BY <1>1, <1>4, <1>15, <3>1, AtPushed DEF Push
        <4> QED
          BY <1>4, <4>1, <4>2 DEF At, CompileLabels
      <3>2. CASE queue' = queue /\ stack' = [stack EXCEPT ![t] = Push(Swap(stack[t], f), d)]
        <4>1. Len(stack'[t]) = 2 /\ stack'[t][1] = f /\ stack'[t][2] = d
          BY <1>5, <3>2
        <4> QED
          BY <1>4, <1>15, <3>2, <4>1 DEF At, CompileLabels
      <3> QED
        BY <1>4, <3>1, <3>2
    <2>2. \A u \in Threads : At(stack'[u], s) = At(stack[u], s) /\
            \A k \in At(stack[u], s) : stack'[u][k].at = stack[u][k].at
      BY <1>7, <1>14, <2>1
    <2>3. ToCome(s)' <=> ToCome(s)
      BY <1>4, <1>6, <1>11, <1>15
    <2>4. Live(s) => Live(s)'
      BY <2>1, <2>2, <2>3 DEF Live
    <2>5. StagedAt(s)
      BY DEF GInv, Staged
    <2> QED
      BY <1>13, <2>1, <2>2, <2>3, <2>4, <2>5, StagedSame
  <1>16. StagedAt(e)'
    <2>1. "cpp" \in Reached(e)'
      BY <1>4, <1>12, <1>13 DEF GInv, Staged, StagedAt
    <2>2. At(queue, e) = {} /\ \A u \in Threads : At(stack[u], e) = {}
      BY <1>1, <1>4, <1>12 DEF OnePlace, InOnePlace
    <2>3. CASE queue' = Append(queue, d) /\ Become(t, f)
      <3>1. Len(stack'[t]) = 1 /\ stack'[t][1] = f
        BY <1>1, <1>4, <2>3, TurnShape
      <3>2. \A u \in Threads : At(stack'[u], e) = {}
        BY <1>4, <1>7, <2>2, <3>1 DEF At, CompileLabels
      <3>3. At(queue', e) = {Len(queue) + 1}
        BY <1>1, <1>4, <2>2, <2>3, AtPushed DEF Push, CompileLabels
      <3>4. Live(e)'
        BY <3>3 DEF Live
      <3> QED
        BY <2>1, <3>2, <3>4 DEF StagedAt
    <2>4. CASE queue' = queue /\ stack' = [stack EXCEPT ![t] = Push(Swap(stack[t], f), d)]
      <3>1. Len(stack'[t]) = 2 /\ stack'[t][1] = f /\ stack'[t][2] = d
        BY <1>5, <2>4
      <3>2. 2 \in At(stack'[t], e) /\ stack'[t][2].at \in Reached(e)'
        BY <1>4, <2>1, <3>1 DEF At, CompileLabels
      <3>3. InOnePlace(e)'
        BY <1>1, <1>4, <1>6 DEF OnePlace
      <3>4. Only(e, t, 2)'
        BY <3>2, <3>3 DEF Only
      <3> QED
        BY <3>4, StagedThen
    <2> QED
      BY <1>4, <2>3, <2>4
  <1>17. Staged'
    BY <1>6, <1>15, <1>16 DEF Staged
  <1>18. OptCounted'
    <2> DEFINE L == {"opt"}
    <2>1. f.at \notin L /\ d.at \notin L /\ Top(t).at \notin L
      BY <1>4
    <2>2. Cardinality(On(L)) \in Nat /\ Cardinality(Spots(queue, L)) \in Nat
      BY <1>1, OnFinite, SpotsFinite
    <2> HIDE DEF L
    <2>3. Pending(L)' = Pending(L)
      <3>1. CASE queue' = Append(queue, d) /\ Become(t, f)
        <4>1. stack' = [stack EXCEPT ![t] = Swap(stack[t], f)]
          BY <1>1, <1>4, <3>1, TurnShape DEF Keeps
        <4>2. Cardinality(On(L))' = (Cardinality(On(L)) + One(f.at \in L)) - One(Top(t).at \in L)
          BY ONLY t \in Threads, <1>1, <1>4, <4>1, PendingSwapped
        <4>3. Cardinality(Spots(queue, L))' = Cardinality(Spots(queue, L)) + One(d.at \in L)
          BY ONLY <1>1, <1>4, <3>1, JobPosted
        <4>4. One(f.at \in L) = 0 /\ One(d.at \in L) = 0 /\ One(Top(t).at \in L) = 0
          BY <2>1 DEF One
        <4> QED
          BY <2>2, <4>2, <4>3, <4>4 DEF Pending
      <3>2. CASE queue' = queue /\ stack' = [stack EXCEPT ![t] = Push(Swap(stack[t], f), d)]
        <4>1. On(L)' = On(L)
          BY ONLY t \in Threads, <1>1, <1>4, <2>1, <3>2, PendingCalled
        <4> QED
          BY <3>2, <4>1 DEF Pending
      <3> QED
        BY <1>4, <3>1, <3>2
    <2> QED
      BY <1>4, <1>8, <2>3 DEF GInv, OptCounted, L
  <1> QED
    BY <1>9, <1>10, <1>17, <1>18 DEF GInv

\* A job is taken from the queue, by an idle worker or by a thread that waits.
LEMMA TakingStays ==
    ASSUME IInv, IInv', GInv, NEW t \in Threads, stack[t] # << >> \/ t # Main, queue # << >>,
           stack' = [stack EXCEPT ![t] = Push(stack[t], Head(queue))], queue' = Tail(queue),
           UNCHANGED <<args, errors, error_root, cu, allocated, is_free, opt_left>>
    PROVE  GInv'
  <1> DEFINE q == stack[t]
             h == Head(queue)
  <1>1. /\ Where /\ Held /\ Where' /\ Held' /\ args \in Builds /\ queue \in Seq(Queued)
        /\ OnePlace' /\ q \in Seq(Calls) /\ Len(q) \in Nat /\ Sources' = Sources
    BY SameBuild DEF IInv, Where, Typed, Held
  <1>2. /\ h = queue[1] /\ h \in Queued /\ h \in Calls /\ 1 \in 1 .. Len(queue)
        /\ Len(queue') = Len(queue) - 1 /\ \A k \in 1 .. Len(queue') : queue'[k] = queue[k + 1]
    BY <1>1, Taken DEF Queued
  <1>3. PICK n : n = Len(q) + 1
    OBVIOUS
  <1>4. /\ stack'[t] = Push(q, h) /\ Len(stack'[t]) = n /\ stack'[t][n] = h
        /\ \A k \in 1 .. Len(q) : stack'[t][k] = q[k]
        /\ \A u \in Threads : u # t => stack'[u] = stack[u]
    <2> HIDE DEF h, q
    <2>1. stack'[t] = Push(q, h) /\ \A u \in Threads : u # t => stack'[u] = stack[u]
      BY <1>1 DEF Held, h, q
    <2>2. /\ Push(q, h) \in Seq(Calls) /\ Len(Push(q, h)) = Len(q) + 1 /\ Len(q) \in Nat
          /\ Push(q, h) # << >>
          /\ \A k \in 1 .. Len(q) : Push(q, h)[k] = q[k]
          /\ Push(q, h)[Len(q) + 1] = h
      <3>1. q \in Seq(Calls) /\ h \in Calls
        BY <1>1, <1>2
      <3> QED
        BY ONLY <3>1, Pushed, SMTT(30)
    <2> QED
      BY <2>1, <2>2, <1>3, Zenon
  <1> HIDE DEF h, q
  <1>5. /\ \A s : At(stack'[t], s) = IF h.at \in CompileLabels /\ h.step = s
                                     THEN At(q, s) \cup {n} ELSE At(q, s)
        /\ \A s : \A k : k \in At(queue', s) <=> k \in Nat \ {0} /\ k + 1 \in At(queue, s)
    <2>1. q \in Seq(Calls) /\ h \in Calls /\ queue \in Seq(Queued)
      BY <1>1, <1>2
    <2>2. \A s : At(Push(q, h), s) = IF h.at \in CompileLabels /\ h.step = s
                                    THEN At(q, s) \cup {Len(q) + 1} ELSE At(q, s)
      BY ONLY <2>1, AtPushed
    <2>3. \A s : \A k : k \in At(Tail(queue), s) <=> k \in Nat \ {0} /\ k + 1 \in At(queue, s)
      BY <2>1, AtTaken
    <2> QED
      BY <1>3, <1>4, <2>2, <2>3
  <1>6. Main \in Threads /\ (stack[Main] # << >> <=> stack'[Main] # << >>)
        /\ (stack[Main] # << >> => stack'[Main][1] = stack[Main][1])
    <2>1. Main \in Threads
      BY DEF Threads
    <2>2. CASE t = Main
      BY <2>2, <1>1, <1>4, <1>3 DEF q
    <2>3. CASE t # Main
      BY <2>1, <2>3, <1>4
    <2> QED
      BY <2>1, <2>2, <2>3
  <1>7. /\ \A L : RootAt(L)' <=> RootAt(L)
        /\ \A s : ToCome(s)' <=> ToCome(s)
    BY <1>6, SameBuild DEF RootAt, ToCome
  <1>8. JobsOwned'
    <2>1. \A g \in Jobs' : g \in Jobs
      <3>1. Len(queue) \in Nat
        BY <1>1
      <3> QED
        BY <1>2, <3>1 DEF Jobs
    <2>2. \A g \in Frames' : g \in Frames \/ g = h
      <3>1. \A u \in Threads : \A k \in 1 .. Len(stack'[u]) :
              (k \in 1 .. Len(stack[u]) /\ stack'[u][k] = stack[u][k]) \/ stack'[u][k] = h
        BY <1>1, <1>4, <1>3 DEF q
      <3> QED
        BY <3>1 DEF Frames
    <2>3. h \in Jobs
      BY <1>2 DEF Jobs
    <2>4. \A g \in (Frames \cup Jobs)' : Owned(g)
      BY <2>1, <2>2, <2>3 DEF GInv, JobsOwned
    <2> QED
      BY <2>4, OwnedSame DEF JobsOwned
  <1>9. BeganClean' /\ AddedOnce'
    BY <1>7 DEF GInv, BeganClean, AddedOnce
  <1>10. ASSUME NEW s \in Sources
        PROVE  StagedAt(s)'
    <2>1. Reached(s) \subseteq Reached(s)' /\ StagedAt(s)
      BY ReachedSame DEF GInv, Staged
    <2>2. CASE h.at \in CompileLabels /\ h.step = s
      <3>1. h.at = "cpp" /\ 1 \in At(queue, s)
        BY <1>2, <2>2 DEF Queued, CompileLabels, At
      <3>2. "cpp" \in Reached(s)'
        BY <2>1, <3>1 DEF StagedAt
      <3>3. n \in At(stack'[t], s) /\ stack'[t][n].at \in Reached(s)'
        <4>1. At(stack'[t], s) = At(q, s) \cup {n}
          BY <1>5, <2>2
        <4>2. n \in At(stack'[t], s)
          BY <4>1
        <4>3. stack'[t][n].at = "cpp"
          BY <1>4, <3>1
        <4> QED
          BY <4>2, <4>3, <3>2
      <3>4. InOnePlace(s)'
        BY <1>1 DEF OnePlace
      <3>5. Only(s, t, n)'
        BY <3>3, <3>4 DEF Only
      <3> QED
        BY <3>5, StagedThen
    <2>3. CASE ~(h.at \in CompileLabels /\ h.step = s)
      <3>1. At(stack'[t], s) = At(stack[t], s) /\ \A k \in At(stack[t], s) : k \in 1 .. Len(q)
        <4>1. At(stack'[t], s) = At(q, s)
          BY <1>5, <2>3
        <4> QED
          BY <4>1 DEF q, At
      <3>2. \A u \in Threads : At(stack'[u], s) = At(stack[u], s) /\
              \A k \in At(stack[u], s) : stack'[u][k].at = stack[u][k].at
        BY <1>4, <3>1 DEF q
      <3>3. 1 \notin At(queue, s) /\ At(queue, s) \subseteq Nat \ {0}
        BY <1>2, <2>3 DEF At
      <3>4. At(queue', s) # {} => At(queue, s) # {}
        BY <1>5
      <3>5. At(queue, s) # {} => At(queue', s) # {}
        <4>1. ASSUME NEW k \in At(queue, s)
              PROVE  k - 1 \in At(queue', s)
          <5>1. k \in Nat /\ k # 0 /\ k # 1
            BY <3>3
          <5>2. k - 1 \in Nat \ {0} /\ (k - 1) + 1 = k
            BY <5>1
          <5> QED
            BY <1>5, <5>2
        <4> QED
          BY <4>1
      <3>6. Live(s) => Live(s)'
        BY <1>7, <3>2, <3>5 DEF Live
      <3> QED
        BY <1>7, <2>1, <3>2, <3>4, <3>6, StagedSame
    <2> QED
      BY <2>2, <2>3
  <1>11. OptCounted'
    <2>1. Pending({"opt"})' = Pending({"opt"})
      BY <1>1, PendingTaken
    <2> QED
      BY <1>7, <2>1 DEF GInv, OptCounted
  <1> QED
    BY <1>1, <1>8, <1>9, <1>10, <1>11 DEF GInv, Staged

-----------------------------------------------------------------------------
(* The steps of the program                                                 *)

\* A call that goes on to another label.
LEMMA GotoCall ==
    ASSUME Where, NEW t \in Threads, stack[t] # << >>, NEW l, SameKind(l, Top(t).at),
           l \notin {"submit", "next_unit", "submit_ir"}, Goto(t, l)
    PROVE  \E f \in Calls : /\ Become(t, f) /\ f.at = l /\ f.step = Top(t).step
                            /\ f.i = Top(t).i /\ f.tu = Top(t).tu
                            /\ f.lo = Top(t).lo /\ f.hi = Top(t).hi
  <1> DEFINE g == Top(t)
             f == [g EXCEPT !.at = l]
  <1>1. g \in Calls /\ Become(t, f)
    BY TopCall DEF Goto
  <1>2. l \in Labels /\ (l \in CompileLabels => g.at \in CompileLabels)
    BY DEF SameKind, CompileLabels, JobLabels, RootLabels, Labels
  <1> HIDE DEF g
  <1>3. /\ f \in Calls /\ f.at = l /\ f.step = g.step /\ f.i = g.i /\ f.tu = g.tu
        /\ f.lo = g.lo /\ f.hi = g.hi
    BY <1>1, <1>2 DEF Calls
  <1> HIDE DEF f
  <1> QED
    BY <1>1, <1>3 DEF g

\* What the compile step on top of thread t's calls has done.
LEMMA TopStage ==
    ASSUME IInv, GInv, NEW t \in Threads, stack[t] # << >>, Top(t).at \in CompileLabels
    PROVE  /\ Top(t).step \in Sources /\ Top(t) \in Calls /\ Stage(Top(t).at, Top(t).step)
           /\ Live(Top(t).step) /\ InOnePlace(Top(t).step) /\ Owned(Top(t))
  <1>1. Where /\ Held /\ Top(t) \in Calls
    BY TopCall DEF IInv, Where
  <1>2. /\ Top(t).step \in Sources /\ Len(stack[t]) \in At(stack[t], Top(t).step)
        /\ Live(Top(t).step)
    BY <1>1, TopIsLive
  <1>3. stack[t][Len(stack[t])].at \in Reached(Top(t).step)
    BY <1>2 DEF GInv, Staged, StagedAt
  <1>4. Stage(Top(t).at, Top(t).step)
    BY <1>3 DEF Reached, Top
  <1>5. Top(t) \in Frames
    BY <1>2 DEF Frames, At, Top
  <1> QED
    BY <1>1, <1>2, <1>4, <1>5 DEF GInv, JobsOwned, Where, OnePlace

LEMMA CompileStepStays ==
    ASSUME IInv, IInv', GInv, NEW t \in Threads, CompileStep(t)
    PROVE  GInv'
  <1> DEFINE g == Top(t)
             e == g.step
  <1>1. (stack[t] # << >> /\ g.at \in CompileLabels \ (GenLabels \cup {"done"})) \/ StepDone(t)
    BY DEF CompileStep, Preprocess, AddToUnit, SemaCollect, SemaTypeCheck, AllocateIR, Active,
           CompileLabels, GenLabels
  <1>2. CASE StepDone(t)
    BY <1>2, StepOver DEF StepDone, Active, units, ir
  <1>3. SUFFICES ASSUME ~StepDone(t) PROVE GInv'
    BY <1>2
  <1>4. /\ stack[t] # << >> /\ g.at \in CompileLabels /\ e \in Sources /\ Stage(g.at, e)
        /\ Where /\ AddedOnce
    BY <1>1, <1>3, TopStage DEF IInv, GInv
  <1>5. PICK l :
          /\ Goto(t, l)
          /\ \/ l = "add" /\ g.at = "cpp" /\ UNCHANGED <<cu, allocated, error_root>>
             \/ /\ l = "collect" /\ g.at = "add" /\ cu' = Append(cu, e)
                /\ UNCHANGED <<allocated, error_root>>
             \/ l = "typecheck" /\ g.at = "collect" /\ UNCHANGED <<cu, allocated, error_root>>
             \/ /\ l = IF SyntaxOnly THEN "done" ELSE "allocate"
                /\ g.at = "typecheck" /\ UNCHANGED <<cu, allocated, error_root>>
             \/ /\ l = "count_ir" /\ g.at = "allocate" /\ allocated' = allocated \cup {e}
                /\ UNCHANGED <<cu, error_root>>
             \/ /\ l = "done" /\ g.at \in {"cpp", "typecheck"} /\ error_root' = error_root \cup {e}
                /\ UNCHANGED <<cu, allocated>>
    <2>1. CASE Preprocess(t)
      BY <2>1 DEF Preprocess, FailStep, Active, units, steps
    <2>2. CASE AddToUnit(t)
      BY <2>2 DEF AddToUnit, Active, units, steps
    <2>3. CASE SemaCollect(t)
      BY <2>3 DEF SemaCollect, Active, units, steps
    <2>4. CASE SemaTypeCheck(t)
      BY <2>4 DEF SemaTypeCheck, FailStep, Active, units, steps
    <2>5. CASE AllocateIR(t)
      BY <2>5 DEF AllocateIR, Active, units, steps
    <2> QED
      BY <1>3, <2>1, <2>2, <2>3, <2>4, <2>5 DEF CompileStep
  <1>6. SameKind(l, g.at) /\ l \notin {"submit", "next_unit", "submit_ir"} /\ l \in CompileLabels
    BY <1>4, <1>5 DEF SameKind, CompileLabels
  <1>7. PICK f \in Calls : Become(t, f) /\ f.at = l /\ f.step = Top(t).step
    BY <1>4, <1>5, <1>6, GotoCall
  <1>8. Owned(f) /\ f.at \in CompileLabels
    BY <1>6, <1>7, OwnedCompile
  <1>9. /\ UNCHANGED <<args, opt_left, queue, is_free>> /\ IRQueued
        /\ SyntaxOnly' = SyntaxOnly
    BY <1>3 DEF CompileStep, Preprocess, AddToUnit, SemaCollect, SemaTypeCheck, AllocateIR,
                FailStep, units, ir, IRQueued, SyntaxOnly
  <1>10. SUFFICES /\ AddedOnce'
                  /\ \A s \in Sources : s # f.step => Reached(s) \subseteq Reached(s)'
                  /\ f.at \in Reached(f.step)'
    BY <1>4, <1>7, <1>8, <1>9, <1>10, CompileTurn
  <1>11. PICK x : x = e
    OBVIOUS
  <1>12. SUFFICES /\ AddedOnce'
                  /\ \A s \in Sources : s # x => Reached(s) \subseteq Reached(s)'
                  /\ Stage(l, x)'
    BY <1>6, <1>7, <1>11, <1>12 DEF Reached
  <1> HIDE DEF e
  <1>13. Stage(g.at, x) /\ x \in Sources
    BY <1>4, <1>11 DEF e
  <1>14. CASE g.at = "add"
    <2>1. l = "collect" /\ cu' = Append(cu, x) /\ UNCHANGED <<error_root, allocated>>
      BY <1>5, <1>11, <1>14
    <2>2. cu \in Seq(Sources)
      BY DEF IInv, Typed
    <2>3. /\ Len(cu') = Len(cu) + 1 /\ Len(cu) \in Nat /\ cu'[Len(cu) + 1] = x
          /\ \A k \in 1 .. Len(cu) : cu'[k] = cu[k]
      BY <1>13, <2>1, <2>2
    <2>4. Added' = Added \cup {x}
      BY <2>3 DEF Added
    <2>5. x \notin Added /\ x \notin is_free
      BY <1>13, <1>14 DEF Stage
    <2>6. AddedOnce'
      BY <1>4, <2>3, <2>5 DEF AddedOnce, Added
    <2>7. \A s \in Sources : s # x => Reached(s) \subseteq Reached(s)'
      BY <1>9, <2>1, <2>4 DEF Reached, Stage
    <2>8. Stage(l, x)'
      BY <1>9, <2>1, <2>4, <2>5 DEF Stage, GenLabels
    <2> QED
      BY <2>6, <2>7, <2>8
  <1>15. CASE g.at # "add"
    <2>1. UNCHANGED cu /\ allocated \subseteq allocated' /\ error_root \subseteq error_root'
      BY <1>5, <1>15
    <2>2. Added' = Added /\ AddedOnce'
      BY <1>4, <2>1 DEF Added, AddedOnce
    <2>3. \A s \in Sources : Reached(s) \subseteq Reached(s)'
      BY <1>9, <2>1, <2>2 DEF Reached, Stage
    <2>4. Stage(l, x)'
      <3>1. CASE l = "done" /\ error_root' = error_root \cup {x}
        BY <1>9, <3>1 DEF Stage, GenLabels
      <3>2. CASE l = "count_ir" /\ allocated' = allocated \cup {x} /\ g.at = "allocate"
        BY <1>9, <1>13, <2>2, <3>2 DEF Stage, GenLabels
      <3>3. CASE /\ \/ l = "add" /\ g.at = "cpp"
                    \/ l = "typecheck" /\ g.at = "collect"
                    \/ l = (IF SyntaxOnly THEN "done" ELSE "allocate") /\ g.at = "typecheck"
                 /\ UNCHANGED <<allocated, error_root>>
        BY <1>9, <1>13, <2>2, <3>3 DEF Stage, GenLabels
      <3> QED
        BY <1>5, <1>11, <1>15, <3>1, <3>2, <3>3
    <2> QED
      BY <2>2, <2>3, <2>4
  <1> QED
    BY <1>14, <1>15

\* Without a pool irgen calls irgen_job itself.
LEMMA JobCalled ==
    ASSUME IInv, IInv', GInv,
           UNCHANGED <<queue, args, errors, error_root, cu, allocated, is_free, opt_left>>,
           NEW t \in Threads, stack[t] # << >>, Top(t).at \in CompileLabels,
           NEW f \in Calls, f.at = Top(t).at, f.step = Top(t).step, Owned(f),
           NEW g \in Calls, g.at = "ir", Owned(g),
           stack' = [stack EXCEPT ![t] = Push(Swap(stack[t], f), g)]
    PROVE  GInv'
  <1> DEFINE q == stack[t]
             r == Push(Swap(q, f), g)
  <1>1. /\ Where /\ Held /\ Where' /\ Held' /\ args \in Builds /\ queue \in Seq(Queued)
        /\ g.at \in JobLabels
    BY LabelSets DEF IInv, Where, Typed, Held, IRLabels
  <1>2. /\ Keeps(t, r) /\ Frames' \subseteq Frames \cup {f, g}
        /\ Len(stack'[t]) = Len(q) + 1 /\ Len(q) \in Nat \ {0}
        /\ \A k \in 1 .. Len(q) : stack'[t][k] = IF k = Len(q) THEN f ELSE q[k]
        /\ stack'[t][Len(q) + 1] = g
        /\ \A u \in Threads : u # t => stack'[u] = stack[u]
    BY ONLY t \in Threads, stack[t] # << >>, f \in Calls, g \in Calls, <1>1,
            stack' = [stack EXCEPT ![t] = Push(Swap(stack[t], f), g)], CallShape
  <1>3. /\ \A L : RootAt(L)' <=> RootAt(L)
        /\ \A s : ToCome(s)' <=> ToCome(s)
    <2>1. Top(t).at \notin RootLabels
      BY LabelSets
    <2> HIDE DEF r
    <2> QED
      BY <1>1, <1>2, <2>1, RootStays
  <1>4. JobsOwned'
    <2>1. \A h \in (Frames \cup Jobs)' : Owned(h)
      BY <1>2 DEF GInv, JobsOwned, Jobs
    <2> QED
      BY <2>1, OwnedSame DEF JobsOwned
  <1>5. BeganClean' /\ AddedOnce'
    BY <1>3 DEF GInv, BeganClean, AddedOnce
  <1>6. Staged'
    <2>1. ASSUME NEW s \in Sources
          PROVE  /\ At(stack'[t], s) = At(stack[t], s)
                 /\ \A k \in At(stack[t], s) : stack'[t][k].at = stack[t][k].at
      <3>1. \A k \in 1 .. Len(q) : stack'[t][k].at = q[k].at /\ stack'[t][k].step = q[k].step
        BY <1>2 DEF Top
      <3>2. stack'[t][Len(q) + 1].at \notin CompileLabels
        BY <1>1, <1>2, LabelSets
      <3>3. \A k \in 1 .. Len(stack'[t]) : k \in 1 .. Len(q) \/ k = Len(q) + 1
        BY <1>2
      <3> HIDE DEF q
      <3>4. At(stack'[t], s) = At(q, s)
        BY <1>2, <3>1, <3>2, <3>3 DEF At
      <3> QED
        BY <3>1, <3>4 DEF At, q
    <2>2. \A s \in Sources : Reached(s) \subseteq Reached(s)'
      BY ReachedSame
    <2> QED
      BY <1>2, <1>3, <2>1, <2>2, NobodyStages DEF GInv
  <1>7. OptCounted'
    <2> DEFINE L == {"opt"}
    <2>1. f.at \notin L /\ g.at \notin L /\ Top(t).at \notin L
      BY LabelSets
    <2> HIDE DEF L
    <2>2. On(L)' = On(L)
      BY ONLY <1>1, t \in Threads, stack[t] # << >>, f \in Calls, g \in Calls, <2>1,
              stack' = [stack EXCEPT ![t] = Push(Swap(stack[t], f), g)], PendingCalled
    <2> QED
      BY <1>3, <2>2 DEF GInv, OptCounted, Pending, L
  <1> QED
    BY <1>4, <1>5, <1>6, <1>7 DEF GInv

\* A compile step is at another label, with the same done.
LEMMA TurnOf ==
    ASSUME IInv, IInv', GInv, UNCHANGED <<args, opt_left, cu, allocated, is_free, error_root>>,
           IRQueued, NEW t \in Threads, stack[t] # << >>, NEW f \in Calls, Become(t, f),
           Top(t).at \in GenLabels, f.at \in GenLabels, f.step = Top(t).step, Owned(f)
    PROVE  GInv'
  <1>1. Stage(Top(t).at, f.step)
    BY TopStage, LabelSets
  <1>2. Added' = Added /\ SyntaxOnly' = SyntaxOnly /\ AddedOnce'
    BY DEF Added, SyntaxOnly, GInv, AddedOnce
  <1>3. Stage(f.at, f.step)'
    BY <1>1, <1>2 DEF Stage, GenLabels
  <1>4. \A s \in Sources : Reached(s) \subseteq Reached(s)'
    BY ReachedSame
  <1>5. /\ Top(t).at \in CompileLabels /\ f.at \in CompileLabels
    BY LabelSets
  <1>6. f.at \in Reached(f.step)'
    BY <1>3, <1>5 DEF Reached
  <1> QED
    BY <1>2, <1>4, <1>5, <1>6, CompileTurn

\* The parts of the frames the walk over the units goes through.
LEMMA AtUnitParts ==
    ASSUME NEW g \in Calls, NEW i
    PROVE  LET f == AtUnit(g, i) IN  f.i = i /\ f.tu = g.tu /\ f.lo = g.lo /\ f.hi = g.hi
  BY DEF Calls, AtUnit

LEMMA InUnitParts ==
    ASSUME NEW g \in Calls, NEW tu, NEW hi
    PROVE  LET f == InUnit(g, tu, hi) IN  f.i = g.i /\ f.tu = tu /\ f.lo = 1 /\ f.hi = hi
  BY DEF Calls, InUnit

LEMMA FromStmtParts ==
    ASSUME NEW g \in Calls, NEW lo
    PROVE  LET f == FromStmt(g, lo) IN  f.i = g.i /\ f.tu = g.tu /\ f.lo = lo /\ f.hi = g.hi
  BY DEF Calls, FromStmt

\* What SubmitIR does with the call on top of thread t's calls.
IRSubmitted(t, e, f, job) ==
    \/ Become(t, e) /\ queue' = queue /\ Top(t).lo > Top(t).hi
    \/ HasPool /\ Submit(job) /\ Become(t, f) /\ Top(t).lo <= Top(t).hi
    \/ /\ ~HasPool /\ stack' = [stack EXCEPT ![t] = Push(Swap(stack[t], f), job)]
       /\ queue' = queue /\ Top(t).lo <= Top(t).hi

\* The last statement of the batch that starts where irgen is.
LastOf(g) == IF HasPool THEN Min2(g.lo + IRBatch - 1, g.hi) ELSE g.hi

LEMMA SubmitIRShape ==
    ASSUME IInv, NEW t \in Threads, SubmitIR(t)
    PROVE  LET g == Top(t)
               f == FromStmt(g, LastOf(g) + 1)
               e == AtUnit(g, g.i + 1)
               job == IRJob(g.step, g.tu, g.lo, LastOf(g))
           IN  /\ stack[t] # << >> /\ g.at = "submit_ir" /\ g.step \in Sources
               /\ g \in Calls /\ LastOf(g) \in Int
               /\ UNCHANGED <<remaining, errors, error_root, args, cu, allocated, is_free,
                              left, opt_left, result>>
               /\ f \in Calls /\ f.at = "submit_ir" /\ f.step = g.step
               /\ f.i = g.i /\ f.tu = g.tu /\ f.lo = LastOf(g) + 1 /\ f.hi = g.hi
               /\ e \in Calls /\ e.at = "next_unit" /\ e.step = g.step /\ e.i = g.i + 1
               /\ job \in Queued /\ job.at = "ir" /\ job.step = g.step /\ job.tu = g.tu
               /\ IRSubmitted(t, e, f, job)
  <1> USE Unchanged
  <1> DEFINE g == Top(t)
             last == LastOf(g)
             f == FromStmt(g, last + 1)
             e == AtUnit(g, g.i + 1)
             job == IRJob(g.step, g.tu, g.lo, last)
  <1>1. /\ stack[t] # << >> /\ g.at = "submit_ir" /\ g \in Calls /\ stack[t] \in Seq(Calls)
        /\ UNCHANGED <<remaining, errors, error_root, args, cu, allocated, is_free,
                       left, opt_left, result>>
    BY DEF SubmitIR, Active, steps, units, ir, Where, Held
  <1>2. /\ g.step \in Sources /\ g.i \in Nat /\ g.tu \in Nat /\ g.lo \in Int /\ g.hi \in Int
        /\ g.i >= 1
    BY <1>1 DEF Calls, CompileLabels
  <1>3. last \in Int /\ last + 1 \in Int
    BY <1>2, BuildStepsAssumption DEF LastOf, Min2
  <1>4. \/ Become(t, e) /\ queue' = queue /\ g.lo > g.hi
        \/ HasPool /\ Submit(job) /\ Become(t, f) /\ g.lo <= g.hi
        \/ /\ ~HasPool /\ stack' = [stack EXCEPT ![t] = Below(t) \o <<f, job>>]
           /\ queue' = queue /\ g.lo <= g.hi
    BY DEF SubmitIR, AtUnit, FromStmt, LastOf
  <1> HIDE DEF last, g
  <1>5. /\ f \in Calls /\ f.at = g.at /\ f.step = g.step
        /\ f.i = g.i /\ f.tu = g.tu /\ f.lo = last + 1 /\ f.hi = g.hi
    <2>1. f \in Calls /\ f.at = g.at /\ f.step = g.step
      BY <1>1, <1>3, NextFrame
    <2>2. f.i = g.i /\ f.tu = g.tu /\ f.lo = last + 1 /\ f.hi = g.hi
      BY <1>1, FromStmtParts
    <2> QED
      BY <2>1, <2>2
  <1>6. e \in Calls /\ e.at = "next_unit" /\ e.step = g.step /\ e.i = g.i + 1
    <2>1. g.i + 1 \in Nat /\ g.i + 1 >= 1
      BY <1>2
    <2>2. e \in Calls /\ e.at = "next_unit" /\ e.step = g.step
      BY <1>1, <1>2, <2>1, UnitFrame
    <2>3. e.i = g.i + 1
      BY <1>1, AtUnitParts
    <2> QED
      BY <2>2, <2>3
  <1>7. job \in Queued /\ job.at = "ir" /\ job.step = g.step /\ job.tu = g.tu
    BY <1>2, <1>3, JobFrame DEF IRJob, Frame
  <1> HIDE DEF f, e, job
  <1>8. IRSubmitted(t, e, f, job)
    <2>1. Cut(stack[t]) \in Seq(Calls) /\ job \in Calls
      BY <1>1, <1>7, Popped DEF Queued
    <2>2. Below(t) \o <<f, job>> = Push(Swap(stack[t], f), job)
      BY <1>5, <2>1 DEF Below, Cut, Swap, Push
    <2> QED
      BY <1>4, <2>2 DEF IRSubmitted, g
  <1> QED
    BY <1>1, <1>2, <1>3, <1>5, <1>6, <1>7, <1>8 DEF g, last, f, e, job

LEMMA IRGenStays ==
    ASSUME IInv, IInv', GInv, NEW t \in Threads, IRGen(t)
    PROVE  GInv'
  <1> DEFINE g == Top(t)
  <1>1. Where /\ args \in Builds /\ cu \in Seq(Sources)
    BY DEF IInv, Typed
  <1>2. CASE CountIR(t)
    <2> DEFINE f == AtUnit(g, 1)
    <2>1. /\ stack[t] # << >> /\ g.at = "count_ir" /\ Become(t, f)
          /\ UNCHANGED <<queue, errors, error_root, args, cu, allocated, is_free, opt_left>>
      BY <1>2 DEF CountIR, Active, steps, units, AtUnit
    <2>2. g \in Calls /\ g.step \in Sources
      BY <2>1, TopStage DEF CompileLabels
    <2>3. f \in Calls /\ f.at = "next_unit" /\ f.step = g.step
      BY <2>2, UnitFrame
    <2> HIDE DEF f
    <2>4. Owned(f) /\ g.at \in GenLabels /\ f.at \in GenLabels
      BY <2>1, <2>3, OwnedCompile DEF CompileLabels, GenLabels
    <2> QED
      BY <2>1, <2>3, <2>4, TurnOf DEF IRQueued
  <1>3. CASE NextUnit(t)
    <2> DEFINE u == cu[g.i]
               n == StmtCount(u)
               f == InUnit(g, u, n)
    <2>1. /\ stack[t] # << >> /\ g.at = "next_unit" /\ Become(t, f) /\ g.i <= Len(cu)
          /\ UNCHANGED <<queue, errors, error_root, args, cu, allocated, is_free, opt_left>>
      BY <1>3 DEF NextUnit, Active, steps, units, ir, InUnit
    <2>2. g \in Calls /\ g.step \in Sources /\ g.i \in Nat /\ g.i >= 1
      BY <2>1, TopStage DEF CompileLabels, Calls
    <2>3. u \in Sources /\ u \in Nat
      BY <1>1, <2>1, <2>2, BuildShape
    <2>4. n \in Int
      BY <1>1, <2>3, BuildShape DEF StmtCount
    <2> HIDE DEF u, n
    <2>5. f \in Calls /\ f.at = "submit_ir" /\ f.step = g.step
      BY <2>2, <2>3, <2>4, StmtFrame
    <2>6. f.tu = u
      BY <2>2, InUnitParts
    <2> HIDE DEF f
    <2>7. Owned(f) /\ g.at \in GenLabels /\ f.at \in GenLabels
      BY <2>1, <2>3, <2>5, <2>6 DEF Owned, GenLabels, RootLabels, CompileLabels, IRLabels
    <2> QED
      BY <2>1, <2>5, <2>7, TurnOf DEF IRQueued
  <1>4. CASE SubmitIR(t)
    <2> DEFINE f == FromStmt(g, LastOf(g) + 1)
               e == AtUnit(g, g.i + 1)
               job == IRJob(g.step, g.tu, g.lo, LastOf(g))
    <2>1. /\ stack[t] # << >> /\ g.at = "submit_ir" /\ g.step \in Sources
          /\ UNCHANGED <<errors, error_root, args, cu, allocated, is_free, opt_left>>
          /\ f \in Calls /\ f.at = "submit_ir" /\ f.step = g.step /\ f.tu = g.tu
          /\ e \in Calls /\ e.at = "next_unit" /\ e.step = g.step
          /\ job \in Queued /\ job.at = "ir" /\ job.step = g.step /\ job.tu = g.tu
          /\ IRSubmitted(t, e, f, job)
      BY <1>4, SubmitIRShape
    <2> HIDE DEF f, e, job
    <2>2. g.at \in CompileLabels /\ g.at \in GenLabels /\ f.at \in GenLabels /\ e.at \in GenLabels
      BY <2>1 DEF CompileLabels, GenLabels
    <2>3. Stage(g.at, g.step) /\ Owned(g)
      BY <2>1, <2>2, TopStage
    <2>4. g.tu \in Sources /\ ~SyntaxOnly
      BY <2>1, <2>3 DEF Owned, Stage, GenLabels
    <2>5. Owned(f) /\ Owned(e) /\ Owned(job) /\ job \in Calls
      BY <2>1, <2>4 DEF Owned, RootLabels, CompileLabels, JobLabels, IRLabels, Queued
    <2>6. CASE Become(t, e) /\ queue' = queue
      BY <2>1, <2>2, <2>5, <2>6, TurnOf DEF IRQueued
    <2>7. CASE Submit(job) /\ Become(t, f)
      <3>1. IRQueued
        BY <2>1, <2>5, <2>7 DEF IRQueued, Submit
      <3> QED
        BY <2>1, <2>2, <2>5, <2>7, <3>1, TurnOf
    <2>8. CASE stack' = [stack EXCEPT ![t] = Push(Swap(stack[t], f), job)] /\ queue' = queue
      BY <2>1, <2>2, <2>5, <2>8, JobCalled
    <2> QED
      BY <2>1, <2>6, <2>7, <2>8 DEF IRSubmitted
  <1>5. CASE AllSubmitted(t)
    <2>1. /\ stack[t] # << >> /\ g.at = "next_unit" /\ Goto(t, "wait_ir")
          /\ UNCHANGED <<queue, errors, error_root, args, cu, allocated, is_free, opt_left>>
      BY <1>5 DEF AllSubmitted, Active, steps, units, ir
    <2>2. SameKind("wait_ir", g.at) /\ g.at \in GenLabels
      BY <2>1 DEF SameKind, CompileLabels, GenLabels
    <2>3. PICK f \in Calls : Become(t, f) /\ f.at = "wait_ir" /\ f.step = Top(t).step
      BY <1>1, <2>1, <2>2, GotoCall
    <2>4. Owned(f) /\ f.at \in GenLabels
      BY <2>3, OwnedCompile DEF CompileLabels, GenLabels
    <2> QED
      BY <2>1, <2>2, <2>3, <2>4, TurnOf DEF IRQueued
  <1>6. CASE GenerateIR(t)
    <2>1. /\ stack[t] # << >> /\ g.at = "ir" /\ Goto(t, "ir_end")
          /\ UNCHANGED <<queue, errors, error_root, args, cu, allocated, is_free, opt_left>>
      BY <1>6 DEF GenerateIR, Active, steps, units
    <2>2. SameKind("ir_end", g.at)
      BY <2>1 DEF SameKind, JobLabels
    <2>3. PICK f \in Calls : /\ Become(t, f) /\ f.at = "ir_end" /\ f.step = Top(t).step
                             /\ f.tu = Top(t).tu
      BY <1>1, <2>1, <2>2, GotoCall
    <2>4. Owned(g)
      <3>1. Len(stack[t]) \in 1 .. Len(stack[t])
        BY <1>1, <2>1 DEF Where, Held
      <3>2. g \in Frames
        BY <3>1 DEF Frames, Top
      <3> QED
        BY <3>2 DEF GInv, JobsOwned
    <2>5. Owned(f)
      BY <2>1, <2>3, <2>4 DEF Owned, IRLabels, RootLabels, JobLabels
    <2>6. opt_left' = opt_left - One(Top(t).at = "opt")
      BY <2>1 DEF One, IInv, Typed
    <2> QED
      BY <2>1, <2>3, <2>5, <2>6, JobTurn DEF JobLabels
  <1>7. CASE IRJobDone(t)
    BY <1>7, JobReturn DEF IRJobDone, Active, steps, units, JobLabels
  <1>8. CASE IRDone(t)
    <2>1. /\ stack[t] # << >> /\ g.at = "wait_ir" /\ Goto(t, "done")
          /\ UNCHANGED <<queue, errors, error_root, args, cu, allocated, opt_left>>
          /\ is_free' = is_free \cup {g.step}
      BY <1>8 DEF IRDone, Active, steps, ir
    <2>2. SameKind("done", g.at) /\ g.at \in CompileLabels /\ g.at \in GenLabels
      BY <2>1 DEF SameKind, CompileLabels, GenLabels
    <2>3. PICK f \in Calls : Become(t, f) /\ f.at = "done" /\ f.step = Top(t).step
      BY <1>1, <2>1, <2>2, GotoCall
    <2>4. Owned(f) /\ f.at \in CompileLabels
      BY <2>3, OwnedCompile DEF CompileLabels
    <2>5. Stage(g.at, f.step)
      BY <2>1, <2>2, <2>3, TopStage
    <2>6. Added' = Added /\ SyntaxOnly' = SyntaxOnly /\ AddedOnce'
      BY <2>1 DEF Added, SyntaxOnly, GInv, AddedOnce
    <2>7. f.at \in Reached(f.step)'
      BY <2>1, <2>2, <2>3, <2>4, <2>5, <2>6 DEF Reached, Stage, GenLabels
    <2>8. \A s \in Sources : s # f.step => Reached(s) \subseteq Reached(s)'
      BY <2>1, <2>3, <2>6 DEF Reached, Stage
    <2> QED
      BY <2>1, <2>2, <2>3, <2>4, <2>6, <2>7, <2>8, CompileTurn DEF IRQueued
  <1> QED
    BY <1>2, <1>3, <1>4, <1>5, <1>6, <1>7, <1>8 DEF IRGen

LEMMA RootIsLd ==
    ASSUME IInv, GInv, NEW t \in Threads, stack[t] # << >>, Top(t).at \in RootLabels
    PROVE  /\ t = Main /\ Top(t).step = Ld /\ Top(t) \in Calls
           /\ \A L : RootAt(L) <=> Top(t).at \in L
           /\ Top(t).at \notin OptWaits => opt_left = 0
           /\ Top(t).at \in LinkLabels => \A s \in Sources : ~Live(s)
  <1>1. /\ t = Main /\ Len(stack[t]) = 1 /\ stack[t][1] = Top(t) /\ Top(t) \in Calls
    BY SubmitDepIsRoot DEF IInv
  <1>2. Top(t) \in Frames
    BY <1>1 DEF Frames
  <1>3. Top(t).step = Ld
    BY <1>2 DEF GInv, JobsOwned, Owned
  <1>4. \A L : RootAt(L) <=> Top(t).at \in L
    BY <1>1 DEF RootAt
  <1>5. Top(t).at \in LinkLabels => \A s \in Sources : ~Live(s)
    BY <1>4, LiveNotBegun DEF IInv
  <1> QED
    BY <1>1, <1>3, <1>4, <1>5 DEF GInv, OptCounted

\* The link step's call goes on, and nothing else happens.
LEMMA RootMove ==
    ASSUME IInv, IInv', GInv, UNCHANGED <<queue, args, errors, cu, allocated, is_free, opt_left>>,
           error_root \subseteq error_root',
           NEW t \in Threads, stack[t] # << >>, NEW f \in Calls, Become(t, f),
           Top(t).at \in RootLabels, f.at \in RootLabels, f.step = Top(t).step,
           Submitted(f) = Submitted(Top(t)),
           f.at \in LinkLabels => Top(t).at \in LinkLabels \/ errors = 0,
           Top(t).at \in OptWaits => f.at \in OptWaits
    PROVE  GInv'
  <1>1. f.step = Ld /\ (Top(t).at \notin OptWaits => opt_left = 0)
    BY RootIsLd
  <1>2. opt_left' = opt_left + 0
    BY DEF IInv, Typed
  <1>3. OptQueued(0)
    BY DEF OptQueued
  <1>4. \A s \in Sources : Reached(s) \subseteq Reached(s)'
    BY ReachedSame
  <1> QED
    BY <1>1, <1>2, <1>3, <1>4, RootTurn

LEMMA RootGoto ==
    ASSUME IInv, IInv', GInv, UNCHANGED <<queue, args, errors, cu, allocated, is_free, opt_left>>,
           error_root \subseteq error_root',
           NEW t \in Threads, stack[t] # << >>, NEW l, Goto(t, l),
           Top(t).at \in RootLabels, l \in RootLabels \ {"submit"},
           Top(t).at = "submit" => Top(t).i = NSources,
           l \in LinkLabels => Top(t).at \in LinkLabels \/ errors = 0,
           Top(t).at \in OptWaits => l \in OptWaits
    PROVE  GInv'
  <1>1. Where /\ SameKind(l, Top(t).at) /\ l \notin {"submit", "next_unit", "submit_ir"}
    BY DEF IInv, SameKind, RootLabels, CompileLabels
  <1>2. PICK f \in Calls : Become(t, f) /\ f.at = l /\ f.step = Top(t).step
    BY <1>1, GotoCall
  <1>3. Submitted(f) = Submitted(Top(t))
    BY <1>2 DEF Submitted
  <1> QED
    BY <1>2, <1>3, RootMove

LEMMA LinkStepStays ==
    ASSUME IInv, IInv', GInv, NEW t \in Threads, LinkStep(t)
    PROVE  GInv'
  <1> DEFINE g == Top(t)
  <1>1. Where /\ args \in Builds /\ opt_left \in Int
    BY DEF IInv, Typed
  <1>2. LinkLabels \subseteq RootLabels \ {"submit"} /\ "return" \in RootLabels \ {"submit"}
        /\ "return" \notin LinkLabels
    BY DEF LinkLabels, RootLabels, Labels, CompileLabels, JobLabels
  <1>3. CASE PerFunction(t)
    <2> DEFINE f == [g EXCEPT !.i = @ + 1]
    <2>1. /\ stack[t] # << >> /\ g.at = "backend" /\ g \in Calls
          /\ UNCHANGED <<errors, error_root, args, cu, allocated, is_free>>
      BY <1>1, <1>3, TopCall DEF PerFunction, Active, steps, units
    <2>2. CASE Goto(t, "wait_opt") /\ UNCHANGED <<queue, opt_left>>
      BY <1>2, <2>1, <2>2, RootGoto DEF LinkLabels, OptWaits
    <2>3. CASE ~(Goto(t, "wait_opt") /\ UNCHANGED <<queue, opt_left>>)
      <3>1. /\ queue' = Append(queue, Call("opt", Ld)) /\ Become(t, f)
            /\ opt_left' = opt_left + 1
        BY <1>3, <2>3 DEF PerFunction, Submit
      <3>2. f \in Calls /\ f.at = "backend" /\ f.step = g.step
        BY <2>1, MoreFrame
      <3> HIDE DEF f
      <3>3. g.at \in RootLabels /\ f.at \in RootLabels /\ Submitted(f) = Submitted(g)
        BY <1>2, <2>1, <3>2 DEF LinkLabels, Submitted
      <3>4. f.step = Ld
        BY <2>1, <3>2, <3>3, RootIsLd
      <3>5. OptQueued(1)
        BY <3>1 DEF OptQueued
      <3>6. \A s \in Sources : Reached(s) \subseteq Reached(s)'
        BY <2>1, ReachedSame
      <3> QED
        BY <2>1, <3>1, <3>2, <3>3, <3>4, <3>5, <3>6, RootTurn DEF LinkLabels, OptWaits
    <2> QED
      BY <2>2, <2>3
  <1>4. CASE OptimizeFunctions(t)
    <2>1. /\ stack[t] # << >> /\ g.at = "opt" /\ Goto(t, "signal")
          /\ UNCHANGED <<queue, errors, error_root, args, cu, allocated, is_free>>
          /\ opt_left' = opt_left - 1
      BY <1>4 DEF OptimizeFunctions, Active, steps, units
    <2>2. SameKind("signal", g.at)
      BY <2>1 DEF SameKind, JobLabels
    <2>3. PICK f \in Calls : Become(t, f) /\ f.at = "signal" /\ f.step = Top(t).step
      BY <1>1, <2>1, <2>2, GotoCall
    <2>4. Owned(f)
      <3>1. Len(stack[t]) \in 1 .. Len(stack[t])
        BY <1>1, <2>1 DEF Where, Held
      <3>2. g \in Frames
        BY <3>1 DEF Frames, Top
      <3>3. Owned(g)
        BY <3>2 DEF GInv, JobsOwned
      <3> QED
        BY <2>1, <2>3, <3>3 DEF Owned, IRLabels
    <2>5. opt_left' = opt_left - One(Top(t).at = "opt")
      BY <2>1 DEF One
    <2> QED
      BY <2>1, <2>3, <2>4, <2>5, JobTurn DEF JobLabels
  <1>5. CASE FutexSignal(t)
    BY <1>5, SignalStays
  <1>6. CASE OptimizeDone(t)
    <2>1. PICK l \in {"ld_end", "export"} :
            /\ stack[t] # << >> /\ g.at = "wait_opt" /\ opt_left = 0 /\ Goto(t, l)
            /\ UNCHANGED <<queue, errors, error_root, args, cu, allocated, opt_left>>
      BY <1>6 DEF OptimizeDone, Active, steps, ir
    <2>2. g.at \in LinkLabels /\ l \in LinkLabels /\ SameKind(l, g.at)
      BY <1>2, <2>1 DEF LinkLabels, SameKind
    <2>3. PICK f \in Calls : Become(t, f) /\ f.at = l /\ f.step = Top(t).step
      BY <1>1, <2>1, <2>2, GotoCall
    <2>4. /\ f.step = Ld /\ \A s \in Sources : ~Live(s)
      BY <1>2, <2>1, <2>2, <2>3, RootIsLd
    <2>5. Submitted(f) = Submitted(g)
      BY <1>2, <2>2, <2>3 DEF Submitted
    <2>6. Added' = Added /\ SyntaxOnly' = SyntaxOnly
      BY <2>1 DEF Added, SyntaxOnly
    <2>7. \A s : "done" \in Reached(s) => "done" \in Reached(s)'
      BY <2>1, <2>6 DEF Reached, Stage, GenLabels
    <2>8. OptQueued(0) /\ opt_left' = opt_left + 0
      BY <2>1, <1>1 DEF OptQueued
    <2> QED
      BY <1>2, <2>1, <2>2, <2>3, <2>4, <2>5, <2>7, <2>8, RootTurn
  <1>7. CASE FutexTest(t)
    BY <1>2, <1>7, RootGoto DEF FutexTest, Active, steps, units, ir, LinkLabels, OptWaits
  <1>8. CASE FutexReread(t)
    <2> DEFINE f == [g EXCEPT !.at = "futex", !.lo = opt_left]
    <2>1. /\ stack[t] # << >> /\ g.at = "reread" /\ g \in Calls /\ Become(t, f)
          /\ UNCHANGED <<queue, errors, error_root, args, cu, allocated, is_free, opt_left>>
      BY <1>1, <1>8, TopCall DEF FutexReread, Active, steps, units, ir
    <2>2. f \in Calls /\ f.at = "futex" /\ f.step = g.step
      BY <1>1, <2>1, ReadFrame
    <2> HIDE DEF f
    <2> QED
      BY <1>2, <2>1, <2>2, RootMove DEF LinkLabels, OptWaits, Submitted
  <1>9. CASE FutexWait(t)
    BY <1>2, <1>9, RootGoto DEF FutexWait, Active, steps, units, ir, LinkLabels, OptWaits
  <1>10. CASE Export(t)
    BY <1>2, <1>10, RootGoto DEF Export, Active, units, ir, LinkLabels, OptWaits
  <1>11. CASE LdDone(t)
    BY <1>2, <1>11, RootGoto DEF LdDone, Active, steps, units, ir, LinkLabels, OptWaits
  <1> QED
    BY <1>3, <1>4, <1>5, <1>6, <1>7, <1>8, <1>9, <1>10, <1>11 DEF LinkStep

LEMMA RunStepStays ==
    ASSUME IInv, IInv', GInv, NEW t \in Threads, RunStep(t)
    PROVE  GInv'
  <1> DEFINE g == Top(t)
  <1>1. Where /\ Held /\ Where' /\ Held' /\ args \in Builds /\ opt_left \in Int
    BY DEF IInv, Where, Typed
  <1>2. /\ {"submit", "wait_deps", "check_deps", "return", "backend"} \subseteq RootLabels
        /\ {"submit", "wait_deps", "check_deps", "return"} \cap LinkLabels = {}
        /\ {"submit", "wait_deps", "check_deps", "return"} \cap OptWaits = {}
    BY DEF LinkLabels, RootLabels, Labels, CompileLabels, JobLabels, OptWaits
  <1>3. CASE SubmitDep(t)
    BY <1>3, SubmitStays
  <1>4. CASE DepsSubmitted(t)
    <2>1. PICK l \in {"wait_deps", "check_deps"} :
            /\ stack[t] # << >> /\ g.at = "submit" /\ g.i = NSources /\ Goto(t, l)
            /\ UNCHANGED <<queue, errors, error_root, args, cu, allocated, is_free, opt_left>>
      BY <1>4 DEF DepsSubmitted, Active, steps, units, ir
    <2> QED
      BY <1>2, <2>1, RootGoto
  <1>5. CASE DepsDone(t)
    BY <1>2, <1>5, RootGoto DEF DepsDone, Active, steps, units, ir
  <1>6. CASE CheckDeps(t)
    <2>1. CASE error_root' = error_root \cup {Ld} /\ Goto(t, "return")
      BY <1>2, <1>6, <2>1, RootGoto DEF CheckDeps, Active, units, ir
    <2>2. CASE ~(error_root' = error_root \cup {Ld} /\ Goto(t, "return"))
      <3> DEFINE f == Call("backend", Ld)
      <3>1. /\ stack[t] # << >> /\ g.at = "check_deps" /\ Become(t, f) /\ errors = 0
            /\ UNCHANGED <<queue, errors, error_root, args, cu, allocated, is_free, opt_left>>
        BY <1>6, <2>2 DEF CheckDeps, Active, units, ir
      <3>2. f \in Calls /\ f.at = "backend" /\ f.step = Ld
        BY <1>1, <1>2, CallFrame
      <3> HIDE DEF f
      <3>3. g.step = Ld
        BY <1>2, <3>1, RootIsLd
      <3> QED
        BY <1>2, <3>1, <3>2, <3>3, RootMove DEF Submitted
    <2> QED
      BY <2>1, <2>2
  <1>7. CASE StepRunReturn(t)
    <2>1. /\ stack[t] # << >> /\ g.at = "return" /\ Return(t)
          /\ UNCHANGED <<queue, errors, error_root, args, cu, allocated, is_free, opt_left>>
      BY <1>7 DEF StepRunReturn, Active, steps, units, ir
    <2>2. t = Main /\ Len(stack[t]) = 1 /\ stack[t][1] = g
      BY <1>1, <1>2, <2>1, SubmitDepIsRoot
    <2>3. /\ Frames' \subseteq Frames /\ Len(stack'[t]) = Len(stack[t]) - 1
          /\ \A u \in Threads : u # t => stack'[u] = stack[u]
      BY <1>1, <2>1, ReturnShape
    <2>4. stack'[Main] = << >>
      <3>1. stack'[Main] \in Seq(Calls) /\ Len(stack'[Main]) = 0
        BY <1>1, <2>1, <2>2, <2>3, SameBuild DEF Held
      <3> QED
        BY <3>1
    <2>5. JobsOwned'
      <3>1. \A h \in (Frames \cup Jobs)' : Owned(h)
        BY <2>1, <2>3 DEF GInv, JobsOwned, Jobs
      <3> QED
        BY <2>1, <3>1, OwnedSame DEF JobsOwned
    <2>6. BeganClean' /\ AddedOnce'
      BY <2>1, <2>4 DEF GInv, BeganClean, AddedOnce, RootAt
    <2>7. Staged'
      <3>1. \A s : At(stack'[t], s) = {} /\ At(stack[t], s) = {}
        BY <2>1, <2>2, <2>4 DEF At, CompileLabels
      <3>2. \A s \in Sources : Reached(s) \subseteq Reached(s)'
        BY <2>1, ReachedSame
      <3>3. \A s \in Sources : ~ToCome(s) /\ ~ToCome(s)'
        BY <1>1, <2>1, <2>2, <2>4, BuildShape DEF ToCome, Submitted
      <3>4. \A u \in Threads : \A s \in Sources : At(stack'[u], s) = At(stack[u], s) /\
              \A k \in At(stack[u], s) : stack'[u][k].at = stack[u][k].at
        BY <2>3, <3>1
      <3>5. \A s \in Sources : At(queue', s) = At(queue, s)
        BY <2>1
      <3> QED
        BY <2>1, <3>2, <3>3, <3>4, <3>5, NobodyStages DEF GInv
    <2>8. OptCounted'
      <3>1. Cardinality(On({"opt"}))' = Cardinality(On({"opt"})) - One(Top(t).at \in {"opt"})
        BY ONLY t \in Threads, <1>1, <2>1, PendingPopped
      <3>2. One(Top(t).at \in {"opt"}) = 0 /\ Cardinality(On({"opt"})) \in Nat
        BY <1>1, <2>1, OnFinite DEF One
      <3>3. Pending({"opt"})' = Pending({"opt"})
        BY <2>1, <3>1, <3>2 DEF Pending
      <3>4. opt_left = 0
        BY <1>2, <2>1, RootIsLd
      <3> QED
        BY <2>1, <3>3, <3>4 DEF GInv, OptCounted
    <2> QED
      BY <2>5, <2>6, <2>7, <2>8 DEF GInv
  <1> QED
    BY <1>3, <1>4, <1>5, <1>6, <1>7 DEF RunStep

LEMMA InitStays == Init => GInv
  <1> SUFFICES ASSUME Init PROVE GInv
    OBVIOUS
  <1>1. IInv
    BY InitKeeps
  <1> DEFINE f == Call("submit", Ld)
  <1>2. /\ stack = [t \in Threads |-> IF t = Main THEN <<f>> ELSE << >>]
        /\ queue = << >> /\ errors = 0 /\ cu = << >> /\ opt_left = 0 /\ is_free = {}
    BY DEF Init
  <1>3. f.at = "submit" /\ f.step = Ld /\ Main \in Threads
    BY DEF Call, Frame, Threads
  <1> HIDE DEF f
  <1>4. /\ stack[Main] = <<f>> /\ \A t \in Threads : t # Main => stack[t] = << >>
    BY <1>2, <1>3
  <1>5. \A g \in Frames \cup Jobs : g = f
    <2>1. \A t \in Threads : \A k \in 1 .. Len(stack[t]) : stack[t][k] = f
      BY <1>4
    <2> QED
      BY <1>2, <2>1 DEF Frames, Jobs
  <1>6. JobsOwned
    BY <1>3, <1>5 DEF JobsOwned, Owned, IRLabels
  <1>7. BeganClean /\ AddedOnce
    BY <1>2 DEF BeganClean, AddedOnce
  <1>8. Staged
    <2>1. \A s : Stage("cpp", s)
      BY <1>2 DEF Stage, Added, GenLabels
    <2>2. \A s : "cpp" \in Reached(s)
      BY <2>1 DEF Reached, CompileLabels
    <2>3. \A s : \A t \in Threads : At(stack[t], s) = {}
      <3>1. \A t \in Threads : \A k \in 1 .. Len(stack[t]) : stack[t][k].at \notin CompileLabels
        BY <1>3, <1>4 DEF CompileLabels
      <3> QED
        BY <3>1 DEF At
    <2>4. \A s \in Sources : Live(s)
      <3>1. \A s \in Sources : ToCome(s)
        <4>1. f.i = 0
          BY DEF f, Call, Frame
        <4>2. \A s \in Sources : s \in Nat /\ s > 0
          BY <1>1, BuildShape DEF IInv, Typed
        <4> QED
          BY <1>3, <1>4, <4>1, <4>2 DEF ToCome, Submitted
      <3> QED
        BY <3>1 DEF Live
    <2> QED
      BY <2>2, <2>3, <2>4 DEF Staged, StagedAt
  <1>9. OptCounted
    <2>1. Pending({"opt"}) = 0
      BY <1>1, <1>3, <1>5, PendingNone DEF IInv, Where
    <2> QED
      BY <1>2, <2>1 DEF OptCounted
  <1> QED
    BY <1>6, <1>7, <1>8, <1>9 DEF GInv

LEMMA NextStays == IInv /\ IInv' /\ GInv /\ [Next]_vars => GInv'
  <1> SUFFICES ASSUME IInv, IInv', GInv, [Next]_vars PROVE GInv'
    OBVIOUS
  <1>1. ASSUME NEW w \in Workers, TakeJob(w)
        PROVE  GInv'
    <2>1. /\ w \in Threads /\ w # Main /\ stack \in [Threads -> Seq(Calls)]
          /\ queue \in Seq(Queued)
      BY BuildStepsAssumption DEF Threads, IInv, Where, Held
    <2>2. Push(stack[w], Head(queue)) = <<Head(queue)>>
      BY <1>1, <2>1 DEF TakeJob, Push
    <2> QED
      BY <1>1, <2>1, <2>2, TakingStays DEF TakeJob, steps, units, ir
  <1>2. ASSUME NEW t \in Threads, WorkOneJob(t)
        PROVE  GInv'
    BY <1>2, TakingStays DEF WorkOneJob, Waiting, Active, Push, steps, units, ir
  <1>3. ASSUME NEW t \in Threads, Thread(t)
        PROVE  GInv'
    BY <1>2, <1>3, RunStepStays, CompileStepStays, IRGenStays, LinkStepStays DEF Thread
  <1>4. CASE UNCHANGED vars
    <2>1. UNCHANGED <<stack, queue, errors, error_root, args, cu, allocated, is_free, opt_left>>
      BY <1>4 DEF vars, steps, units, ir
    <2>2. JobsOwned'
      BY <2>1, OwnedSame DEF GInv, JobsOwned, Frames, Jobs
    <2>3. BeganClean' /\ AddedOnce'
      BY <2>1 DEF GInv, BeganClean, AddedOnce, RootAt
    <2>4. Staged'
      <3>1. \A s \in Sources : Reached(s) \subseteq Reached(s)'
        BY <2>1, ReachedSame
      <3>2. \A s : ToCome(s)' <=> ToCome(s)
        BY <2>1, SameBuild DEF ToCome
      <3> QED
        BY <2>1, <3>1, <3>2, NobodyStages DEF GInv
    <2>5. OptCounted'
      BY <2>1 DEF GInv, OptCounted, RootAt, Pending, On
    <2> QED
      BY <2>2, <2>3, <2>4, <2>5 DEF GInv
  <1> QED
    BY <1>1, <1>3, <1>4 DEF Next, Finished

-----------------------------------------------------------------------------
(* What is left when the link step begins, and when cuik_step_run returns   *)

\* Whom the link step finds when it begins: nobody's calls but its own, and jobs of irgen;
\* no failure, and every source's unit in the compilation unit, once.
LinkFinds ==
    LinkBegan =>
        /\ \A f \in Frames \cup Jobs : f.step = Ld \/ f.at \in IRLabels
        /\ error_root \subseteq {Ld}
        /\ \A s \in Sources : Cardinality({k \in 1 .. Len(cu) : cu[k] = s}) = 1

LEMMA NobodyAlive ==
    ASSUME IInv, \A s \in Sources : ~Live(s)
    PROVE  \A f \in Frames \cup Jobs : f.at \in RootLabels \cup JobLabels
  <1>1. Held
    BY DEF IInv, Where
  <1>2. ASSUME NEW t \in Threads, NEW k \in 1 .. Len(stack[t]), stack[t][k].at \in CompileLabels
        PROVE  FALSE
    <2>1. stack[t] \in Seq(Calls)
      BY <1>1 DEF Held
    <2>2. stack[t][k] \in Calls
      BY <2>1
    <2>3. stack[t][k].step \in Sources
      BY <1>2, <2>2 DEF Calls
    <2>4. k \in At(stack[t], stack[t][k].step)
      BY <1>2 DEF At
    <2> QED
      BY <2>3, <2>4 DEF Live
  <1>3. ASSUME NEW k \in 1 .. Len(queue), queue[k].at \in CompileLabels
        PROVE  FALSE
    <2>1. queue[k] \in Queued
      BY <1>1 DEF Held
    <2>2. queue[k].step \in Sources
      BY <1>3, <2>1 DEF Queued, Calls
    <2>3. k \in At(queue, queue[k].step)
      BY <1>3 DEF At
    <2> QED
      BY <2>2, <2>3 DEF Live
  <1>4. \A f \in Frames \cup Jobs : f.at \notin CompileLabels
    BY <1>2, <1>3 DEF Frames, Jobs
  <1>5. \A f \in Frames \cup Jobs : f.at \in Labels
    <2>1. \A t \in Threads : \A k \in 1 .. Len(stack[t]) : stack[t][k] \in Calls
      BY <1>1 DEF Held
    <2>2. \A k \in 1 .. Len(queue) : queue[k] \in Calls
      BY <1>1 DEF Held, Queued
    <2>3. \A f \in Frames \cup Jobs : f \in Calls
      BY <2>1, <2>2 DEF Frames, Jobs
    <2> QED
      BY <2>3 DEF Calls
  <1> QED
    BY <1>4, <1>5 DEF RootLabels

\* The link step has begun: its call is the main thread's first, and no source is alive.
LEMMA BeganShape ==
    ASSUME IInv, LinkBegan
    PROVE  RootAt(LinkLabels) /\ \A s \in Sources : ~Live(s)
  <1>1. PICK t \in Threads : \E k \in 1 .. Len(stack[t]) : stack[t][k].at \in LinkLabels
    BY DEF LinkBegan, Frames, LinkLabels
  <1>2. PICK k \in 1 .. Len(stack[t]) : stack[t][k].at \in LinkLabels
    BY <1>1
  <1>3. Held /\ RootIsFirst
    BY DEF IInv, Where
  <1>4. t = Main /\ k = 1
    BY <1>2, <1>3, LabelSets DEF RootIsFirst
  <1>5. RootAt(LinkLabels)
    <2>1. stack[Main] # << >>
      BY <1>2, <1>4
    <2> QED
      BY <1>2, <1>4, <2>1 DEF RootAt
  <1> QED
    BY <1>5, LiveNotBegun DEF IInv

LEMMA AddedCount ==
    ASSUME IInv, AddedOnce, NEW s \in Added
    PROVE  Cardinality({k \in 1 .. Len(cu) : cu[k] = s}) = 1
  <1>1. PICK k \in 1 .. Len(cu) : cu[k] = s
    BY DEF Added
  <1>2. {l \in 1 .. Len(cu) : cu[l] = s} = {k}
    BY <1>1 DEF AddedOnce
  <1> QED
    BY <1>2, FS_Singleton

LEMMA BeganFinds == IInv /\ GInv => LinkFinds
  <1> SUFFICES ASSUME IInv, GInv, LinkBegan
               PROVE  /\ \A f \in Frames \cup Jobs : f.step = Ld \/ f.at \in IRLabels
                      /\ error_root \subseteq {Ld}
                      /\ \A s \in Sources : Cardinality({k \in 1 .. Len(cu) : cu[k] = s}) = 1
    BY DEF LinkFinds
  <1>1. RootAt(LinkLabels) /\ \A s \in Sources : ~Live(s)
    BY BeganShape
  <1>2. error_root \subseteq {Ld}
    BY <1>1 DEF GInv, BeganClean, IInv, Told
  <1>3. \A f \in Frames \cup Jobs : f.step = Ld \/ f.at \in IRLabels
    <2>1. JobLabels = IRLabels \cup {"opt", "signal"}
      BY DEF JobLabels, IRLabels
    <2> QED
      BY <1>1, <2>1, NobodyAlive DEF GInv, JobsOwned, Owned
  <1>4. \A s \in Sources : s \in Added
    <2>1. \A s \in Sources : s \notin error_root
      BY <1>2, BuildShape DEF Ld, IInv, Typed
    <2> QED
      BY <1>1, <2>1 DEF GInv, Staged, StagedAt, Reached, Stage
  <1> QED
    BY <1>2, <1>3, <1>4, AddedCount DEF GInv

\* For every build: when the link step begins every compile step has ended, none has failed,
\* and each has its unit in the compilation unit, once.  Nothing but jobs of irgen, which it
\* does not wait for itself, can still be under way (LinksWhatCompiled without its jobs).
THEOREM LinkBeginsOnItsUnits == Spec => []LinkFinds
  <1>1. IInv /\ GInv => LinkFinds
    BY BeganFinds
  <1> QED
    BY InitKeeps, InitStays, NextKeeps, NextStays, <1>1, PTL DEF Spec
================================================================================

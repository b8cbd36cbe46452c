---------------------------- MODULE SymbolsProofs -----------------------------
(***************************************************************************)
(* Theorems about Symbols, for any units, statements and threads:          *)
(*   - what a name means is decided once,                                  *)
(*   - no thread that made a symbol is missing from the module's list of   *)
(*     threads or in it twice,                                             *)
(*   - the writers' walk over that list meets each symbol once,            *)
(*   - a name has one public function with a body,                         *)
(*   - every use of a name is linked to the right symbol, and              *)
(*   - the text section depends on the build alone.                        *)
(* The second rests on how a thread comes to the list: it is at one unit   *)
(* at a time, it links itself before its first definition, and a body that *)
(* needs an external is generated only after a definition was made.  The   *)
(* third adds that nothing is made twice: a definition is behind its       *)
(* unit's cursor, an external is in the export table.  The fourth adds     *)
(* that an inline function that stays is the one the table has; the last   *)
(* two what each unit has entered, found, patched in and generated.        *)
(***************************************************************************)
EXTENDS Symbols, NaturalsInduction, WellFoundedInduction, FiniteSetTheorems, TLAPS

-----------------------------------------------------------------------------
(* Names                                                                    *)

\* The tables have the names of the build.
Tables ==
    /\ table = [n \in Names |-> table[n]]
    /\ resolved = [n \in Names |-> resolved[n]]

LEMMA SameNames ==
    ASSUME build' = build
    PROVE  Names' = Names
  <1>1. Units' = Units /\ Stmts' = Stmts
    BY DEF Units, Stmts
  <1>2. \A p : Stmt(p[1], p[2])' = Stmt(p[1], p[2])
    BY DEF Stmt
  <1> QED
    BY <1>1, <1>2, Zenon DEF Names

\* Whatever a step does, the tables keep their shape and what is settled.
LEMMA StepSettles ==
    ASSUME Tables, [Next]_vars
    PROVE  /\ Tables'
           /\ \A n \in Names : /\ table[n] # None => table'[n] = table[n]
                               /\ resolved[n] # None => resolved'[n] = resolved[n]
  <1>1. CASE \E t \in Units : ExportSymbol(t)
    <2>1. PICK t \in Units : ExportSymbol(t)
      BY <1>1
    <2> DEFINE n == Stmt(t, unit[t].i).name
               d == Def(t, unit[t].i)
    <2>2. /\ table' = table \/ table' = [table EXCEPT ![n] = Enter(table[n], d)]
          /\ \/ resolved' = resolved
             \/ resolved[n] = None /\ resolved' = [resolved EXCEPT ![n] = d]
          /\ build' = build
      BY <2>1 DEF ExportSymbol
    <2>3. Names' = Names
      BY <2>2, SameNames
    <2> QED
      BY <2>2, <2>3 DEF Tables, Enter
  <1>2. CASE \E t \in Units : Reference(t)
    <2>1. PICK t \in Units : Reference(t)
      BY <1>2
    <2>2. /\ resolved' = resolved /\ build' = build
          /\ \/ table' = table
             \/ \E n, sym : table[n] = None /\ table' = [table EXCEPT ![n] = sym]
      BY <2>1 DEF Reference
    <2>3. Names' = Names
      BY <2>2, SameNames
    <2> QED
      BY <2>2, <2>3 DEF Tables
  <1>3. CASE UNCHANGED <<build, table, resolved>>
    <2>1. Names' = Names
      BY <1>3, SameNames
    <2> QED
      BY <1>3, <2>1 DEF Tables
  <1> QED
    BY <1>1, <1>2, <1>3 DEF Next, Compile, StartUnit, CheckInline, LoadFirst, LinkThread,
       CreateSymbol, NextBody, WriteObject, vars

\* In every build and for every order of its units: once a use of a name has found a
\* symbol in the export table, or an external has been resolved, that never changes
\* (ir_alloc_task, get_external under the unit's lock).
THEOREM NamesAreSettledOnce == Spec => NamesSettle
  <1>1. Init => Tables
    BY DEF Init, Tables
  <1>2. Tables /\ [Next]_vars => Tables'
    BY StepSettles
  <1>3. Tables /\ [Next]_vars =>
          [\A n \in Names : /\ table[n] # None => table'[n] = table[n]
                            /\ resolved[n] # None => resolved'[n] = resolved[n]]_vars
    BY StepSettles
  <1> QED
    BY <1>1, <1>2, <1>3, PTL DEF Spec, NamesSettle

-----------------------------------------------------------------------------
(* The module's list of threads                                             *)

\* Every thread that made a symbol is on the list at module->first_info_in_module,
\* and no thread is on it twice, although the threads push themselves without a lock
\* (tb_thread_info).
ThreadsStayListed ==
    /\ \A a, b \in DOMAIN first : first[a] = first[b] => a = b
    /\ \A th \in Threads : symbols[th] # <<>> => Contains(first, th)

Pcs == {"new", "check", "link", "create", "export", "gen", "done"}
Allocating == {"check", "link", "create", "export"}

UnitState == [pc : Pcs, thread : Threads \cup {None}, i : Nat, j : Nat, top : Seq(Threads)]

Typed ==
    /\ build \in Builds
    /\ unit \in [Units -> UnitState]
    /\ first \in Seq(Threads)
    /\ symbols = [th \in Threads |-> symbols[th]]
    /\ \A t \in Units : unit[t].pc # "new" => unit[t].thread \in Threads

Busy(t) == unit[t].pc \notin {"new", "done"}
InList(t) == Contains(first, unit[t].thread)

\* A thread is at one unit at a time.
OneUnit == \A t, o \in Units : Busy(t) /\ Busy(o) /\ unit[t].thread = unit[o].thread => t = o

\* A statement whose symbol has been made has made its unit's thread a member.
MadeBy(t) == {k \in Allocated(t) : /\ <<t, k>> \in backed
                                   /\ unit[t].pc \in Allocating => k < unit[t].i}
Cursor ==
    /\ \A t \in Units : \A k : <<t, k>> \in backed => k \in Backed(t)
    /\ \A t \in Units :
         /\ unit[t].pc \in Allocating => unit[t].i \in Allocated(t)
         /\ unit[t].pc = "link" => ~InList(t)
         /\ unit[t].pc = "export" => InList(t)
         /\ unit[t].pc = "gen" /\ unit[t].i # 0 => InList(t)
         /\ Busy(t) /\ MadeBy(t) # {} => InList(t)

\* The inductive invariant.
IInv == Typed /\ OneUnit /\ Cursor /\ ThreadsStayListed

-----------------------------------------------------------------------------
(* The statements of a unit in their order                                  *)

LEMMA SmallestThere ==
    ASSUME NEW T \in SUBSET Nat, T # {}
    PROVE  \E x \in T : \A y \in T : x <= y
  <1>1. IsWellFoundedOn(OpToRel(<, Nat), Nat)
    BY NatLessThanWellFounded
  <1>2. PICK x \in T : \A y \in T : <<y, x>> \notin OpToRel(<, Nat)
    BY <1>1, WFMin
  <1>3. \A y \in T : ~(y < x)
    BY <1>2 DEF OpToRel
  <1> QED
    BY <1>3

\* The next statement is the first one after i; there is none when After is 0.
LEMMA AfterIsNext ==
    ASSUME NEW S \in SUBSET (Nat \ {0}), NEW i \in Nat
    PROVE  /\ After(S, i) \in Nat
           /\ After(S, i) = 0 => \A m \in S : m <= i
           /\ After(S, i) # 0 => /\ After(S, i) \in S /\ After(S, i) > i
                                 /\ \A m \in S : m < After(S, i) => m <= i
  <1>1. CASE ~ \E k \in S : k > i
    BY <1>1 DEF After
  <1>2. CASE \E k \in S : k > i
    <2>1. PICK k \in {m \in S : m > i} : \A m \in {n \in S : n > i} : k <= m
      BY <1>2, SmallestThere
    <2>2. \E n \in S : n > i /\ \A m \in S : m > i => n <= m
      BY <2>1
    <2> DEFINE a == CHOOSE n \in S : n > i /\ \A m \in S : m > i => n <= m
    <2>3. a \in S /\ a > i /\ \A m \in S : m > i => a <= m
      BY <2>2
    <2>4. After(S, i) = a
      BY <1>2 DEF After
    <2> HIDE DEF a
    <2> QED
      BY <2>3, <2>4
  <1> QED
    BY <1>1, <1>2

LEMMA UnitShape ==
    ASSUME build \in Builds, NEW t \in Units
    PROVE  /\ DOMAIN build.units[t] \subseteq Nat \ {0}
           /\ Allocated(t) \subseteq Nat \ {0}
           /\ Backed(t) \subseteq DOMAIN build.units[t]
           /\ Bodies(t) \subseteq Nat \ {0}
  <1>1. DOMAIN build.units[t] \subseteq Nat \ {0}
    <2>1. build.units[t] \in Seq(ToSet(build.units[t]))
      BY SymbolsAssumption DEF Units
    <2> QED
      BY <2>1
  <1> QED
    BY <1>1 DEF Allocated, Backed, Bodies

\* What does not depend on the progress of the build.
LEMMA SameStatements ==
    ASSUME build' = build
    PROVE  /\ Units' = Units
           /\ \A t : Allocated(t)' = Allocated(t)
           /\ \A t : Backed(t)' = Backed(t)
  <1>1. Units' = Units /\ \A t, i : Stmt(t, i)' = Stmt(t, i)
    BY DEF Units, Stmt
  <1>2. \A t : Used(t)' = Used(t)
    BY DEF Used
  <1>3. \A t : Backed(t)' = Backed(t)
    BY <1>1, <1>2, Zenon DEF Backed
  <1> QED
    BY <1>1, <1>2, <1>3 DEF Allocated

\* NextAlloc goes to the next statement to allocate, or on to the bodies.
LEMMA NextAllocMoves ==
    ASSUME build \in Builds, NEW t \in Units, NEW u \in UnitState, NEW i \in Nat,
           NEW v, v = NextAlloc(u, t, i)
    PROVE  /\ v \in UnitState /\ v.thread = u.thread /\ v.j \in {u.j, 1}
           /\ \/ /\ v.pc = "check" /\ v.i \in Allocated(t) /\ v.i > i
                 /\ \A m \in Allocated(t) : m < v.i => m <= i
              \/ /\ v.pc = "gen" /\ v.i = 0
                 /\ \A m \in Allocated(t) : m <= i
  <1> DEFINE a == After(Allocated(t), i)
  <1>1. /\ a \in Nat
        /\ a = 0 => \A m \in Allocated(t) : m <= i
        /\ a # 0 => a \in Allocated(t) /\ a > i /\ \A m \in Allocated(t) : m < a => m <= i
    BY AfterIsNext, UnitShape
  <1>2. v = IF a # 0 THEN [u EXCEPT !.pc = "check", !.i = a]
                     ELSE [u EXCEPT !.pc = "gen", !.i = 0, !.j = 1]
    BY DEF NextAlloc
  <1> HIDE DEF a
  <1>3. CASE a # 0
    <2>1. v = [u EXCEPT !.pc = "check", !.i = a]
      BY <1>2, <1>3
    <2>2. v \in UnitState /\ v.thread = u.thread /\ v.pc = "check" /\ v.i = a /\ v.j = u.j
      BY <2>1, <1>1 DEF UnitState, Pcs
    <2> QED
      BY <2>2, <1>1, <1>3
  <1>4. CASE a = 0
    <2>1. v = [u EXCEPT !.pc = "gen", !.i = 0, !.j = 1]
      BY <1>2, <1>4
    <2> DEFINE w == [u EXCEPT !.pc = "gen", !.i = 0]
    <2>2. w \in UnitState /\ w.thread = u.thread /\ w.pc = "gen" /\ w.i = 0
      BY DEF UnitState, Pcs
    <2>3. v = [w EXCEPT !.j = 1]
      BY <2>1 DEF UnitState
    <2> HIDE DEF w
    <2>4. v \in UnitState /\ v.thread = u.thread /\ v.pc = "gen" /\ v.i = 0 /\ v.j = 1
      BY <2>2, <2>3 DEF UnitState
    <2> QED
      BY <2>4, <1>1, <1>4
  <1> QED
    BY <1>3, <1>4

-----------------------------------------------------------------------------
(* The list                                                                 *)

\* A member stays one, and a new one is put in front.
LEMMA Pushed ==
    ASSUME first \in Seq(Threads), NEW th \in Threads
    PROVE  LET new == <<th>> \o first
           IN  /\ new \in Seq(Threads)
               /\ \A x : Contains(new, x) <=> x = th \/ Contains(first, x)
               /\ /\ ~Contains(first, th)
                  /\ \A a, b \in DOMAIN first : first[a] = first[b] => a = b
                  => \A a, b \in DOMAIN new : new[a] = new[b] => a = b
  <1> DEFINE new == <<th>> \o first
  <1>1. /\ new \in Seq(Threads) /\ Len(new) = Len(first) + 1 /\ Len(first) \in Nat
        /\ DOMAIN new = 1 .. Len(first) + 1 /\ DOMAIN first = 1 .. Len(first)
        /\ new[1] = th
        /\ \A k \in 2 .. Len(first) + 1 : new[k] = first[k - 1]
    OBVIOUS
  <1> HIDE DEF new
  <1>2. \A x : Contains(new, x) <=> x = th \/ Contains(first, x)
    <2>1. ASSUME NEW x, Contains(new, x) PROVE x = th \/ Contains(first, x)
      <3>1. PICK k \in 1 .. Len(first) + 1 : new[k] = x
        BY <2>1, <1>1 DEF Contains
      <3>2. CASE k = 1
        BY <3>1, <3>2, <1>1
      <3>3. CASE k # 1
        <4>1. k - 1 \in 1 .. Len(first) /\ first[k - 1] = x
          BY <3>1, <3>3, <1>1
        <4> QED
          BY <4>1 DEF Contains
      <3> QED
        BY <3>2, <3>3
    <2>2. ASSUME NEW x, Contains(first, x) PROVE Contains(new, x)
      <3>1. PICK k \in 1 .. Len(first) : first[k] = x
        BY <2>2 DEF Contains
      <3>2. k + 1 \in 1 .. Len(new) /\ new[k + 1] = x
        BY <3>1, <1>1
      <3> QED
        BY <3>2 DEF Contains
    <2>3. Contains(new, th)
      <3>1. 1 \in 1 .. Len(new) /\ new[1] = th
        BY <1>1
      <3> QED
        BY <3>1 DEF Contains
    <2> QED
      BY <2>1, <2>2, <2>3
  <1>3. ASSUME ~Contains(first, th),
               \A a, b \in DOMAIN first : first[a] = first[b] => a = b,
               NEW a \in DOMAIN new, NEW b \in DOMAIN new, new[a] = new[b]
        PROVE  a = b
    <2>1. \A k \in 2 .. Len(first) + 1 : new[k] # th
      BY <1>1, <1>3 DEF Contains
    <2>2. CASE a = 1 \/ b = 1
      BY <2>1, <2>2, <1>1, <1>3
    <2>3. CASE a # 1 /\ b # 1
      <3>1. /\ a - 1 \in DOMAIN first /\ b - 1 \in DOMAIN first
            /\ first[a - 1] = first[b - 1]
        BY <2>3, <1>1, <1>3
      <3>2. a - 1 = b - 1
        BY <3>1, <1>3
      <3> QED
        BY <3>2, <1>1
    <2> QED
      BY <2>2, <2>3
  <1> QED
    BY <1>1, <1>2, <1>3 DEF new

-----------------------------------------------------------------------------
(* Steps                                                                    *)

\* What a unit whose step is at v has to satisfy when t's list is l and b is backed.
AtHome(t, v, l, b) ==
    /\ v \in UnitState
    /\ v.pc # "new" => v.thread \in Threads
    /\ v.pc \in Allocating => v.i \in Allocated(t)
    /\ v.pc = "link" => ~Contains(l, v.thread)
    /\ v.pc = "export" => Contains(l, v.thread)
    /\ v.pc = "gen" /\ v.i # 0 => Contains(l, v.thread)
    /\ v.pc \notin {"new", "done"} =>
         \A k \in Allocated(t) :
           <<t, k>> \in b /\ (v.pc \in Allocating => k < v.i) => Contains(l, v.thread)

\* A step of one unit leaves the others where they are.
LEMMA OneUnitMoves ==
    ASSUME IInv, NEW t \in Units, NEW v,
           build' = build, unit' = [unit EXCEPT ![t] = v], backed' \subseteq backed,
           symbols' = [th \in Threads |-> symbols'[th]],
           first' \in Seq(Threads), ThreadsStayListed',
           \A x : Contains(first, x) => Contains(first', x),
           \A x : Contains(first', x) =>
                     Contains(first, x) \/ (x = v.thread /\ v.pc \notin {"new", "done"}),
           v.pc \notin {"new", "done"} =>
             \A o \in Units : o # t /\ Busy(o) => unit[o].thread # v.thread,
           AtHome(t, v, first', backed')
    PROVE  IInv'
  <1>1. /\ Units' = Units /\ \A o : Allocated(o)' = Allocated(o)
        /\ \A o : Backed(o)' = Backed(o)
    BY SameStatements
  <1>2. /\ unit'[t] = v /\ \A o \in Units : o # t => unit'[o] = unit[o]
        /\ v \in UnitState /\ unit' \in [Units -> UnitState]
    <2>1. v \in UnitState
      BY DEF AtHome
    <2>2. unit \in [Units -> UnitState]
      BY DEF IInv, Typed
    <2> QED
      BY <2>1, <2>2
  <1>3. Typed'
    BY <1>1, <1>2 DEF IInv, Typed, AtHome
  <1>4. OneUnit'
    BY <1>1, <1>2 DEF IInv, OneUnit, Busy
  <1>5. ASSUME NEW o \in Units
        PROVE  AtHome(o, unit'[o], first', backed')
    <2>1. CASE o = t
      BY <1>2, <2>1
    <2>2. CASE o # t
      <3>1. AtHome(o, unit[o], first, backed)
        BY DEF IInv, Typed, Cursor, AtHome, MadeBy, Busy, InList
      <3>2. ~Contains(first, unit[o].thread) /\ Busy(o) => ~Contains(first', unit[o].thread)
        BY <2>2
      <3>3. unit[o].pc = "link" => Busy(o)
        BY DEF Busy
      <3> QED
        BY <1>2, <2>2, <3>1, <3>2, <3>3 DEF AtHome
    <2> QED
      BY <2>1, <2>2
  <1>6. Cursor'
    <2>1. \A o \in Units : \A k : <<o, k>> \in backed' => k \in Backed(o)'
      BY <1>1 DEF IInv, Cursor
    <2>2. ASSUME NEW o \in Units
          PROVE  /\ unit'[o].pc \in Allocating => unit'[o].i \in Allocated(o)'
                 /\ unit'[o].pc = "link" => ~InList(o)'
                 /\ unit'[o].pc = "export" => InList(o)'
                 /\ unit'[o].pc = "gen" /\ unit'[o].i # 0 => InList(o)'
                 /\ Busy(o)' /\ MadeBy(o)' # {} => InList(o)'
      BY <1>1, <1>5, <2>2 DEF AtHome, InList, Busy, MadeBy
    <2> QED
      BY <1>1, <2>1, <2>2 DEF Cursor
  <1> QED
    BY <1>3, <1>4, <1>6 DEF IInv

LEMMA StepKeepsIInv ==
    ASSUME IInv, [Next]_vars
    PROVE  IInv'
  <1> USE SymbolsAssumption
  <1>1. /\ build \in Builds /\ unit \in [Units -> UnitState] /\ first \in Seq(Threads)
        /\ symbols = [th \in Threads |-> symbols[th]]
    BY DEF IInv, Typed
  <1>2. ASSUME NEW t \in Units
        PROVE  unit[t] \in UnitState /\ AtHome(t, unit[t], first, backed)
    BY DEF IInv, Typed, Cursor, AtHome, MadeBy, Busy, InList
  <1>3. ASSUME NEW t \in Units, Busy(t), NEW o \in Units, o # t, Busy(o)
        PROVE  unit[o].thread # unit[t].thread
    BY <1>3 DEF IInv, OneUnit
  <1>4. ASSUME UNCHANGED first, NEW th \in Threads, Contains(first, th), NEW x,
               symbols' = symbols \/ symbols' = [symbols EXCEPT ![th] = x]
        PROVE  ThreadsStayListed' /\ symbols' = [q \in Threads |-> symbols'[q]]
    BY <1>4, <1>1 DEF IInv, ThreadsStayListed
  <1>5. ASSUME UNCHANGED <<first, symbols>>
        PROVE  ThreadsStayListed' /\ symbols' = [q \in Threads |-> symbols'[q]]
    BY <1>5, <1>1 DEF IInv, ThreadsStayListed
  <1>6. ASSUME NEW t \in Units, NEW th \in Threads, StartUnit(t, th)
        PROVE  IInv'
    <2> DEFINE u == [unit[t] EXCEPT !.thread = th]
               v == NextAlloc(u, t, 0)
    <2>1. u \in UnitState /\ u.thread = th
      BY <1>2 DEF UnitState
    <2>2. /\ v \in UnitState /\ v.thread = th
          /\ \/ /\ v.pc = "check" /\ v.i \in Allocated(t)
                /\ \A m \in Allocated(t) : m < v.i => m <= 0
             \/ /\ v.pc = "gen" /\ v.i = 0
                /\ \A m \in Allocated(t) : m <= 0
      <3> HIDE DEF u
      <3> QED
        BY <2>1, <1>1, NextAllocMoves
    <2> HIDE DEF v
    <2>3. AtHome(t, v, first, backed)
      BY <2>2, <1>1, UnitShape DEF AtHome, Allocating
    <2>4. \A o \in Units : o # t /\ Busy(o) => unit[o].thread # th
      BY <1>6 DEF StartUnit, Busy
    <2>5. /\ build' = build /\ unit' = [unit EXCEPT ![t] = v]
          /\ UNCHANGED <<backed, symbols, first>>
      BY <1>6 DEF StartUnit, v
    <2> QED
      BY <1>1, <1>5, <2>2, <2>3, <2>4, <2>5, OneUnitMoves
  <1>7. ASSUME NEW t \in Units, CheckInline(t)
        PROVE  IInv'
    <2> DEFINE v == NextAlloc(unit[t], t, unit[t].i)
               w == [unit[t] EXCEPT !.pc = "create"]
    <2>1. unit[t].pc = "check" /\ unit[t].i \in Nat
      BY <1>2, <1>7 DEF CheckInline, UnitState
    <2>2. /\ v \in UnitState /\ v.thread = unit[t].thread
          /\ \/ /\ v.pc = "check" /\ v.i \in Allocated(t)
                /\ \A m \in Allocated(t) : m < v.i => m <= unit[t].i
             \/ /\ v.pc = "gen" /\ v.i = 0
                /\ \A m \in Allocated(t) : m <= unit[t].i
      BY <2>1, <1>1, <1>2, NextAllocMoves
    <2> HIDE DEF v
    <2>3. AtHome(t, v, first, backed \ {<<t, unit[t].i>>})
      BY <2>1, <2>2, <1>1, <1>2, UnitShape DEF AtHome, Allocating
    <2>4. AtHome(t, w, first, backed) /\ w.thread = unit[t].thread
      BY <2>1, <1>2 DEF AtHome, Allocating, UnitState, Pcs
    <2>5. /\ build' = build /\ UNCHANGED <<symbols, first>>
          /\ \/ unit' = [unit EXCEPT ![t] = v] /\ backed' = backed \ {<<t, unit[t].i>>}
             \/ unit' = [unit EXCEPT ![t] = w] /\ backed' = backed
      BY <1>7, <1>1 DEF CheckInline, v
    <2>6. \A o \in Units : o # t /\ Busy(o) => unit[o].thread # unit[t].thread
      BY <2>1, <1>3 DEF Busy
    <2> HIDE DEF w
    <2>7. CASE unit' = [unit EXCEPT ![t] = v] /\ backed' = backed \ {<<t, unit[t].i>>}
      BY <1>1, <1>5, <2>2, <2>3, <2>5, <2>6, <2>7, OneUnitMoves
    <2>8. CASE unit' = [unit EXCEPT ![t] = w] /\ backed' = backed
      BY <1>1, <1>5, <2>4, <2>5, <2>6, <2>8, OneUnitMoves
    <2> QED
      BY <2>5, <2>7, <2>8
  <1>8. ASSUME NEW t \in Units, LoadFirst(t)
        PROVE  IInv'
    <2> DEFINE v == [unit[t] EXCEPT !.pc = "link", !.top = first]
    <2>1. unit[t].pc = "create" /\ ~Contains(first, unit[t].thread)
      BY <1>8 DEF LoadFirst
    <2>2. /\ v \in UnitState /\ v.thread = unit[t].thread
          /\ v.pc = "link" /\ v.i = unit[t].i
      <3> DEFINE u == [unit[t] EXCEPT !.pc = "link"]
      <3>1. /\ u \in UnitState /\ u.thread = unit[t].thread
            /\ u.pc = "link" /\ u.i = unit[t].i
        BY <1>2 DEF UnitState, Pcs
      <3>2. v = [u EXCEPT !.top = first]
        BY <1>2 DEF UnitState
      <3> HIDE DEF u, v
      <3> QED
        BY <1>1, <3>1, <3>2 DEF UnitState
    <2>3. /\ build' = build /\ unit' = [unit EXCEPT ![t] = v]
          /\ UNCHANGED <<backed, symbols, first>>
      BY <1>8, <1>1 DEF LoadFirst
    <2> HIDE DEF v
    <2>4. AtHome(t, v, first, backed)
      BY <2>1, <2>2, <1>2 DEF AtHome, Allocating
    <2> QED
      BY <1>1, <1>3, <1>5, <2>1, <2>2, <2>3, <2>4, OneUnitMoves DEF Busy
  <1>9. ASSUME NEW t \in Units, LinkThread(t)
        PROVE  IInv'
    <2> DEFINE v == [unit[t] EXCEPT !.pc = "create", !.top = <<>>]
               th == unit[t].thread
               new == <<th>> \o first
    <2>1. unit[t].pc = "link" /\ th \in Threads /\ ~Contains(first, th)
      BY <1>2, <1>9 DEF LinkThread, AtHome
    <2>2. /\ v \in UnitState /\ v.thread = th
          /\ v.pc = "create" /\ v.i = unit[t].i
      <3> DEFINE u == [unit[t] EXCEPT !.pc = "create"]
      <3>1. /\ u \in UnitState /\ u.thread = th
            /\ u.pc = "create" /\ u.i = unit[t].i
        BY <1>2 DEF UnitState, Pcs
      <3>2. v = [u EXCEPT !.top = <<>>]
        BY <1>2 DEF UnitState
      <3>3. << >> \in Seq(Threads)
        OBVIOUS
      <3> HIDE DEF u, v
      <3> QED
        BY <1>1, <3>1, <3>2, <3>3 DEF UnitState
    <2>3. /\ build' = build /\ unit' = [unit EXCEPT ![t] = v]
          /\ UNCHANGED <<backed, symbols>>
          /\ first' = first \/ first' = new
      BY <1>9, <1>1 DEF LinkThread
    <2>4. /\ new \in Seq(Threads)
          /\ \A x : Contains(new, x) <=> x = th \/ Contains(first, x)
          /\ \A a, b \in DOMAIN new : new[a] = new[b] => a = b
      <3>1. \A a, b \in DOMAIN first : first[a] = first[b] => a = b
        BY DEF IInv, ThreadsStayListed
      <3> QED
        BY <1>1, <2>1, <3>1, Pushed
    <2> HIDE DEF v, new
    <2>5. /\ first' \in Seq(Threads)
          /\ \A x : Contains(first, x) => Contains(first', x)
          /\ \A x : Contains(first', x) => Contains(first, x) \/ x = th
      BY <1>1, <2>3, <2>4
    <2>6. ThreadsStayListed' /\ symbols' = [q \in Threads |-> symbols'[q]]
      BY <1>1, <2>3, <2>4, <2>5 DEF IInv, ThreadsStayListed
    <2>7. AtHome(t, v, first', backed')
      BY <2>1, <2>2, <2>3, <2>5, <1>2 DEF AtHome, Allocating
    <2>8. \A o \in Units : o # t /\ Busy(o) => unit[o].thread # th
      BY <2>1, <1>3 DEF Busy
    <2> QED
      BY <2>2, <2>3, <2>5, <2>6, <2>7, <2>8, OneUnitMoves
  <1>10. ASSUME NEW t \in Units, CreateSymbol(t)
         PROVE  IInv'
    <2> DEFINE v == [unit[t] EXCEPT !.pc = "export"]
    <2>1. unit[t].pc = "create" /\ Contains(first, unit[t].thread)
      BY <1>10 DEF CreateSymbol
    <2>2. /\ v \in UnitState /\ v.thread = unit[t].thread
          /\ v.pc = "export" /\ v.i = unit[t].i
      BY <1>2 DEF UnitState, Pcs
    <2>3. /\ build' = build /\ unit' = [unit EXCEPT ![t] = v]
          /\ UNCHANGED <<backed, first>>
          /\ \E x : symbols' = [symbols EXCEPT ![unit[t].thread] = x]
      BY <1>10, <1>1 DEF CreateSymbol
    <2> HIDE DEF v
    <2>4. AtHome(t, v, first, backed) /\ unit[t].thread \in Threads
      BY <2>1, <2>2, <1>2 DEF AtHome, Allocating
    <2>5. ThreadsStayListed' /\ symbols' = [q \in Threads |-> symbols'[q]]
      BY <1>4, <2>1, <2>3, <2>4
    <2> QED
      BY <1>1, <1>3, <2>1, <2>2, <2>3, <2>4, <2>5, OneUnitMoves DEF Busy
  <1>11. ASSUME NEW t \in Units, ExportSymbol(t)
         PROVE  IInv'
    <2> DEFINE v == NextAlloc(unit[t], t, unit[t].i)
    <2>1. unit[t].pc = "export" /\ unit[t].i \in Nat /\ Contains(first, unit[t].thread)
      BY <1>2, <1>11 DEF ExportSymbol, UnitState, AtHome
    <2>2. /\ v \in UnitState /\ v.thread = unit[t].thread
          /\ \/ v.pc = "check" /\ v.i \in Allocated(t)
             \/ v.pc = "gen"
      BY <2>1, <1>1, <1>2, NextAllocMoves
    <2>3. /\ build' = build /\ unit' = [unit EXCEPT ![t] = v]
          /\ UNCHANGED <<symbols, first>> /\ backed' \subseteq backed
      BY <1>11, <1>1 DEF ExportSymbol
    <2> HIDE DEF v
    <2>4. AtHome(t, v, first, backed')
      BY <2>1, <2>2, <1>2 DEF AtHome, Allocating
    <2> QED
      BY <1>1, <1>3, <1>5, <2>1, <2>2, <2>3, <2>4, OneUnitMoves DEF Busy
  <1>12. ASSUME NEW t \in Units, Reference(t)
         PROVE  IInv'
    <2> DEFINE v == [unit[t] EXCEPT !.j = unit[t].j + 1]
    <2>1. unit[t].pc = "gen" /\ Contains(first, unit[t].thread) /\ unit[t].thread \in Threads
      BY <1>2, <1>12 DEF Reference, AtHome
    <2>2. /\ v \in UnitState /\ v.thread = unit[t].thread
          /\ v.pc = "gen" /\ v.i = unit[t].i
      BY <2>1, <1>2 DEF UnitState
    <2>3. /\ build' = build /\ unit' = [unit EXCEPT ![t] = v]
          /\ UNCHANGED <<backed, first>>
          /\ \/ symbols' = symbols
             \/ \E x : symbols' = [symbols EXCEPT ![unit[t].thread] = x]
      BY <1>12, <1>1 DEF Reference
    <2> HIDE DEF v
    <2>4. AtHome(t, v, first, backed)
      BY <2>1, <2>2, <1>2 DEF AtHome
    <2>5. ThreadsStayListed' /\ symbols' = [q \in Threads |-> symbols'[q]]
      BY <1>4, <1>5, <2>1, <2>3
    <2> QED
      BY <1>1, <1>3, <2>1, <2>2, <2>3, <2>4, <2>5, OneUnitMoves DEF Busy
  <1>13. ASSUME NEW t \in Units, NextBody(t)
         PROVE  IInv'
    <2> DEFINE k == After(Bodies(t), unit[t].i)
               v == [unit[t] EXCEPT !.i = k, !.j = 1, !.pc = IF k = 0 THEN "done" ELSE "gen"]
    <2>1. unit[t].pc = "gen" /\ unit[t].i \in Nat
      BY <1>2, <1>13 DEF NextBody, UnitState
    <2>2. k \in Nat /\ (k # 0 => k \in Bodies(t))
      <3> DEFINE B == Bodies(t)
      <3>1. B \in SUBSET (Nat \ {0})
        BY <1>1, UnitShape
      <3> HIDE DEF B
      <3>2. /\ After(B, unit[t].i) \in Nat
            /\ After(B, unit[t].i) # 0 => After(B, unit[t].i) \in B
        BY <2>1, <3>1, AfterIsNext
      <3> QED
        BY <3>2 DEF B
    <2>3. k # 0 => Contains(first, unit[t].thread)
      <3>1. k # 0 => k \in Allocated(t) /\ <<t, k>> \in backed
        BY <2>2 DEF IInv, Cursor, Bodies, Allocated, Backed
      <3> QED
        BY <2>1, <3>1, <1>2 DEF AtHome, Allocating
    <2>4. /\ build' = build /\ unit' = [unit EXCEPT ![t] = v]
          /\ UNCHANGED <<backed, symbols, first>>
      BY <1>13, <1>1 DEF NextBody
    <2> HIDE DEF k
    <2>5. /\ v \in UnitState /\ v.thread = unit[t].thread /\ v.i = k
          /\ v.pc = IF k = 0 THEN "done" ELSE "gen"
      <3> DEFINE u == [unit[t] EXCEPT !.i = k]
                 w == [u EXCEPT !.pc = IF k = 0 THEN "done" ELSE "gen"]
      <3>1. u \in UnitState /\ u.thread = unit[t].thread /\ u.i = k
        BY <1>2, <2>2 DEF UnitState
      <3> HIDE DEF u
      <3>2. /\ w \in UnitState /\ w.thread = unit[t].thread /\ w.i = k
            /\ w.pc = IF k = 0 THEN "done" ELSE "gen"
        BY <3>1 DEF UnitState, Pcs
      <3>3. v = [w EXCEPT !.j = 1]
        BY <1>2 DEF UnitState, u
      <3> HIDE DEF w, v
      <3> QED
        BY <3>2, <3>3 DEF UnitState
    <2> HIDE DEF v
    <2>6. AtHome(t, v, first, backed)
      BY <2>1, <2>3, <2>5, <1>2 DEF AtHome, Allocating
    <2> QED
      BY <1>1, <1>3, <1>5, <2>1, <2>4, <2>5, <2>6, OneUnitMoves DEF Busy
  <1>14. CASE UNCHANGED <<build, unit, backed, first, symbols>>
    <2>1. /\ Units' = Units /\ \A o : Allocated(o)' = Allocated(o)
          /\ \A o : Backed(o)' = Backed(o)
      BY <1>14, SameStatements
    <2> QED
      BY <1>14, <2>1 DEF IInv, Typed, OneUnit, Cursor, ThreadsStayListed, Busy, InList, MadeBy
  <1> QED
    BY <1>6, <1>7, <1>8, <1>9, <1>10, <1>11, <1>12, <1>13, <1>14
       DEF Next, Compile, WriteObject, vars

LEMMA InitIInv == Init => IInv
  <1> SUFFICES ASSUME Init PROVE IInv
    OBVIOUS
  <1>1. Typed /\ OneUnit
    BY DEF Init, Typed, OneUnit, Busy, UnitState, Pcs
  <1>2. Cursor
    BY DEF Init, Cursor, Busy, Allocating, Stmts
  <1>3. ThreadsStayListed
    BY DEF Init, ThreadsStayListed
  <1> QED
    BY <1>1, <1>2, <1>3 DEF IInv

\* For any number of units and threads, in any order: no thread that has made a symbol
\* is lost from the module's list, whose head the threads push themselves onto by CAS
\* (tb_thread_info), nor on it twice, although get_external appends to the thread's
\* symbols without looking.
THEOREM NoThreadIsLost == Spec => []ThreadsStayListed
  <1>1. IInv /\ [Next]_vars => IInv'
    BY StepKeepsIInv
  <1>2. IInv => ThreadsStayListed
    BY DEF IInv
  <1> QED
    BY InitIInv, <1>1, <1>2, PTL DEF Spec

-----------------------------------------------------------------------------
(* The walk of the writers                                                  *)

LEMMA Counting ==
    ASSUME NEW T, 0 \in T, \A n \in Nat : n \in T => n + 1 \in T
    PROVE  Nat \subseteq T
  <1> SUFFICES ASSUME Nat \ T # {} PROVE FALSE
    OBVIOUS
  <1>1. PICK m \in Nat \ T : \A n \in Nat \ T : m <= n
    <2>1. Nat \ T \in SUBSET Nat
      OBVIOUS
    <2> QED
      BY <2>1, SmallestThere
  <1>2. m - 1 \in Nat /\ m = (m - 1) + 1
    BY <1>1
  <1> QED
    BY <1>1, <1>2

\* The walk over the threads at the places s of the list, given that over fewer.
Joined(g, s) == IF s = {} THEN <<>> ELSE symbols[first[Min(s)]] \o g[s \ {Min(s)}]

LEMMA FewerThreads ==
    ASSUME first \in Seq(Threads), NEW s \in SUBSET DOMAIN first
    PROVE  /\ IsFiniteSet(s) /\ Cardinality(s) \in Nat
           /\ s = {} <=> Cardinality(s) = 0
           /\ s # {} => /\ Min(s) \in s /\ s \ {Min(s)} \in SUBSET DOMAIN first
                        /\ Cardinality(s \ {Min(s)}) = Cardinality(s) - 1
  <1>1. DOMAIN first = 1 .. Len(first) /\ Len(first) \in Nat
    OBVIOUS
  <1>2. IsFiniteSet(1 .. Len(first))
    BY <1>1, FS_Interval
  <1>3. IsFiniteSet(s) /\ Cardinality(s) \in Nat
    BY <1>1, <1>2, FS_Subset, FS_CardinalityType
  <1>4. s = {} <=> Cardinality(s) = 0
    BY <1>3, FS_EmptySet
  <1>5. ASSUME s # {} PROVE Min(s) \in s
    <2>1. s \in SUBSET Nat
      BY <1>1
    <2>2. \E x \in s : \A y \in s : x <= y
      BY <2>1, <1>5, SmallestThere
    <2> QED
      BY <2>2 DEF Min
  <1>6. s # {} => Cardinality(s \ {Min(s)}) = Cardinality(s) - 1
    BY <1>3, <1>5, FS_RemoveElement
  <1> QED
    BY <1>3, <1>4, <1>5, <1>6

LEMMA WalkIsJoined ==
    ASSUME first \in Seq(Threads)
    PROVE  \E g : g = [s \in SUBSET DOMAIN first |-> Joined(g, s)] /\ Walk = g[DOMAIN first]
  <1> DEFINE D == DOMAIN first
             Upto(g, n) == \A s \in SUBSET D : Cardinality(s) <= n => g[s] = Joined(g, s)
             T == {n \in Nat : \E g : Upto(g, n)}
  <1>1. 0 \in T
    <2> DEFINE g == [s \in SUBSET D |-> <<>>]
    <2>1. ASSUME NEW s \in SUBSET D, Cardinality(s) <= 0 PROVE s = {}
      <3>1. s = {} <=> Cardinality(s) = 0
        BY FewerThreads
      <3>2. Cardinality(s) \in Nat
        BY FewerThreads
      <3> QED
        BY <2>1, <3>1, <3>2
    <2>2. Upto(g, 0)
      BY <2>1 DEF Joined
    <2> QED
      BY <2>2
  <1>2. ASSUME NEW n \in Nat, n \in T PROVE n + 1 \in T
    <2>1. PICK g : Upto(g, n)
      BY <1>2
    <2> DEFINE h == [s \in SUBSET D |-> Joined(g, s)]
    <2>2. ASSUME NEW s \in SUBSET D, Cardinality(s) <= n + 1 PROVE h[s] = Joined(h, s)
      <3>1. CASE s = {}
        BY <3>1 DEF Joined
      <3>2. CASE s # {}
        <4> DEFINE r == s \ {Min(s)}
        <4>1. r \in SUBSET D /\ Cardinality(r) <= n
          BY <2>2, <3>2, FewerThreads
        <4>2. g[r] = h[r]
          BY <2>1, <4>1
        <4>3. h[s] = symbols[first[Min(s)]] \o g[r]
          BY <3>2 DEF Joined
        <4> QED
          BY <3>2, <4>2, <4>3 DEF Joined
      <3> QED
        BY <3>1, <3>2
    <2> HIDE DEF h
    <2>3. Upto(h, n + 1)
      BY <2>2
    <2> QED
      BY <2>3
  <1>3. \E g : \A s \in SUBSET D : g[s] = Joined(g, s)
    <2>1. Cardinality(D) \in T
      <3> HIDE DEF T
      <3>1. Nat \subseteq T
        BY <1>1, <1>2, Counting
      <3>2. D \in SUBSET DOMAIN first
        OBVIOUS
      <3> QED
        BY <3>1, <3>2, FewerThreads
    <2>2. PICK g : Upto(g, Cardinality(D))
      BY <2>1
    <2>3. ASSUME NEW s \in SUBSET D PROVE Cardinality(s) <= Cardinality(D)
      <3>1. IsFiniteSet(D)
        <4>1. D \in SUBSET DOMAIN first
          OBVIOUS
        <4> QED
          BY <4>1, FewerThreads
      <3> QED
        BY <3>1, FS_Subset
    <2> QED
      BY <2>2, <2>3
  <1>4. PICK g : \A s \in SUBSET D : g[s] = Joined(g, s)
    BY <1>3
  <1> DEFINE h == [s \in SUBSET D |-> g[s]]
             f == CHOOSE e : e = [s \in SUBSET D |-> Joined(e, s)]
  <1>5. h = [s \in SUBSET D |-> Joined(h, s)]
    <2>1. ASSUME NEW s \in SUBSET D PROVE g[s] = Joined(h, s)
      <3>1. s # {} => s \ {Min(s)} \in SUBSET D
        BY FewerThreads
      <3> QED
        BY <1>4, <3>1 DEF Joined
    <2> QED
      BY <2>1
  <1>6. f = [s \in SUBSET D |-> Joined(f, s)]
    <2> HIDE DEF h
    <2> QED
      BY <1>5
  <1>7. Walk = f[D]
    BY DEF Walk, FoldRight, MapThenFoldSet, Joined
  <1> QED
    BY <1>6, <1>7

\* The places of the threads' lists, and of those of the threads at the places s of the list.
PlacesOf(s) == UNION {{first[x]} \X (1 .. Len(symbols[first[x]])) : x \in s}
Places == UNION {{th} \X (1 .. Len(symbols[th])) : th \in Threads}
SymbolAt(p) == symbols[p[1]][p[2]]

\* The walk meets each symbol of the threads it goes to, once.
Lays(f, w, s) ==
    /\ w \in Seq(AllSymbols)
    /\ f \in Bijection(1 .. Len(w), PlacesOf(s))
    /\ \A k \in 1 .. Len(w) : w[k] = SymbolAt(f[k])

LEMMA OneMoreThread ==
    ASSUME first \in Seq(Threads), symbols \in [Threads -> Seq(AllSymbols)],
           \A a, b \in DOMAIN first : first[a] = first[b] => a = b,
           NEW s \in SUBSET DOMAIN first, NEW x \in s, NEW f, NEW w, Lays(f, w, s \ {x})
    PROVE  \E g : Lays(g, symbols[first[x]] \o w, s)
  <1> DEFINE l == symbols[first[x]]
             n == Len(l)
             v == l \o w
             g == [k \in 1 .. Len(v) |-> IF k <= n THEN <<first[x], k>> ELSE f[k - n]]
  <1>1. /\ first[x] \in Threads /\ l \in Seq(AllSymbols) /\ n \in Nat
        /\ w \in Seq(AllSymbols) /\ Len(w) \in Nat
    BY DEF Lays
  <1>2. /\ v \in Seq(AllSymbols) /\ Len(v) = n + Len(w)
        /\ \A k \in 1 .. n : v[k] = l[k]
        /\ \A k \in n + 1 .. n + Len(w) : v[k] = w[k - n]
    BY <1>1
  <1>3. /\ f \in [1 .. Len(w) -> PlacesOf(s \ {x})]
        /\ \A a, b \in 1 .. Len(w) : f[a] = f[b] => a = b
        /\ \A p \in PlacesOf(s \ {x}) : \E k \in 1 .. Len(w) : f[k] = p
        /\ \A k \in 1 .. Len(w) : w[k] = SymbolAt(f[k])
    BY DEF Lays, Bijection, Injection, Surjection, IsInjective
  <1>4. PlacesOf(s) = PlacesOf(s \ {x}) \cup ({first[x]} \X (1 .. n))
    BY DEF PlacesOf
  <1>5. \A p \in PlacesOf(s \ {x}) : p[1] # first[x]
    <2> SUFFICES ASSUME NEW y \in s \ {x}, NEW p \in {first[y]} \X (1 .. Len(symbols[first[y]]))
                 PROVE  p[1] # first[x]
      BY DEF PlacesOf
    <2>1. p[1] = first[y]
      OBVIOUS
    <2> QED
      BY <2>1
  <1> HIDE DEF l, v, n
  <1>6. \A k \in 1 .. Len(v) : \/ k \in 1 .. n /\ g[k] = <<first[x], k>>
                               \/ k - n \in 1 .. Len(w) /\ ~(k <= n) /\ g[k] = f[k - n]
    BY <1>1, <1>2
  <1>7. \A k \in 1 .. Len(w) : f[k] \in PlacesOf(s \ {x})
    BY <1>3
  <1>8. \A k \in 1 .. n : <<first[x], k>>[1] = first[x]
    OBVIOUS
  <1>9. g \in [1 .. Len(v) -> PlacesOf(s)]
    <2> SUFFICES ASSUME NEW k \in 1 .. Len(v) PROVE g[k] \in PlacesOf(s)
      OBVIOUS
    <2> HIDE DEF g
    <2>1. CASE k \in 1 .. n /\ g[k] = <<first[x], k>>
      BY <2>1, <1>4
    <2>2. CASE k - n \in 1 .. Len(w) /\ ~(k <= n) /\ g[k] = f[k - n]
      BY <2>2, <1>3, <1>4
    <2> QED
      BY <2>1, <2>2, <1>6
  <1> HIDE DEF g
  <1>10. ASSUME NEW a \in 1 .. Len(v), NEW b \in 1 .. Len(v), g[a] = g[b] PROVE a = b
    <2>1. CASE a \in 1 .. n /\ g[a] = <<first[x], a>>
      <3>1. g[b][1] = first[x]
        BY <2>1, <1>10, <1>8
      <3>2. b \in 1 .. n /\ g[b] = <<first[x], b>>
        <4>1. CASE b - n \in 1 .. Len(w) /\ ~(b <= n) /\ g[b] = f[b - n]
          <5>1. g[b] \in PlacesOf(s \ {x})
            BY <4>1, <1>7, Zenon
          <5> QED
            BY <5>1, <3>1, <1>5
        <4> QED
          BY <4>1, <1>6
      <3> QED
        BY <2>1, <3>2, <1>10
    <2>2. CASE a - n \in 1 .. Len(w) /\ ~(a <= n) /\ g[a] = f[a - n]
      <3>1. g[b] \in PlacesOf(s \ {x})
        BY <2>2, <1>10, <1>3
      <3>2. b - n \in 1 .. Len(w) /\ g[b] = f[b - n]
        <4>1. ~(b \in 1 .. n /\ g[b] = <<first[x], b>>)
          BY <3>1, <1>5, <1>8, Zenon
        <4> QED
          BY <4>1, <1>6
      <3>3. a - n = b - n
        BY <2>2, <3>2, <1>3, <1>10
      <3> QED
        BY <3>3, <1>1, <1>2
    <2> QED
      BY <2>1, <2>2, <1>6
  <1>11. ASSUME NEW p \in PlacesOf(s) PROVE \E k \in 1 .. Len(v) : g[k] = p
    <2>1. CASE p \in PlacesOf(s \ {x})
      <3>1. PICK k \in 1 .. Len(w) : f[k] = p
        BY <2>1, <1>3
      <3>2. k + n \in 1 .. Len(v) /\ ~(k + n <= n) /\ (k + n) - n = k
        BY <1>1, <1>2
      <3> QED
        BY <3>1, <3>2 DEF g
    <2>2. CASE p \in {first[x]} \X (1 .. n)
      <3>1. PICK k \in 1 .. n : p = <<first[x], k>>
        BY <2>2
      <3>2. k \in 1 .. Len(v) /\ k <= n
        BY <1>1, <1>2
      <3> QED
        BY <3>1, <3>2 DEF g
    <2> QED
      BY <2>1, <2>2, <1>4
  <1>12. ASSUME NEW k \in 1 .. Len(v) PROVE v[k] = SymbolAt(g[k])
    <2>1. CASE k \in 1 .. n /\ g[k] = <<first[x], k>>
      BY <2>1, <1>2 DEF SymbolAt, l
    <2>2. CASE k - n \in 1 .. Len(w) /\ ~(k <= n) /\ g[k] = f[k - n]
      <3>1. k \in n + 1 .. n + Len(w)
        BY <2>2, <1>1, <1>2
      <3> QED
        BY <3>1, <2>2, <1>2, <1>3
    <2> QED
      BY <2>1, <2>2, <1>6
  <1>13. Lays(g, v, s)
    BY <1>2, <1>9, <1>10, <1>11, <1>12 DEF Lays, Bijection, Injection, Surjection, IsInjective
  <1> QED
    BY <1>13 DEF v, l

LEMMA WalkLays ==
    ASSUME first \in Seq(Threads), symbols \in [Threads -> Seq(AllSymbols)],
           \A a, b \in DOMAIN first : first[a] = first[b] => a = b
    PROVE  \E f : Lays(f, Walk, DOMAIN first)
  <1>1. PICK g : g = [s \in SUBSET DOMAIN first |-> Joined(g, s)] /\ Walk = g[DOMAIN first]
    BY WalkIsJoined
  <1> DEFINE T == {n \in Nat : \A s \in SUBSET DOMAIN first :
                                 Cardinality(s) = n => \E f : Lays(f, g[s], s)}
  <1>2. 0 \in T
    <2> SUFFICES ASSUME NEW s \in SUBSET DOMAIN first, Cardinality(s) = 0
                 PROVE  \E f : Lays(f, g[s], s)
      OBVIOUS
    <2>1. s = {}
      BY FewerThreads
    <2>2. g[s] = << >>
      BY <1>1, <2>1 DEF Joined
    <2>3. PlacesOf(s) = {}
      BY <2>1 DEF PlacesOf
    <2> DEFINE f == [k \in 1 .. 0 |-> k]
    <2>4. << >> \in Seq(AllSymbols) /\ Len(<< >>) = 0 /\ 1 .. 0 = {}
      OBVIOUS
    <2>5. Lays(f, g[s], s)
      BY <2>2, <2>3, <2>4 DEF Lays, Bijection, Injection, Surjection, IsInjective
    <2> QED
      BY <2>5
  <1>3. ASSUME NEW n \in Nat, n \in T PROVE n + 1 \in T
    <2> SUFFICES ASSUME NEW s \in SUBSET DOMAIN first, Cardinality(s) = n + 1
                 PROVE  \E f : Lays(f, g[s], s)
      OBVIOUS
    <2>1. /\ s # {} /\ Min(s) \in s /\ s \ {Min(s)} \in SUBSET DOMAIN first
          /\ Cardinality(s \ {Min(s)}) = n
      <3>1. s = {} <=> Cardinality(s) = 0
        BY FewerThreads
      <3>2. s # {}
        BY <3>1
      <3>3. (n + 1) - 1 = n
        OBVIOUS
      <3>4. /\ Min(s) \in s /\ s \ {Min(s)} \in SUBSET DOMAIN first
            /\ Cardinality(s \ {Min(s)}) = Cardinality(s) - 1
        BY <3>2, FewerThreads
      <3> QED
        BY <3>2, <3>3, <3>4
    <2>2. PICK f : Lays(f, g[s \ {Min(s)}], s \ {Min(s)})
      BY <1>3, <2>1
    <2>3. g[s] = symbols[first[Min(s)]] \o g[s \ {Min(s)}]
      BY <1>1, <2>1 DEF Joined
    <2>4. \E h : Lays(h, symbols[first[Min(s)]] \o g[s \ {Min(s)}], s)
      BY <2>1, <2>2, OneMoreThread
    <2> QED
      BY <2>3, <2>4
  <1>4. Cardinality(DOMAIN first) \in T
    <2> HIDE DEF T
    <2>1. Nat \subseteq T
      BY <1>2, <1>3, Counting
    <2>2. DOMAIN first \in SUBSET DOMAIN first
      OBVIOUS
    <2> QED
      BY <2>1, <2>2, FewerThreads
  <1> QED
    BY <1>1, <1>4

-----------------------------------------------------------------------------
(* What is made, is made once                                               *)

\* The statement a unit reads from is one of its own.
Reading ==
    \A t \in Units :
        /\ unit[t].j # 0
        /\ unit[t].pc = "gen" /\ unit[t].i # 0 => unit[t].i \in DOMAIN build.units[t]

Lists ==
    /\ symbols \in [Threads -> Seq(AllSymbols)]
    /\ IsFiniteSet(Places) /\ Cardinality(Places) = count

Apart == \A p, q \in Places : SymbolAt(p) = SymbolAt(q) => p = q

\* A unit at u has made the symbol of its statement k.
PastAt(u, k) ==
    /\ u.pc # "new"
    /\ u.pc \in {"check", "link", "create"} => k < u.i
    /\ u.pc = "export" => k <= u.i

\* What is in a list is a definition whose unit has gone past it, or an external that the
\* table has.
Known(s) ==
    IF Defined(s) THEN \E t \in Units : \E k \in Allocated(t) : s = Def(t, k) /\ PastAt(unit[t], k)
                  ELSE s.name \in Names /\ s = Ext(s.name) /\ table[s.name] # None
AllKnown == \A p \in Places : Known(SymbolAt(p))

WInv == Tables /\ Reading /\ Lists /\ Apart /\ AllKnown

LEMMA SameSymbols ==
    ASSUME build' = build
    PROVE  /\ Units' = Units /\ Names' = Names /\ AllSymbols' = AllSymbols
           /\ \A t : Allocated(t)' = Allocated(t)
           /\ \A t, k : Def(t, k)' = Def(t, k)
  <1>1. Units' = Units /\ Stmts' = Stmts
    BY DEF Units, Stmts
  <1>2. \A t, k : Stmt(t, k)' = Stmt(t, k)
    BY DEF Stmt
  <1>3. \A t, k : Def(t, k)' = Def(t, k)
    BY <1>2 DEF Def, SymbolOf
  <1>4. Names' = Names
    BY SameNames
  <1>5. \A t : Allocated(t)' = Allocated(t)
    BY SameStatements
  <1>6. AllSymbols' = AllSymbols
    BY <1>1, <1>3, <1>4, Zenon DEF AllSymbols
  <1> QED
    BY <1>1, <1>3, <1>4, <1>5, <1>6

\* Symbols of definitions and of externals.
LEMMA TwoKinds ==
    ASSUME build \in Builds, NEW t \in Units, NEW k \in DOMAIN build.units[t]
    PROVE  /\ Def(t, k) \in AllSymbols /\ Defined(Def(t, k))
           /\ \A o, m : Def(o, m) = Def(t, k) => o = t /\ m = k
           /\ Stmt(t, k).name \in Names
           /\ Ext(Stmt(t, k).name) \in AllSymbols /\ ~Defined(Ext(Stmt(t, k).name))
           /\ Ext(Stmt(t, k).name) # None /\ Def(t, k) # None
           /\ Stmt(t, k).refs \in Seq(DOMAIN build.units[t])
  <1>1. /\ Statement(Stmt(t, k)) /\ Ext(Stmt(t, k).name) # None /\ Def(t, k) # None
        /\ Stmt(t, k).refs \in Seq(DOMAIN build.units[t])
    BY SymbolsAssumption DEF Units, Stmt, Def
  <1>2. <<t, k>> \in Stmts
    BY DEF Stmts
  <1> DEFINE p == <<t, k>>
  <1>3. p \in Stmts /\ Stmt(t, k) = Stmt(p[1], p[2]) /\ Def(t, k) = Def(p[1], p[2])
    BY <1>2
  <1> HIDE DEF p
  <1>4. Stmt(t, k).name \in Names
    BY <1>3, Zenon DEF Names
  <1>5. Def(t, k) \in AllSymbols /\ Ext(Stmt(t, k).name) \in AllSymbols
    BY <1>3, <1>4, Zenon DEF AllSymbols
  <1>6. Defined(Def(t, k)) /\ ~Defined(Ext(Stmt(t, k).name))
    BY <1>1 DEF Defined, Def, SymbolOf, Ext, Statement
  <1>7. ASSUME NEW o, NEW m, Def(o, m) = Def(t, k) PROVE o = t /\ m = k
    <2>1. Def(o, m).at = <<o, m>> /\ Def(t, k).at = <<t, k>>
      BY DEF Def, SymbolOf
    <2> QED
      BY <1>7, <2>1
  <1> QED
    BY <1>1, <1>4, <1>5, <1>6, <1>7

\* A step that changes no list.
LEMMA NothingMade ==
    ASSUME WInv, Tables', Reading', UNCHANGED <<build, symbols, count>>,
           \A n \in Names : table[n] # None => table'[n] # None,
           \A t \in Units : \A k \in Allocated(t) : PastAt(unit[t], k) => PastAt(unit'[t], k)
    PROVE  WInv'
  <1>1. /\ Units' = Units /\ Names' = Names /\ AllSymbols' = AllSymbols
        /\ \A t : Allocated(t)' = Allocated(t)
        /\ \A t, k : Def(t, k)' = Def(t, k)
    BY SameSymbols
  <1>2. Places' = Places /\ \A p : SymbolAt(p)' = SymbolAt(p)
    BY DEF Places, SymbolAt
  <1>3. ASSUME NEW s, Known(s) PROVE Known(s)'
    BY <1>1, <1>3 DEF Known, Defined
  <1> QED
    BY <1>1, <1>2, <1>3 DEF WInv, Lists, Apart, AllKnown

\* A step that makes s, which nobody has.
LEMMA OneMade ==
    ASSUME WInv, Tables', Reading', UNCHANGED build,
           \A n \in Names : table[n] # None => table'[n] # None,
           \A t \in Units : \A k \in Allocated(t) : PastAt(unit[t], k) => PastAt(unit'[t], k),
           NEW th \in Threads, NEW s \in AllSymbols,
           symbols' = [symbols EXCEPT ![th] = Append(@, s)], count' = count + 1,
           ~Known(s), Known(s)'
    PROVE  WInv'
  <1> DEFINE n == Len(symbols[th])
  <1>0. PICK new : new = <<th, n + 1>>
    OBVIOUS
  <1>1. /\ Units' = Units /\ Names' = Names /\ AllSymbols' = AllSymbols
        /\ \A t : Allocated(t)' = Allocated(t)
        /\ \A t, k : Def(t, k)' = Def(t, k)
    BY SameSymbols
  <1>2. /\ symbols \in [Threads -> Seq(AllSymbols)] /\ n \in Nat
        /\ symbols' \in [Threads -> Seq(AllSymbols)]
        /\ \A q \in Threads : q # th => symbols'[q] = symbols[q]
        /\ symbols'[th] = Append(symbols[th], s)
    BY DEF WInv, Lists
  <1>3. /\ Len(symbols'[th]) = n + 1 /\ symbols'[th][n + 1] = s
        /\ \A k \in 1 .. n : symbols'[th][k] = symbols[th][k]
        /\ 1 .. n + 1 = (1 .. n) \cup {n + 1} /\ n + 1 \notin 1 .. n
    BY <1>2
  <1>4. Places' = Places \cup {new} /\ new \notin Places
    <2>1. ASSUME NEW q \in Threads, NEW k
          PROVE  <<q, k>> \in Places' <=> <<q, k>> \in Places \/ <<q, k>> = <<th, n + 1>>
      <3>1. \A l \in Nat : <<q, k>> \in {q} \X (1 .. l) <=> k \in 1 .. l
        OBVIOUS
      <3>2. <<q, k>> \in Places <=> k \in 1 .. Len(symbols[q])
        BY DEF Places
      <3>3. <<q, k>> \in Places' <=> k \in 1 .. Len(symbols'[q])
        BY DEF Places
      <3> QED
        BY <3>2, <3>3, <1>2, <1>3
    <2>2. \A p : p \in Places \/ p \in Places' => \E q \in Threads : \E k : p = <<q, k>>
      BY DEF Places
    <2>3. new \notin Places
      BY <1>0, <1>3 DEF Places
    <2> QED
      BY <1>0, <2>1, <2>2, <2>3
  <1>5. SymbolAt(new)' = s /\ \A p \in Places : SymbolAt(p)' = SymbolAt(p)
    <2>1. SymbolAt(new)' = s
      BY <1>0, <1>3 DEF SymbolAt
    <2>2. ASSUME NEW q \in Threads, NEW k \in 1 .. Len(symbols[q])
          PROVE  symbols'[q][k] = symbols[q][k]
      BY <1>2, <1>3
    <2>3. \A p \in Places : p[1] \in Threads /\ p[2] \in 1 .. Len(symbols[p[1]])
      BY DEF Places
    <2> QED
      BY <2>1, <2>2, <2>3 DEF SymbolAt
  <1>6. Lists'
    <2>1. IsFiniteSet(Places) /\ Cardinality(Places) = count
      BY DEF WInv, Lists
    <2> QED
      BY <2>1, <1>1, <1>2, <1>4, FS_AddElement DEF Lists
  <1>7. \A p \in Places : Known(SymbolAt(p)) /\ SymbolAt(p) # s
    BY DEF WInv, AllKnown
  <1>8. Apart'
    BY <1>4, <1>5, <1>7 DEF WInv, Apart
  <1>9. ASSUME NEW x, Known(x) PROVE Known(x)'
    BY <1>1, <1>9 DEF Known, Defined
  <1>10. AllKnown'
    BY <1>4, <1>5, <1>7, <1>9 DEF AllKnown
  <1> QED
    BY <1>6, <1>8, <1>10 DEF WInv

LEMMA UnitGoes ==
    ASSUME IInv, Reading, UNCHANGED build, NEW t \in Units, NEW v,
           unit' = [unit EXCEPT ![t] = v], v.j # 0,
           v.pc = "gen" /\ v.i # 0 => v.i \in DOMAIN build.units[t],
           \A k \in Allocated(t) : PastAt(unit[t], k) => PastAt(v, k)
    PROVE  /\ Reading'
           /\ \A o \in Units : \A k \in Allocated(o) :
                PastAt(unit[o], k) => PastAt(unit'[o], k)
  <1>1. unit \in [Units -> UnitState]
    BY DEF IInv, Typed
  <1>2. unit'[t] = v /\ \A o \in Units : o # t => unit'[o] = unit[o]
    BY <1>1
  <1>3. Units' = Units
    BY SameStatements
  <1> QED
    BY <1>2, <1>3 DEF Reading

LEMMA StepMakes ==
    ASSUME IInv, WInv, [Next]_vars
    PROVE  WInv'
  <1>1. /\ build \in Builds /\ unit \in [Units -> UnitState]
        /\ symbols \in [Threads -> Seq(AllSymbols)]
        /\ table = [n \in Names |-> table[n]]
    BY DEF IInv, Typed, WInv, Lists, Tables
  <1>2. Reading
    BY DEF WInv
  <1>3. Tables' /\ \A n \in Names : table[n] # None => table'[n] # None
    BY StepSettles DEF WInv
  <1>4. ASSUME NEW t \in Units
        PROVE  /\ unit[t] \in UnitState /\ unit[t].j # 0
               /\ Allocated(t) \subseteq DOMAIN build.units[t] /\ Allocated(t) \subseteq Nat \ {0}
               /\ Bodies(t) \subseteq DOMAIN build.units[t]
    BY <1>1, <1>2, UnitShape DEF Reading, Allocated, Bodies
  <1>5. ASSUME NEW t \in Units, NEW v, UNCHANGED <<build, symbols, count>>,
               unit' = [unit EXCEPT ![t] = v], v.j # 0,
               v.pc = "gen" /\ v.i # 0 => v.i \in DOMAIN build.units[t],
               \A k \in Allocated(t) : PastAt(unit[t], k) => PastAt(v, k)
        PROVE  WInv'
    BY <1>2, <1>3, <1>5, UnitGoes, NothingMade
  <1>6. ASSUME NEW t \in Units, NEW th \in Threads, StartUnit(t, th)
        PROVE  WInv'
    <2> DEFINE u == [unit[t] EXCEPT !.thread = th]
               v == NextAlloc(u, t, 0)
    <2>1. u \in UnitState /\ u.j = unit[t].j /\ 0 \in Nat
      BY <1>4 DEF UnitState
    <2>2. /\ UNCHANGED <<build, symbols, count>> /\ unit' = [unit EXCEPT ![t] = v]
          /\ unit[t].pc = "new"
      BY <1>6 DEF StartUnit
    <2> HIDE DEF u
    <2>3. v = NextAlloc(u, t, 0)
      OBVIOUS
    <2> HIDE DEF v
    <2>4. /\ v.j \in {u.j, 1}
          /\ v.pc = "gen" => v.i = 0
      BY <2>1, <2>3, <1>1, NextAllocMoves
    <2>5. v.j # 0 /\ (v.pc = "gen" /\ v.i # 0 => v.i \in DOMAIN build.units[t])
      BY <2>1, <2>4, <1>4
    <2>6. \A k \in Allocated(t) : PastAt(unit[t], k) => PastAt(v, k)
      BY <2>2 DEF PastAt
    <2> QED
      BY <2>2, <2>5, <2>6, <1>5
  <1>7. ASSUME NEW t \in Units, CheckInline(t)
        PROVE  WInv'
    <2> DEFINE v == NextAlloc(unit[t], t, unit[t].i)
               w == [unit[t] EXCEPT !.pc = "create"]
    <2>1. unit[t].pc = "check" /\ unit[t].i \in Nat
      BY <1>4, <1>7 DEF CheckInline, UnitState
    <2>2. /\ v.j \in {unit[t].j, 1}
          /\ \/ v.pc = "check" /\ v.i \in Allocated(t) /\ v.i > unit[t].i
             \/ v.pc = "gen" /\ v.i = 0
      BY <2>1, <1>1, <1>4, NextAllocMoves
    <2>3. w.pc = "create" /\ w.i = unit[t].i /\ w.j = unit[t].j
      BY <1>4 DEF UnitState
    <2>4. /\ UNCHANGED <<build, symbols, count>>
          /\ unit' = [unit EXCEPT ![t] = v] \/ unit' = [unit EXCEPT ![t] = w]
      BY <1>7, <1>1 DEF CheckInline
    <2> HIDE DEF v, w
    <2>5. \A k \in Allocated(t) : PastAt(unit[t], k) => PastAt(v, k) /\ PastAt(w, k)
      BY <2>1, <2>2, <2>3, <1>4 DEF PastAt
    <2> QED
      BY <2>2, <2>3, <2>4, <2>5, <1>4, <1>5
  <1>8. ASSUME NEW t \in Units, LoadFirst(t)
        PROVE  WInv'
    <2> DEFINE v == [unit[t] EXCEPT !.pc = "link", !.top = first]
    <2>1. /\ unit[t].pc = "create" /\ UNCHANGED <<build, symbols, count>>
          /\ unit' = [unit EXCEPT ![t] = v]
      BY <1>8, <1>1 DEF LoadFirst
    <2>2. v.pc = "link" /\ v.i = unit[t].i /\ v.j = unit[t].j
      BY <1>4 DEF UnitState
    <2> HIDE DEF v
    <2>3. \A k \in Allocated(t) : PastAt(unit[t], k) => PastAt(v, k)
      BY <2>1, <2>2 DEF PastAt
    <2> QED
      BY <2>1, <2>2, <2>3, <1>4, <1>5
  <1>9. ASSUME NEW t \in Units, LinkThread(t)
        PROVE  WInv'
    <2> DEFINE v == [unit[t] EXCEPT !.pc = "create", !.top = <<>>]
    <2>1. /\ unit[t].pc = "link" /\ UNCHANGED <<build, symbols, count>>
          /\ unit' = [unit EXCEPT ![t] = v]
      BY <1>9, <1>1 DEF LinkThread
    <2>2. v.pc = "create" /\ v.i = unit[t].i /\ v.j = unit[t].j
      BY <1>4 DEF UnitState
    <2> HIDE DEF v
    <2>3. \A k \in Allocated(t) : PastAt(unit[t], k) => PastAt(v, k)
      BY <2>1, <2>2 DEF PastAt
    <2> QED
      BY <2>1, <2>2, <2>3, <1>4, <1>5
  <1>10. ASSUME NEW t \in Units, CreateSymbol(t)
         PROVE  WInv'
    <2> DEFINE v == [unit[t] EXCEPT !.pc = "export"]
    <2>0. PICK i, th, s : i = unit[t].i /\ th = unit[t].thread /\ s = Def(t, i)
      OBVIOUS
    <2>1. /\ unit[t].pc = "create" /\ i \in Allocated(t) /\ th \in Threads
          /\ UNCHANGED <<build, table>> /\ unit' = [unit EXCEPT ![t] = v]
          /\ symbols' = [symbols EXCEPT ![th] = Append(@, s)] /\ count' = count + 1
      BY <2>0, <1>10, <1>1 DEF CreateSymbol, IInv, Typed, Cursor, Allocating
    <2>2. v.pc = "export" /\ v.i = i /\ v.j = unit[t].j
      BY <2>0, <1>4 DEF UnitState
    <2> HIDE DEF v
    <2>3. \A k \in Allocated(t) : PastAt(unit[t], k) => PastAt(v, k)
      BY <2>0, <2>1, <2>2, <1>4 DEF PastAt
    <2>4. /\ Reading'
          /\ \A o \in Units : \A k \in Allocated(o) :
               PastAt(unit[o], k) => PastAt(unit'[o], k)
      BY <2>1, <2>2, <2>3, <1>2, <1>4, UnitGoes
    <2>5. /\ s \in AllSymbols /\ Defined(s)
          /\ \A o, m : Def(o, m) = s => o = t /\ m = i
      <3>1. i \in DOMAIN build.units[t]
        BY <2>1, <1>4
      <3> QED
        BY <2>0, <3>1, <1>1, TwoKinds
    <2>6. ~Known(s)
      <3>1. ~PastAt(unit[t], i)
        BY <2>0, <2>1, <1>4 DEF PastAt
      <3> QED
        BY <3>1, <2>5 DEF Known
    <2>7. Known(s)'
      <3>1. PastAt(unit'[t], i)
        BY <2>1, <2>2, <1>1, <1>4 DEF PastAt
      <3>2. /\ Units' = Units /\ \A o : Allocated(o)' = Allocated(o)
            /\ \A o, m : Def(o, m)' = Def(o, m)
        BY <2>1, SameSymbols
      <3>3. i \in Allocated(t)' /\ s = Def(t, i)'
        BY <2>0, <2>1, <3>2
      <3>4. Defined(s)' <=> Defined(s)
        BY DEF Defined
      <3> QED
        BY <2>5, <3>1, <3>2, <3>3, <3>4 DEF Known
    <2> QED
      BY <2>1, <2>4, <2>5, <2>6, <2>7, <1>3, OneMade
  <1>11. ASSUME NEW t \in Units, ExportSymbol(t)
         PROVE  WInv'
    <2> DEFINE v == NextAlloc(unit[t], t, unit[t].i)
    <2>1. unit[t].pc = "export" /\ unit[t].i \in Nat
      BY <1>4, <1>11 DEF ExportSymbol, UnitState
    <2>2. /\ v.j \in {unit[t].j, 1}
          /\ \/ v.pc = "check" /\ v.i \in Allocated(t) /\ v.i > unit[t].i
             \/ v.pc = "gen" /\ v.i = 0
      BY <2>1, <1>1, <1>4, NextAllocMoves
    <2>3. UNCHANGED <<build, symbols, count>> /\ unit' = [unit EXCEPT ![t] = v]
      BY <1>11 DEF ExportSymbol
    <2> HIDE DEF v
    <2>4. \A k \in Allocated(t) : PastAt(unit[t], k) => PastAt(v, k)
      BY <2>1, <2>2, <1>4 DEF PastAt
    <2>5. v.j # 0 /\ (v.pc = "gen" /\ v.i # 0 => v.i \in DOMAIN build.units[t])
      BY <2>2, <1>4
    <2> QED
      BY <2>3, <2>4, <2>5, <1>5
  <1>12. ASSUME NEW t \in Units, Reference(t)
         PROVE  WInv'
    <2> DEFINE v == [unit[t] EXCEPT !.j = unit[t].j + 1]
    <2>0. PICK i, j, k, n, th, s :
            /\ i = unit[t].i /\ j = unit[t].j /\ th = unit[t].thread
            /\ k = Stmt(t, i).refs[j] /\ n = Stmt(t, k).name /\ s = Ext(n)
      OBVIOUS
    <2>1. /\ unit[t].pc = "gen" /\ i # 0 /\ j <= Len(Stmt(t, i).refs)
          /\ UNCHANGED build /\ unit' = [unit EXCEPT ![t] = v]
          /\ \/ UNCHANGED <<symbols, count>>
             \/ /\ table[n] = None /\ table' = [table EXCEPT ![n] = s]
                /\ symbols' = [symbols EXCEPT ![th] = Append(@, s)] /\ count' = count + 1
      BY <2>0, <1>12 DEF Reference
    <2>2. v.pc = "gen" /\ v.i = i /\ v.j = j + 1 /\ j \in Nat \ {0} /\ th \in Threads
      BY <2>0, <2>1, <1>4 DEF UnitState, IInv, Typed
    <2> HIDE DEF v
    <2>3. \A m \in Allocated(t) : PastAt(unit[t], m) => PastAt(v, m)
      BY <2>1, <2>2 DEF PastAt
    <2>4. i \in DOMAIN build.units[t]
      BY <2>0, <2>1, <1>2 DEF Reading
    <2>5. v.j # 0 /\ (v.pc = "gen" /\ v.i # 0 => v.i \in DOMAIN build.units[t])
      BY <2>2, <2>4
    <2>6. CASE UNCHANGED <<symbols, count>>
      BY <2>1, <2>3, <2>5, <2>6, <1>5
    <2>7. CASE /\ table[n] = None /\ table' = [table EXCEPT ![n] = s]
               /\ symbols' = [symbols EXCEPT ![th] = Append(@, s)] /\ count' = count + 1
      <3>1. k \in DOMAIN build.units[t]
        <4>1. Stmt(t, i).refs \in Seq(DOMAIN build.units[t])
          BY <2>4, <1>1, TwoKinds
        <4>2. j \in 1 .. Len(Stmt(t, i).refs)
          BY <4>1, <2>1, <2>2
        <4> QED
          BY <2>0, <4>1, <4>2
      <3>2. n \in Names /\ s \in AllSymbols /\ ~Defined(s) /\ s # None
        BY <2>0, <3>1, <1>1, TwoKinds
      <3>3. s.name = n
        BY <2>0 DEF Ext
      <3>4. ~Known(s)
        BY <2>7, <3>2, <3>3 DEF Known
      <3>5. table'[n] = s
        BY <2>7, <3>2, <1>1
      <3>6. Known(s)'
        <4>1. Names' = Names /\ Ext(n)' = Ext(n) /\ (Defined(s)' <=> Defined(s))
          BY <2>1, SameSymbols DEF Ext, Defined
        <4> QED
          BY <2>0, <4>1, <3>2, <3>3, <3>5 DEF Known
      <3>7. /\ Reading'
            /\ \A o \in Units : \A m \in Allocated(o) :
                 PastAt(unit[o], m) => PastAt(unit'[o], m)
        BY <2>1, <2>3, <2>5, <1>2, UnitGoes
      <3> QED
        BY <2>1, <2>2, <2>7, <3>2, <3>4, <3>6, <3>7, <1>3, OneMade
    <2> QED
      BY <2>1, <2>6, <2>7
  <1>13. ASSUME NEW t \in Units, NextBody(t)
         PROVE  WInv'
    <2> DEFINE k == After(Bodies(t), unit[t].i)
               v == [unit[t] EXCEPT !.i = k, !.j = 1, !.pc = IF k = 0 THEN "done" ELSE "gen"]
    <2>1. /\ unit[t].pc = "gen" /\ unit[t].i \in Nat /\ UNCHANGED <<build, symbols, count>>
          /\ unit' = [unit EXCEPT ![t] = v]
      BY <1>4, <1>13 DEF NextBody, UnitState
    <2>2. k # 0 => k \in DOMAIN build.units[t]
      <3> DEFINE B == Bodies(t)
      <3>1. B \in SUBSET (Nat \ {0}) /\ B \subseteq DOMAIN build.units[t]
        BY <1>1, <1>4, UnitShape
      <3> HIDE DEF B
      <3>2. After(B, unit[t].i) # 0 => After(B, unit[t].i) \in B
        BY <2>1, <3>1, AfterIsNext
      <3> QED
        BY <3>1, <3>2 DEF B
    <2> HIDE DEF k
    <2>3. v.pc = (IF k = 0 THEN "done" ELSE "gen") /\ v.i = k /\ v.j = 1
      BY <1>4 DEF UnitState
    <2> HIDE DEF v
    <2>4. \A m \in Allocated(t) : PastAt(unit[t], m) => PastAt(v, m)
      BY <2>3 DEF PastAt
    <2>5. v.j # 0 /\ (v.pc = "gen" /\ v.i # 0 => v.i \in DOMAIN build.units[t])
      BY <2>2, <2>3
    <2> QED
      BY <2>1, <2>4, <2>5, <1>5
  <1>14. CASE UNCHANGED <<build, unit, symbols, count>>
    <2>1. Reading'
      <3>1. Units' = Units
        BY <1>14, SameStatements
      <3> QED
        BY <1>2, <1>14, <3>1 DEF Reading
    <2> QED
      BY <1>3, <1>14, <2>1, NothingMade
  <1> QED
    BY <1>6, <1>7, <1>8, <1>9, <1>10, <1>11, <1>12, <1>13, <1>14
       DEF Next, Compile, WriteObject, vars

LEMMA InitMakes == Init => WInv
  <1> SUFFICES ASSUME Init PROVE WInv
    OBVIOUS
  <1>1. symbols = [th \in Threads |-> << >>] /\ count = 0
    BY DEF Init
  <1>2. Places = {}
    <2>1. \A th \in Threads : 1 .. Len(symbols[th]) = {}
      BY <1>1
    <2> QED
      BY <2>1 DEF Places
  <1>3. Lists
    <2>1. << >> \in Seq(AllSymbols)
      OBVIOUS
    <2> QED
      BY <1>1, <1>2, <2>1, FS_EmptySet DEF Lists
  <1>4. Tables /\ Reading
    BY DEF Init, Tables, Reading
  <1> QED
    BY <1>2, <1>3, <1>4 DEF WInv, Apart, AllKnown

LEMMA AllWalked == IInv /\ WInv => EverySymbolWalked
  <1> SUFFICES ASSUME IInv, WInv PROVE Len(Walk) = count /\ IsInjective(Walk)
    BY DEF EverySymbolWalked
  <1>1. /\ first \in Seq(Threads) /\ symbols \in [Threads -> Seq(AllSymbols)]
        /\ \A a, b \in DOMAIN first : first[a] = first[b] => a = b
        /\ \A th \in Threads : symbols[th] # << >> => \E k \in 1 .. Len(first) : first[k] = th
        /\ Cardinality(Places) = count
    BY DEF IInv, Typed, WInv, Lists, ThreadsStayListed, Contains
  <1>2. PICK f : Lays(f, Walk, DOMAIN first)
    BY <1>1, WalkLays
  <1>3. PlacesOf(DOMAIN first) = Places
    <2>1. ASSUME NEW th \in Threads, NEW k \in 1 .. Len(symbols[th])
          PROVE  \E x \in DOMAIN first : first[x] = th
      <3>1. symbols[th] # << >>
        BY <1>1
      <3> QED
        BY <3>1, <1>1
    <2>2. \A x \in DOMAIN first : first[x] \in Threads
      BY <1>1
    <2> QED
      BY <2>1, <2>2 DEF PlacesOf, Places
  <1>4. /\ Walk \in Seq(AllSymbols) /\ Len(Walk) \in Nat /\ DOMAIN Walk = 1 .. Len(Walk)
        /\ f \in Bijection(1 .. Len(Walk), Places)
        /\ \A k \in 1 .. Len(Walk) : Walk[k] = SymbolAt(f[k])
    BY <1>2, <1>3 DEF Lays
  <1>5. Len(Walk) = count
    BY <1>1, <1>4, FS_CountingElements DEF ExistsBijection
  <1>6. /\ \A k \in 1 .. Len(Walk) : f[k] \in Places
        /\ \A a, b \in 1 .. Len(Walk) : f[a] = f[b] => a = b
    BY <1>4 DEF Bijection, Injection, IsInjective
  <1>7. \A a, b \in 1 .. Len(Walk) : Walk[a] = Walk[b] => a = b
    BY <1>4, <1>6 DEF WInv, Apart
  <1> QED
    BY <1>4, <1>5, <1>7 DEF IsInjective

\* The writers' walk over the threads' lists meets as many symbols as were made, each of
\* them once (property EverySymbolWalked): for any units and threads, and however their
\* steps and the pushes onto the module's list interleave.
THEOREM NoSymbolIsLost == Spec => []EverySymbolWalked
  <1>1. Init => IInv /\ WInv
    BY InitIInv, InitMakes
  <1>2. IInv /\ WInv /\ [Next]_vars => (IInv /\ WInv)'
    BY StepKeepsIInv, StepMakes
  <1> QED
    BY <1>1, <1>2, AllWalked, PTL DEF Spec

-----------------------------------------------------------------------------
(* One body for each name                                                   *)

\* What C asks of the units: they have at most one function of a name, that of a header
\* included by several apart: who names such a function has its definition.
InlineInHeaders ==
    \A p, q \in Stmts :
        LET s == Stmt(p[1], p[2])
            r == Stmt(q[1], q[2])
        IN  p # q /\ s.name = r.name =>
                /\ s.inline => r.inline
                /\ s.op = "func" /\ r.op = "func" /\ ~s.static /\ ~r.static => s.inline

\* A unit at u is done with its statement k as far as the export table goes.
OutAt(u, k) ==
    /\ u.pc # "new"
    /\ u.pc \in Allocating => k < u.i

\* What has been made of statement k of unit t: a function that is there when it is
\* backed, and an inline one only if its name in the table is itself.
Settled(t, k) ==
    LET n == Stmt(t, k).name
    IN  /\ PastAt(unit[t], k) /\ <<t, k>> \in backed => backing[<<t, k>>] = Def(t, k)
        /\ Stmt(t, k).inline /\ OutAt(unit[t], k) =>
             IF <<t, k>> \in backed THEN table[n] = Def(t, k) ELSE table[n] # None

\* A function that stays: its unit has exported it and keeps its body.
Stays(s) ==
    \E t \in Units : \E k \in Allocated(t) :
        /\ s = Def(t, k) /\ <<t, k>> \in backed /\ OutAt(unit[t], k)
        /\ Stmt(t, k).op = "func"

NoInlineExternal == \A p \in Stmts :
    Stmt(p[1], p[2]).inline => table[Stmt(p[1], p[2]).name] # Ext(Stmt(p[1], p[2]).name)

BInv ==
    /\ backing = [p \in Stmts |-> backing[p]]
    /\ \A t \in Units : \A k \in Allocated(t) : Settled(t, k)
    /\ \A t \in Units : unit[t].pc = "gen" /\ unit[t].i # 0 => unit[t].i \in Bodies(t)
    /\ \A s \in built : Stays(s)
    /\ NoInlineExternal

-----------------------------------------------------------------------------
(* What a used function names is used                                       *)

\* sema's closure in steps: S after n of them.
Wave(ss, g, n) == IF n = 0 THEN {i \in DOMAIN ss : Root(ss[i])}
                  ELSE g[n-1] \cup UNION {ToSet(ss[i].refs) : i \in g[n-1]}

LEMMA WavesExist ==
    ASSUME NEW ss, NEW m \in Nat
    PROVE  \E g : g = [n \in 0 .. m |-> Wave(ss, g, n)]
  <1> DEFINE Upto(g, k) == \A n \in 0 .. m : n <= k => g[n] = Wave(ss, g, n)
             T == {k \in Nat : \E g : Upto(g, k)}
  <1>1. 0 \in T
    <2> DEFINE g == [n \in 0 .. m |-> {i \in DOMAIN ss : Root(ss[i])}]
    <2>1. \A n \in 0 .. m : n <= 0 => n = 0
      OBVIOUS
    <2>2. Upto(g, 0)
      BY <2>1 DEF Wave
    <2> QED
      BY <2>2
  <1>2. ASSUME NEW k \in Nat, k \in T PROVE k + 1 \in T
    <2>1. PICK g : Upto(g, k)
      BY <1>2
    <2> DEFINE h == [n \in 0 .. m |-> Wave(ss, g, n)]
    <2>2. ASSUME NEW n \in 0 .. m, n <= k + 1 PROVE h[n] = Wave(ss, h, n)
      <3>1. CASE n = 0
        BY <3>1 DEF Wave
      <3>2. CASE n # 0
        <4>1. n - 1 \in 0 .. m /\ n - 1 <= k
          BY <2>2, <3>2
        <4>2. g[n-1] = h[n-1]
          BY <2>1, <4>1
        <4> QED
          BY <3>2, <4>2 DEF Wave
      <3> QED
        BY <3>1, <3>2
    <2> HIDE DEF h
    <2>3. Upto(h, k + 1)
      BY <2>2
    <2> QED
      BY <2>3
  <1>3. m \in T
    <2> HIDE DEF T
    <2> QED
      BY <1>1, <1>2, Counting
  <1>4. PICK g : Upto(g, m)
    BY <1>3
  <1> DEFINE h == [n \in 0 .. m |-> g[n]]
  <1>5. ASSUME NEW n \in 0 .. m PROVE g[n] = Wave(ss, h, n)
    <2>1. g[n] = Wave(ss, g, n)
      BY <1>4
    <2>2. CASE n = 0
      BY <2>1, <2>2 DEF Wave
    <2>3. CASE n # 0
      <3>1. h[n-1] = g[n-1]
        BY <2>3
      <3> HIDE DEF h
      <3> QED
        BY <2>1, <2>3, <3>1 DEF Wave
    <2> QED
      BY <2>2, <2>3
  <1>6. h = [n \in 0 .. m |-> Wave(ss, h, n)]
    BY <1>5
  <1> QED
    BY <1>6

\* With each step the set has grown, or it is closed: after Len(ss) of them it is.
LEMMA ReachedIsClosed ==
    ASSUME NEW ss, ss \in Seq(ToSet(ss)), \A i \in DOMAIN ss : ss[i].refs \in Seq(DOMAIN ss)
    PROVE  \A i \in Reached(ss) : i \in DOMAIN ss /\ ToSet(ss[i].refs) \subseteq Reached(ss)
  <1> DEFINE m == Len(ss)
             g == CHOOSE f : f = [n \in 0 .. m |-> Wave(ss, f, n)]
             Closed(S) == \A i \in S : ToSet(ss[i].refs) \subseteq S
             T == {n \in Nat : n <= m => /\ g[n] \subseteq 1 .. m
                                         /\ Closed(g[n]) \/ Cardinality(g[n]) > n}
  <1>1. m \in Nat /\ DOMAIN ss = 1 .. m
    OBVIOUS
  <1>2. g = [n \in 0 .. m |-> Wave(ss, g, n)]
    BY <1>1, WavesExist
  <1>3. Reached(ss) = g[m]
    BY DEF Reached, Wave
  <1> HIDE DEF g, m
  <1>4. \A S \in SUBSET (1 .. m) : IsFiniteSet(S) /\ Cardinality(S) \in Nat /\ Cardinality(S) <= m
    <2>1. IsFiniteSet(1 .. m) /\ Cardinality(1 .. m) = m
      BY <1>1, FS_Interval
    <2> QED
      BY <2>1, FS_Subset, FS_CardinalityType
  <1>5. 0 \in T
    <2>1. g[0] = {i \in DOMAIN ss : Root(ss[i])}
      BY <1>1, <1>2 DEF Wave
    <2>2. g[0] \subseteq 1 .. m
      BY <1>1, <2>1
    <2>3. Closed(g[0]) \/ Cardinality(g[0]) > 0
      <3>1. IsFiniteSet(g[0]) /\ Cardinality(g[0]) \in Nat
        BY <2>2, <1>4
      <3>2. g[0] # {} => Cardinality(g[0]) > 0
        BY <3>1, FS_EmptySet
      <3>3. g[0] = {} => Closed(g[0])
        OBVIOUS
      <3> QED
        BY <3>2, <3>3
    <2> QED
      BY <2>2, <2>3
  <1>6. ASSUME NEW n \in Nat, n \in T PROVE n + 1 \in T
    <2> SUFFICES ASSUME n + 1 <= m
                 PROVE  /\ g[n+1] \subseteq 1 .. m
                        /\ Closed(g[n+1]) \/ Cardinality(g[n+1]) > n + 1
      OBVIOUS
    <2>1. g[n+1] = g[n] \cup UNION {ToSet(ss[i].refs) : i \in g[n]}
      <3>1. n + 1 \in 0 .. m /\ n + 1 # 0 /\ (n + 1) - 1 = n
        BY <1>1
      <3> QED
        BY <3>1, <1>2 DEF Wave
    <2>2. g[n] \subseteq 1 .. m /\ (Closed(g[n]) \/ Cardinality(g[n]) > n)
      BY <1>1, <1>6
    <2>3. g[n+1] \subseteq 1 .. m
      BY <2>1, <2>2, <1>1 DEF ToSet
    <2>4. CASE Closed(g[n])
      BY <2>1, <2>3, <2>4
    <2>5. CASE ~Closed(g[n])
      <3>1. PICK x \in g[n+1] : x \notin g[n]
        BY <2>1, <2>5
      <3>2. g[n] \cup {x} \subseteq g[n+1]
        BY <2>1, <3>1
      <3>3. Cardinality(g[n] \cup {x}) = Cardinality(g[n]) + 1
        BY <3>1, <2>2, <1>4, FS_AddElement
      <3>4. Cardinality(g[n] \cup {x}) <= Cardinality(g[n+1])
        BY <3>2, <2>3, <1>4, FS_Subset
      <3>5. Cardinality(g[n]) \in Nat /\ Cardinality(g[n+1]) \in Nat
        BY <2>2, <2>3, <1>4
      <3>6. Cardinality(g[n]) > n
        BY <2>2, <2>5
      <3>7. Cardinality(g[n+1]) > n + 1
        BY <3>3, <3>4, <3>5, <3>6
      <3> QED
        BY <2>3, <3>7
    <2> QED
      BY <2>4, <2>5
  <1>7. m \in T
    <2> HIDE DEF T
    <2> QED
      BY <1>1, <1>5, <1>6, Counting
  <1>8. g[m] \subseteq 1 .. m /\ Closed(g[m])
    BY <1>1, <1>4, <1>7
  <1> QED
    BY <1>1, <1>3, <1>8

LEMMA UsedIsClosed ==
    ASSUME build \in Builds, NEW t \in Units, NEW i \in Used(t)
    PROVE  /\ i \in DOMAIN build.units[t]
           /\ \A k \in ToSet(Stmt(t, i).refs) : k \in Used(t)
  <1>1. /\ build.units[t] \in Seq(ToSet(build.units[t]))
        /\ \A k \in DOMAIN build.units[t] :
             build.units[t][k].refs \in Seq(DOMAIN build.units[t])
    BY SymbolsAssumption DEF Units
  <1> DEFINE ss == build.units[t]
  <1> HIDE DEF ss
  <1>2. \A k \in Reached(ss) : k \in DOMAIN ss /\ ToSet(ss[k].refs) \subseteq Reached(ss)
    BY <1>1, ReachedIsClosed DEF ss
  <1> QED
    BY <1>2 DEF Used, Stmt, ss

-----------------------------------------------------------------------------
(* Steps                                                                    *)

LEMMA SameBuild ==
    ASSUME build' = build
    PROVE  /\ Units' = Units /\ Stmts' = Stmts /\ Names' = Names
           /\ \A t : Allocated(t)' = Allocated(t)
           /\ \A t, k : Stmt(t, k)' = Stmt(t, k) /\ Def(t, k)' = Def(t, k)
  <1>1. Stmts' = Stmts /\ \A t, k : Stmt(t, k)' = Stmt(t, k)
    BY DEF Stmts, Units, Stmt
  <1> QED
    BY <1>1, SameSymbols

\* Statements by their unit and their place in it.
LEMMA StmtsOf ==
    ASSUME build \in Builds, NEW t \in Units
    PROVE  /\ \A k \in DOMAIN build.units[t] : <<t, k>> \in Stmts
           /\ Allocated(t) \subseteq DOMAIN build.units[t] /\ Allocated(t) \subseteq Nat \ {0}
           /\ \A k \in DOMAIN build.units[t] :
                Stmt(t, k).op = "func" /\ k \in Used(t) => k \in Allocated(t)
           /\ \A k \in Bodies(t) : <<t, k>> \in backed /\ Stmt(t, k).op = "func"
  <1>1. \A k \in DOMAIN build.units[t] : <<t, k>> \in Stmts
    BY DEF Stmts
  <1> QED
    BY <1>1, UnitShape DEF Allocated, Backed, Bodies

\* A step of unit t leaves what the others have made as it was.
LEMMA OthersSettled ==
    ASSUME IInv, Tables, BInv, build' = build, NEW t \in Units, NEW o \in Units, o # t,
           unit'[o] = unit[o],
           \A n \in Names : table[n] # None => table'[n] = table[n],
           \A k \in Allocated(o) : /\ <<o, k>> \in backed' <=> <<o, k>> \in backed
                                   /\ backing'[<<o, k>>] = backing[<<o, k>>]
    PROVE  \A k \in Allocated(o) : Settled(o, k)'
  <1> SUFFICES ASSUME NEW k \in Allocated(o) PROVE Settled(o, k)'
    OBVIOUS
  <1>1. Settled(o, k) /\ build \in Builds
    BY DEF BInv, IInv, Typed
  <1>2. Stmt(o, k)' = Stmt(o, k) /\ Def(o, k)' = Def(o, k)
    BY SameBuild
  <1>3. Stmt(o, k).name \in Names /\ Def(o, k) # None
    BY <1>1, StmtsOf, TwoKinds
  <1> QED
    BY <1>1, <1>2, <1>3 DEF Settled

\* A step of unit t that generates no body.
LEMMA UnitSettles ==
    ASSUME IInv, Tables, BInv, build' = build, NEW t \in Units, NEW v,
           unit' = [unit EXCEPT ![t] = v],
           \A n \in Names : table[n] # None => table'[n] = table[n],
           \A o \in Units : o # t => \A k : <<o, k>> \in backed' <=> <<o, k>> \in backed,
           \A o \in Units : o # t => \A k \in Allocated(o) :
              backing'[<<o, k>>] = backing[<<o, k>>],
           backing' = [p \in Stmts |-> backing'[p]],
           \A k \in Allocated(t) : Settled(t, k)',
           \A k \in Allocated(t) : OutAt(unit[t], k) /\ <<t, k>> \in backed =>
              OutAt(v, k) /\ <<t, k>> \in backed',
           v.pc = "gen" /\ v.i # 0 => v.i \in Bodies(t)',
           \A s \in built' : s \in built \/
              \E k \in Allocated(t) : /\ s = Def(t, k) /\ <<t, k>> \in backed' /\ OutAt(v, k)
                                      /\ Stmt(t, k).op = "func",
           NoInlineExternal'
    PROVE  BInv'
  <1>1. /\ Units' = Units /\ Stmts' = Stmts
        /\ \A o : Allocated(o)' = Allocated(o)
        /\ \A o, k : Stmt(o, k)' = Stmt(o, k) /\ Def(o, k)' = Def(o, k)
    BY SameBuild
  <1>2. unit'[t] = v /\ \A o \in Units : o # t => unit'[o] = unit[o]
    BY DEF IInv, Typed
  <1>3. \A o \in Units : \A k \in Allocated(o) : Settled(o, k)'
    <2> SUFFICES ASSUME NEW o \in Units, o # t
                 PROVE  \A k \in Allocated(o) : Settled(o, k)'
      OBVIOUS
    <2> QED
      BY <1>2, OthersSettled
  <1>4. ASSUME NEW o \in Units, unit'[o].pc = "gen", unit'[o].i # 0
        PROVE  unit'[o].i \in Bodies(o)'
    <2>1. CASE o = t
      BY <1>2, <1>4, <2>1
    <2>2. CASE o # t
      <3>1. unit'[o].i \in Bodies(o)
        BY <1>2, <1>4, <2>2 DEF BInv
      <3> QED
        BY <3>1, <2>2, <1>1 DEF Bodies
    <2> QED
      BY <2>1, <2>2
  <1>5. ASSUME NEW s \in built' PROVE Stays(s)'
    <2>1. ASSUME NEW o \in Units, NEW k \in Allocated(o), s = Def(o, k),
                 <<o, k>> \in backed', OutAt(unit'[o], k), Stmt(o, k).op = "func"
          PROVE  Stays(s)'
      BY <1>1, <2>1 DEF Stays
    <2>2. CASE \E k \in Allocated(t) : /\ s = Def(t, k) /\ <<t, k>> \in backed' /\ OutAt(v, k)
                                       /\ Stmt(t, k).op = "func"
      BY <1>2, <2>1, <2>2
    <2>3. CASE s \in built
      <3>1. PICK o \in Units : \E k \in Allocated(o) :
              /\ s = Def(o, k) /\ <<o, k>> \in backed /\ OutAt(unit[o], k)
              /\ Stmt(o, k).op = "func"
        BY <2>3 DEF BInv, Stays
      <3>2. PICK k \in Allocated(o) : /\ s = Def(o, k) /\ <<o, k>> \in backed
                                      /\ OutAt(unit[o], k) /\ Stmt(o, k).op = "func"
        BY <3>1
      <3>3. <<o, k>> \in backed' /\ OutAt(unit'[o], k)
        <4>1. CASE o = t
          BY <3>2, <4>1, <1>2
        <4>2. CASE o # t
          BY <3>2, <4>2, <1>2
        <4> QED
          BY <4>1, <4>2
      <3> QED
        BY <3>2, <3>3, <2>1
    <2> QED
      BY <2>2, <2>3
  <1> QED
    BY <1>1, <1>3, <1>4, <1>5 DEF BInv

\* A body names statements that are used, so that they have been allocated before.
LEMMA ReferenceReads ==
    ASSUME IInv, WInv, BInv, NEW t \in Units, Reference(t),
           NEW k, k = Stmt(t, unit[t].i).refs[unit[t].j]
    PROVE  k \in Used(t) /\ k \in DOMAIN build.units[t] /\ <<t, k>> \in Stmts
  <1>1. build \in Builds /\ unit[t] \in UnitState
    BY DEF IInv, Typed
  <1>2. PICK i, j : i = unit[t].i /\ j = unit[t].j
    OBVIOUS
  <1>3. unit[t].pc = "gen" /\ i # 0 /\ j <= Len(Stmt(t, i).refs) /\ j \in Nat
    BY <1>1, <1>2 DEF Reference, UnitState
  <1>4. i \in Bodies(t)
    BY <1>2, <1>3 DEF BInv
  <1>5. i \in Used(t)
    <2>1. i \in Backed(t) /\ Stmt(t, i).op = "func"
      BY <1>4 DEF Bodies, IInv, Cursor
    <2>2. Stmt(t, i).op # "global"
      BY <2>1
    <2> QED
      BY <2>1, <2>2 DEF Backed
  <1>6. Stmt(t, i).refs \in Seq(DOMAIN build.units[t])
    <2>1. i \in DOMAIN build.units[t]
      BY <1>1, <1>5, UsedIsClosed
    <2> QED
      BY <2>1, <1>1, TwoKinds
  <1>7. j # 0
    BY <1>2 DEF WInv, Reading
  <1>8. j \in DOMAIN Stmt(t, i).refs
    BY <1>3, <1>6, <1>7
  <1>9. k \in ToSet(Stmt(t, i).refs)
    BY <1>2, <1>8 DEF ToSet
  <1>10. k \in Used(t) /\ k \in DOMAIN build.units[t]
    BY <1>1, <1>5, <1>9, UsedIsClosed
  <1> QED
    BY <1>1, <1>10, StmtsOf

LEMMA StepBodies ==
    ASSUME IInv, WInv, BInv, InlineInHeaders, [Next]_vars
    PROVE  BInv'
  <1>1. /\ build \in Builds /\ unit \in [Units -> UnitState]
        /\ backing = [p \in Stmts |-> backing[p]] /\ table = [n \in Names |-> table[n]]
    BY DEF IInv, Typed, WInv, Tables, BInv
  <1> Tables
    BY DEF WInv
  <1>2. \A n \in Names : table[n] # None => table'[n] = table[n]
    BY StepSettles
  <1>3. ASSUME NEW t \in Units
        PROVE  /\ unit[t] \in UnitState
               /\ \A k \in Allocated(t) :
                    /\ k \in DOMAIN build.units[t] /\ k \in Nat \ {0} /\ <<t, k>> \in Stmts
                    /\ Settled(t, k)
                    /\ Stmt(t, k).name \in Names /\ Def(t, k) # None
    BY <1>1, StmtsOf, TwoKinds DEF BInv
  <1>4. \A t \in Units : \A k \in Allocated(t) : k \in Nat /\ k # 0
    <2>1. ASSUME NEW t \in Units PROVE Allocated(t) \subseteq Nat \ {0}
      BY <1>1, UnitShape
    <2> QED
      BY <2>1
  <1>5. ASSUME NEW t \in Units, UNCHANGED build
        PROVE  \A k : Stmt(t, k)' = Stmt(t, k) /\ Def(t, k)' = Def(t, k)
    BY <1>5, SameBuild
  <1>6. ASSUME UNCHANGED <<build, table>> PROVE NoInlineExternal'
    BY <1>6, SameBuild DEF BInv, NoInlineExternal, Ext
  <1>7. ASSUME NEW t \in Units, NEW v, UNCHANGED <<build, backing, table, built>>,
               unit' = [unit EXCEPT ![t] = v],
               backed' = backed \/ backed' = backed \ {<<t, unit[t].i>>},
               \A k \in Allocated(t) : Settled(t, k)',
               \A k \in Allocated(t) : OutAt(unit[t], k) => OutAt(v, k) /\ k # unit[t].i,
               v.pc = "gen" => v.i = 0
        PROVE  BInv'
    <2>1. \A o \in Units : o # t => \A k : <<o, k>> \in backed' <=> <<o, k>> \in backed
      BY <1>7
    <2>2. \A k \in Allocated(t) : OutAt(unit[t], k) /\ <<t, k>> \in backed =>
             OutAt(v, k) /\ <<t, k>> \in backed'
      BY <1>7
    <2>3. backing' = [p \in Stmts |-> backing'[p]]
      BY <1>7, <1>1
    <2> QED
      BY <1>1, <1>2, <1>6, <1>7, <2>1, <2>2, <2>3, UnitSettles
  <1>8. ASSUME NEW t \in Units, NEW th \in Threads, StartUnit(t, th)
        PROVE  BInv'
    <2> DEFINE u == [unit[t] EXCEPT !.thread = th]
               v == NextAlloc(u, t, 0)
    <2>1. u \in UnitState /\ 0 \in Nat
      BY <1>3 DEF UnitState
    <2>2. /\ UNCHANGED <<build, backed, backing, table, built>> /\ unit' = [unit EXCEPT ![t] = v]
          /\ unit[t].pc = "new"
      BY <1>8 DEF StartUnit
    <2> HIDE DEF u
    <2>3. v = NextAlloc(u, t, 0)
      OBVIOUS
    <2> HIDE DEF v
    <2>4. \/ v.pc = "check" /\ \A m \in Allocated(t) : m < v.i => m <= 0
          \/ v.pc = "gen" /\ v.i = 0 /\ \A m \in Allocated(t) : m <= 0
      BY <2>1, <2>3, <1>1, NextAllocMoves
    <2>5. \A k \in Allocated(t) : ~PastAt(v, k) /\ ~OutAt(v, k)
      <3> SUFFICES ASSUME NEW k \in Allocated(t) PROVE ~PastAt(v, k) /\ ~OutAt(v, k)
        OBVIOUS
      <3>1. k \in Nat /\ ~(k <= 0)
        BY <1>4
      <3>2. v.pc = "check" /\ ~(k < v.i)
        BY <2>4, <3>1
      <3> QED
        BY <3>2 DEF PastAt, OutAt, Allocating
    <2>6. unit'[t] = v
      BY <2>2, <1>1
    <2>7. \A k \in Allocated(t) : Settled(t, k)'
      BY <2>5, <2>6 DEF Settled
    <2>8. \A k \in Allocated(t) : ~OutAt(unit[t], k)
      BY <2>2 DEF OutAt
    <2>9. v.pc = "gen" => v.i = 0
      BY <2>4
    <2> QED
      BY <2>2, <2>7, <2>8, <2>9, <1>7
  <1>9. ASSUME NEW t \in Units, CheckInline(t)
        PROVE  BInv'
    <2> DEFINE v == NextAlloc(unit[t], t, unit[t].i)
               w == [unit[t] EXCEPT !.pc = "create"]
               n == Stmt(t, unit[t].i).name
    <2>1. unit[t].pc = "check" /\ unit[t].i \in Nat /\ unit[t].i \in Allocated(t)
      BY <1>3, <1>9 DEF CheckInline, UnitState, IInv, Cursor, Allocating
    <2>2. \/ v.pc = "check" /\ v.i > unit[t].i /\ v.i \in Allocated(t)
             /\ \A m \in Allocated(t) : m < v.i => m <= unit[t].i
          \/ v.pc = "gen" /\ v.i = 0 /\ \A m \in Allocated(t) : m <= unit[t].i
      BY <2>1, <1>1, <1>3, NextAllocMoves
    <2>3. w.pc = "create" /\ w.i = unit[t].i
      BY <1>3 DEF UnitState
    <2>4. /\ UNCHANGED <<build, backing, table, built>>
          /\ \/ /\ unit' = [unit EXCEPT ![t] = v] /\ backed' = backed \ {<<t, unit[t].i>>}
                /\ table[n] # None
             \/ unit' = [unit EXCEPT ![t] = w] /\ backed' = backed
      BY <1>9, <1>1 DEF CheckInline
    <2> HIDE DEF v, w, n
    <2>5. \A k \in Allocated(t) : OutAt(unit[t], k) => OutAt(v, k) /\ OutAt(w, k) /\ k # unit[t].i
      <3> SUFFICES ASSUME NEW k \in Allocated(t), OutAt(unit[t], k)
                   PROVE  OutAt(v, k) /\ OutAt(w, k) /\ k # unit[t].i
        OBVIOUS
      <3>1. k \in Nat /\ k < unit[t].i
        BY <2>1, <1>3 DEF OutAt, Allocating
      <3>2. v.pc = "check" => k < v.i
        <4>1. v.pc = "check" => v.i \in Nat /\ v.i > unit[t].i
          BY <2>2, <1>4
        <4> QED
          BY <4>1, <3>1, <2>1
      <3> QED
        BY <2>1, <2>2, <2>3, <3>1, <3>2 DEF OutAt, Allocating
    <2>6. ASSUME unit' = [unit EXCEPT ![t] = v], backed' = backed \ {<<t, unit[t].i>>},
                 table[n] # None
          PROVE  BInv'
      <3>1. unit'[t] = v
        BY <2>6, <1>1
      <3>2. ASSUME NEW k \in Allocated(t) PROVE Settled(t, k)'
        <4>1. PastAt(v, k) \/ OutAt(v, k) => k <= unit[t].i
          BY <2>1, <2>2, <1>3 DEF PastAt, OutAt, Allocating
        <4>2. CASE k = unit[t].i
          BY <4>2, <3>1, <2>4, <2>6, <1>5 DEF Settled, n
        <4>3. CASE k < unit[t].i
          <5>1. PastAt(unit[t], k) /\ OutAt(unit[t], k) /\ Settled(t, k)
            BY <4>3, <2>1, <1>3 DEF PastAt, OutAt
          <5>2. <<t, k>> \in backed' <=> <<t, k>> \in backed
            BY <4>3, <2>1, <2>6, <1>3
          <5> QED
            BY <5>1, <5>2, <2>4, <1>5 DEF Settled
        <4>4. CASE ~(PastAt(v, k) \/ OutAt(v, k))
          BY <4>4, <3>1 DEF Settled
        <4>5. k \in Nat /\ unit[t].i \in Nat
          BY <2>1, <1>3
        <4> QED
          BY <4>1, <4>2, <4>3, <4>4, <4>5
      <3>3. v.pc = "gen" => v.i = 0
        BY <2>2
      <3> QED
        BY <2>4, <2>5, <2>6, <3>2, <3>3, <1>7
    <2>7. ASSUME unit' = [unit EXCEPT ![t] = w], backed' = backed
          PROVE  BInv'
      <3>1. unit'[t] = w
        BY <2>7, <1>1
      <3>2. ASSUME NEW k \in Allocated(t) PROVE Settled(t, k)'
        <4>1. /\ PastAt(w, k) => PastAt(unit[t], k)
              /\ OutAt(w, k) => OutAt(unit[t], k)
          BY <2>1, <2>3 DEF PastAt, OutAt, Allocating
        <4> QED
          BY <4>1, <3>1, <2>4, <2>7, <1>3, <1>5 DEF Settled
      <3> QED
        BY <2>3, <2>4, <2>5, <2>7, <3>2, <1>7
    <2> QED
      BY <2>4, <2>6, <2>7
  <1>10. ASSUME NEW t \in Units, NEW v, UNCHANGED <<build, backed, backing, table, built>>,
               unit' = [unit EXCEPT ![t] = v], v.i = unit[t].i,
               unit[t].pc \in {"create", "link"}, v.pc \in {"create", "link"}
        PROVE  BInv'
    <2>1. unit'[t] = v /\ unit[t].i \in Nat
      BY <1>1, <1>3, <1>10 DEF UnitState
    <2>2. \A k : /\ PastAt(v, k) <=> PastAt(unit[t], k)
                 /\ OutAt(v, k) <=> OutAt(unit[t], k)
      BY <1>10 DEF PastAt, OutAt, Allocating
    <2>3. \A k \in Allocated(t) : Settled(t, k)'
      BY <2>1, <2>2, <1>3, <1>5, <1>10 DEF Settled
    <2>4. \A k \in Allocated(t) : OutAt(unit[t], k) => k # unit[t].i
      BY <2>1, <1>3, <1>10 DEF OutAt, Allocating
    <2> QED
      BY <1>7, <1>10, <2>2, <2>3, <2>4
  <1>11. ASSUME NEW t \in Units, LoadFirst(t) \/ LinkThread(t)
         PROVE  BInv'
    <2> DEFINE v == [unit[t] EXCEPT !.pc = "link", !.top = first]
               w == [unit[t] EXCEPT !.pc = "create", !.top = <<>>]
    <2>1. /\ UNCHANGED <<build, backed, backing, table, built>>
          /\ unit[t].pc \in {"create", "link"}
          /\ unit' = [unit EXCEPT ![t] = v] \/ unit' = [unit EXCEPT ![t] = w]
      BY <1>1, <1>11 DEF LoadFirst, LinkThread
    <2>2. v.pc = "link" /\ v.i = unit[t].i /\ w.pc = "create" /\ w.i = unit[t].i
      BY <1>3 DEF UnitState
    <2> HIDE DEF v, w
    <2> QED
      BY <2>1, <2>2, <1>10
  <1>12. ASSUME NEW t \in Units, CreateSymbol(t)
         PROVE  BInv'
    <2> DEFINE v == [unit[t] EXCEPT !.pc = "export"]
    <2>0. PICK i : i = unit[t].i
      OBVIOUS
    <2>1. /\ unit[t].pc = "create" /\ i \in Allocated(t) /\ i \in Nat
          /\ UNCHANGED <<build, backed, table, built>> /\ unit' = [unit EXCEPT ![t] = v]
          /\ backing' = [backing EXCEPT ![<<t, i>>] = Def(t, i)]
      BY <2>0, <1>12, <1>3 DEF CreateSymbol, IInv, Cursor, Allocating, UnitState
    <2>2. v.pc = "export" /\ v.i = i
      BY <2>0, <1>3 DEF UnitState
    <2> HIDE DEF v
    <2>3. unit'[t] = v
      BY <2>1, <1>1
    <2>4. /\ backing' = [p \in Stmts |-> backing'[p]] /\ backing'[<<t, i>>] = Def(t, i)
          /\ \A p \in Stmts : p # <<t, i>> => backing'[p] = backing[p]
      BY <2>1, <1>1, <1>3
    <2>5. ASSUME NEW k \in Allocated(t) PROVE Settled(t, k)'
      <3>1. OutAt(v, k) => OutAt(unit[t], k)
        BY <2>0, <2>1, <2>2 DEF OutAt, Allocating
      <3>2. CASE k = i
        <4>1. ~OutAt(v, k)
          BY <2>1, <2>2, <3>2 DEF OutAt, Allocating
        <4> QED
          BY <4>1, <3>2, <2>1, <2>3, <2>4, <1>5 DEF Settled
      <3>3. CASE k # i
        <4>1. PastAt(v, k) => PastAt(unit[t], k)
          BY <2>0, <2>1, <2>2, <3>3, <1>4 DEF PastAt
        <4>2. backing'[<<t, k>>] = backing[<<t, k>>]
          BY <2>4, <3>3, <1>3
        <4> QED
          BY <3>1, <4>1, <4>2, <2>1, <2>3, <1>3, <1>5 DEF Settled
      <3> QED
        BY <3>2, <3>3
    <2>6. \A o \in Units : o # t => \A k \in Allocated(o) :
             backing'[<<o, k>>] = backing[<<o, k>>]
      BY <2>4, <1>3
    <2>7. \A k \in Allocated(t) : OutAt(unit[t], k) => OutAt(v, k)
      BY <2>0, <2>1, <2>2 DEF OutAt, Allocating
    <2> QED
      BY <2>1, <2>2, <2>4, <2>5, <2>6, <2>7, <1>2, <1>6, UnitSettles
  <1>13. ASSUME NEW t \in Units, ExportSymbol(t)
         PROVE  BInv'
    <2> DEFINE v == NextAlloc(unit[t], t, unit[t].i)
    <2>0. PICK i, s, n, e, d :
            /\ i = unit[t].i /\ s = Stmt(t, i) /\ n = s.name /\ e = table[n]
            /\ d = Def(t, i)
      OBVIOUS
    <2>1. /\ unit[t].pc = "export" /\ i \in Allocated(t) /\ i \in Nat
          /\ UNCHANGED <<build, backing, built>> /\ unit' = [unit EXCEPT ![t] = v]
          /\ table' = table \/ table' = [table EXCEPT ![n] = Enter(e, d)]
          /\ s.inline => table' = [table EXCEPT ![n] = Enter(e, d)]
          /\ backed' = IF KeepsBody(s, e) THEN backed ELSE backed \ {<<t, i>>}
      BY <2>0, <1>13, <1>3 DEF ExportSymbol, IInv, Cursor, Allocating, UnitState
    <2>2. \/ v.pc = "check" /\ v.i > i /\ v.i \in Allocated(t)
             /\ \A m \in Allocated(t) : m < v.i => m <= i
          \/ v.pc = "gen" /\ v.i = 0 /\ \A m \in Allocated(t) : m <= i
      BY <2>0, <2>1, <1>1, <1>3, NextAllocMoves
    <2> HIDE DEF v
    <2>3. unit'[t] = v
      BY <2>1, <1>1
    <2>4. /\ n \in Names /\ <<t, i>> \in Stmts /\ d # None
          /\ s = Stmt(t, i) /\ n = Stmt(t, i).name
      BY <2>0, <2>1, <1>3
    <2>5. d # Ext(n) /\ \A x : d # Ext(x)
      <3>1. Defined(d)
        <4>1. i \in DOMAIN build.units[t]
          BY <2>1, <1>3
        <4> QED
          BY <4>1, <2>0, <1>1, TwoKinds
      <3>2. \A x : ~Defined(Ext(x))
        BY DEF Defined, Ext
      <3> QED
        BY <3>1, <3>2
    <2>6. s.inline => /\ KeepsBody(s, e) => table'[n] = d
                      /\ ~KeepsBody(s, e) => <<t, i>> \notin backed' /\ table'[n] # None
      <3> SUFFICES ASSUME s.inline
                   PROVE  /\ KeepsBody(s, e) => table'[n] = d
                          /\ ~KeepsBody(s, e) => <<t, i>> \notin backed' /\ table'[n] # None
        OBVIOUS
      <3>1. table'[n] = Enter(e, d)
        BY <2>1, <2>4, <1>1
      <3>2. e # Ext(n)
        <4>1. PICK p \in Stmts : p = <<t, i>>
          BY <2>4
        <4>2. Stmt(p[1], p[2]) = s
          BY <4>1, <2>0
        <4> QED
          BY <4>2, <2>0 DEF BInv, NoInlineExternal
      <3>3. KeepsBody(s, e) <=> e = None
        BY <2>0, <3>2 DEF KeepsBody
      <3> QED
        BY <2>1, <3>1, <3>3 DEF Enter
    <2>7. ASSUME NEW k \in Allocated(t) PROVE Settled(t, k)'
      <3>1. PastAt(v, k) \/ OutAt(v, k) => k <= i
        BY <2>1, <2>2, <1>3 DEF PastAt, OutAt, Allocating
      <3>2. CASE k = i
        <4>1. PastAt(unit[t], k) /\ Settled(t, k)
          <5>1. PastAt(unit[t], k)
            BY <2>0, <2>1, <3>2 DEF PastAt
          <5> QED
            BY <5>1, <1>3
        <4>2. <<t, k>> \in backed' => <<t, k>> \in backed
          BY <2>1
        <4>3. s.inline => IF <<t, k>> \in backed' THEN table'[n] = Def(t, k) ELSE table'[n] # None
          BY <2>0, <2>4, <2>6, <3>2
        <4> QED
          BY <2>0, <2>1, <2>3, <3>2, <4>1, <4>2, <4>3, <1>5 DEF Settled
      <3>3. CASE k < i
        <4>1. PastAt(unit[t], k) /\ OutAt(unit[t], k) /\ Settled(t, k)
          <5>1. k \in Nat /\ k <= i
            BY <3>3, <2>1, <1>4
          <5>2. PastAt(unit[t], k) /\ OutAt(unit[t], k)
            BY <3>3, <2>0, <2>1, <5>1 DEF PastAt, OutAt
          <5> QED
            BY <5>2, <1>3
        <4>2. <<t, k>> \in backed' <=> <<t, k>> \in backed
          BY <3>3, <2>1, <1>3
        <4> QED
          BY <4>1, <4>2, <2>1, <1>2, <1>3, <1>5 DEF Settled
      <3>4. CASE ~(PastAt(v, k) \/ OutAt(v, k))
        BY <3>4, <2>3 DEF Settled
      <3>5. k \in Nat
        BY <1>3
      <3> QED
        BY <2>1, <3>1, <3>2, <3>3, <3>4, <3>5
    <2>8. ASSUME NEW k \in Allocated(t), OutAt(unit[t], k)
          PROVE  OutAt(v, k) /\ (<<t, k>> \in backed => <<t, k>> \in backed')
      <3>1. k \in Nat /\ k < i
        BY <2>0, <2>1, <2>8, <1>3 DEF OutAt, Allocating
      <3>2. v.pc = "check" => k < v.i
        <4>1. v.pc = "check" => v.i \in Nat /\ v.i > i
          BY <2>2, <1>4
        <4> QED
          BY <4>1, <3>1, <2>1
      <3>3. OutAt(v, k)
        BY <2>2, <3>2 DEF OutAt, Allocating
      <3> QED
        BY <2>1, <3>1, <3>3
    <2>9. NoInlineExternal'
      <3>1. \A x : table'[x] = table[x] \/ table'[x] # Ext(x)
        <4>1. CASE table' = table
          BY <4>1
        <4>2. CASE table' = [table EXCEPT ![n] = Enter(e, d)]
          <5>1. \A x : x # n => table'[x] = table[x]
            BY <4>2, <1>1
          <5>2. table'[n] = e \/ table'[n] = d
            BY <4>2, <2>4, <1>1 DEF Enter
          <5> QED
            BY <5>1, <5>2, <2>0, <2>5
        <4> QED
          BY <2>1, <4>1, <4>2
      <3>2. Stmts' = Stmts /\ \A p : Stmt(p[1], p[2])' = Stmt(p[1], p[2])
        BY <2>1, SameBuild
      <3> QED
        BY <3>1, <3>2 DEF BInv, NoInlineExternal, Ext
    <2>10. \A o \in Units : o # t => \A k : <<o, k>> \in backed' <=> <<o, k>> \in backed
      BY <2>1
    <2>11. v.pc = "gen" => v.i = 0
      BY <2>2
    <2>12. backing' = [p \in Stmts |-> backing'[p]]
      BY <2>1, <1>1
    <2> QED
      BY <2>1, <2>7, <2>8, <2>9, <2>10, <2>11, <2>12, <1>2, UnitSettles
  <1>14. ASSUME NEW t \in Units, Reference(t)
         PROVE  BInv'
    <2> DEFINE v == [unit[t] EXCEPT !.j = unit[t].j + 1]
    <2>0. PICK i, j, k, n, sym :
            /\ i = unit[t].i /\ j = unit[t].j
            /\ k = Stmt(t, i).refs[j] /\ n = Stmt(t, k).name
            /\ sym = IF backing[<<t, k>>] # None THEN backing[<<t, k>>]
                     ELSE IF table[n] # None THEN table[n] ELSE Ext(n)
      OBVIOUS
    <2>1. /\ unit[t].pc = "gen" /\ i # 0 /\ j <= Len(Stmt(t, i).refs)
          /\ UNCHANGED <<build, backed, built>> /\ unit' = [unit EXCEPT ![t] = v]
          /\ backing' = [backing EXCEPT ![<<t, k>>] = sym]
          /\ \/ UNCHANGED table
             \/ /\ backing[<<t, k>>] = None /\ table[n] = None
                /\ table' = [table EXCEPT ![n] = Ext(n)]
      BY <2>0, <1>14 DEF Reference
    <2>2. v.pc = "gen" /\ v.i = i /\ j \in Nat
      BY <2>0, <2>1, <1>3 DEF UnitState
    <2> HIDE DEF v
    <2>3. unit'[t] = v
      BY <2>1, <1>1
    <2>4. i \in Bodies(t)
      BY <2>0, <2>1 DEF BInv
    <2>5. k \in Used(t) /\ k \in DOMAIN build.units[t]
      BY <2>0, <1>14, ReferenceReads
    <2>6. /\ backing' = [p \in Stmts |-> backing'[p]]
          /\ \A p \in Stmts : p # <<t, k>> => backing'[p] = backing[p]
          /\ backing[<<t, k>>] # None => backing'[<<t, k>>] = backing[<<t, k>>]
      <3>1. backing' = [backing EXCEPT ![<<t, k>>] = sym]
        BY <2>1
      <3>2. backing = [p \in Stmts |-> backing[p]]
        BY DEF BInv
      <3> DEFINE S == Stmts
      <3>3. <<t, k>> \in S
        BY <2>5, <1>1, StmtsOf
      <3> HIDE DEF S
      <3>4. backing' = [p \in S |-> IF p = <<t, k>> THEN sym ELSE backing[p]]
        BY <3>1, <3>2 DEF S
      <3> QED
        BY <2>0, <3>3, <3>4 DEF S
    <2>7. \A m : PastAt(unit[t], m) /\ OutAt(unit[t], m) /\ PastAt(v, m) /\ OutAt(v, m)
      BY <2>1, <2>2 DEF PastAt, OutAt, Allocating
    <2>8. ASSUME NEW m \in Allocated(t) PROVE Settled(t, m)'
      <3>1. Settled(t, m) /\ Stmt(t, m).name \in Names /\ Def(t, m) # None
        BY <1>3
      <3>2. <<t, m>> \in backed => backing'[<<t, m>>] = Def(t, m)
        <4>1. <<t, m>> \in backed => backing[<<t, m>>] = Def(t, m)
          BY <3>1, <2>7 DEF Settled
        <4>2. <<t, m>> \in Stmts /\ Def(t, m) # None
          BY <1>3
        <4>3. <<t, m>> \in backed => backing[<<t, m>>] # None
          BY <4>1, <4>2
        <4>4. CASE <<t, m>> = <<t, k>>
          BY <4>1, <4>3, <4>4, <2>6
        <4>5. CASE <<t, m>> # <<t, k>>
          BY <4>1, <4>2, <4>5, <2>6
        <4> QED
          BY <4>4, <4>5
      <3> QED
        BY <3>1, <3>2, <2>1, <2>7, <1>2, <1>5 DEF Settled
    <2>9. ASSUME backing[<<t, k>>] = None, table[n] = None,
                 NEW p \in Stmts, Stmt(p[1], p[2]).name = n, Stmt(p[1], p[2]).inline
          PROVE  FALSE
      <3>1. Stmt(t, k).inline
        <4>1. PICK q \in Stmts : q = <<t, k>>
          BY <2>5, <1>1, StmtsOf
        <4>2. Stmt(q[1], q[2]) = Stmt(t, k)
          BY <4>1
        <4>3. p # q => Stmt(q[1], q[2]).inline
          BY <2>0, <2>9, <4>2 DEF InlineInHeaders
        <4> QED
          BY <4>2, <4>3, <2>9
      <3>2. Stmt(t, k).op = "func"
        BY <2>5, <3>1, SymbolsAssumption, <1>1 DEF Units, Stmt, Statement
      <3>3. k \in Allocated(t)
        BY <2>5, <3>2, <1>1, StmtsOf
      <3> QED
        BY <3>1, <3>3, <2>0, <2>7, <2>9, <1>3 DEF Settled
    <2>10. NoInlineExternal'
      <3>1. CASE UNCHANGED table
        BY <3>1, <2>1, <1>6
      <3>2. CASE /\ backing[<<t, k>>] = None /\ table[n] = None
                 /\ table' = [table EXCEPT ![n] = Ext(n)]
        <4>1. Stmts' = Stmts /\ \A p : Stmt(p[1], p[2])' = Stmt(p[1], p[2])
          BY <2>1, SameBuild
        <4>2. \A x : x # n => table'[x] = table[x]
          BY <3>2, <1>1
        <4> QED
          BY <3>2, <4>1, <4>2, <2>9 DEF BInv, NoInlineExternal, Ext
      <3> QED
        BY <2>1, <3>1, <3>2
    <2>11. \A o \in Units : o # t => \A m \in Allocated(o) :
              backing'[<<o, m>>] = backing[<<o, m>>]
      BY <2>6, <1>1, StmtsOf
    <2>12. v.pc = "gen" /\ v.i # 0 => v.i \in Bodies(t)'
      BY <2>1, <2>2, <2>4, <1>5 DEF Bodies
    <2> QED
      BY <2>1, <2>6, <2>7, <2>8, <2>10, <2>11, <2>12, <1>2, UnitSettles
  <1>15. ASSUME NEW t \in Units, NextBody(t)
         PROVE  BInv'
    <2> DEFINE k == After(Bodies(t), unit[t].i)
               v == [unit[t] EXCEPT !.i = k, !.j = 1, !.pc = IF k = 0 THEN "done" ELSE "gen"]
    <2>0. PICK i : i = unit[t].i
      OBVIOUS
    <2>1. /\ unit[t].pc = "gen" /\ i \in Nat /\ UNCHANGED <<build, backed, backing, table>>
          /\ unit' = [unit EXCEPT ![t] = v]
          /\ built' = IF i # 0 THEN built \cup {backing[<<t, i>>]} ELSE built
      BY <2>0, <1>3, <1>15 DEF NextBody, UnitState
    <2>2. k # 0 => k \in Bodies(t)
      <3> DEFINE B == Bodies(t)
      <3>1. B \in SUBSET (Nat \ {0})
        BY <1>1, UnitShape
      <3> HIDE DEF B
      <3>2. After(B, i) # 0 => After(B, i) \in B
        BY <2>1, <3>1, AfterIsNext
      <3> QED
        BY <2>0, <3>2 DEF B
    <2> HIDE DEF k
    <2>3. v.pc = (IF k = 0 THEN "done" ELSE "gen") /\ v.i = k
      BY <1>3 DEF UnitState
    <2> HIDE DEF v
    <2>4. unit'[t] = v
      BY <2>1, <1>1
    <2>5. \A m : PastAt(unit[t], m) /\ OutAt(unit[t], m) /\ PastAt(v, m) /\ OutAt(v, m)
      BY <2>1, <2>3 DEF PastAt, OutAt, Allocating
    <2>6. \A m \in Allocated(t) : Settled(t, m)'
      BY <2>1, <2>4, <2>5, <1>3, <1>5 DEF Settled
    <2>7. ASSUME i # 0
          PROVE  /\ i \in Allocated(t) /\ backing[<<t, i>>] = Def(t, i)
                 /\ <<t, i>> \in backed /\ Stmt(t, i).op = "func"
      <3>1. i \in Bodies(t)
        BY <2>0, <2>1, <2>7 DEF BInv
      <3>2. i \in Backed(t) /\ Stmt(t, i).op = "func" /\ <<t, i>> \in backed
        BY <3>1 DEF Bodies, IInv, Cursor
      <3>3. Stmt(t, i).op # "global"
        BY <3>2
      <3>4. i \in Allocated(t)
        BY <3>2, <3>3 DEF Allocated, Backed
      <3> QED
        BY <3>2, <3>4, <2>5, <1>3 DEF Settled
    <2>8. \A s \in built' : s \in built \/
             \E m \in Allocated(t) : /\ s = Def(t, m) /\ <<t, m>> \in backed' /\ OutAt(v, m)
                                     /\ Stmt(t, m).op = "func"
      BY <2>1, <2>5, <2>7
    <2>9. v.pc = "gen" /\ v.i # 0 => v.i \in Bodies(t)'
      BY <2>1, <2>2, <2>3, <1>5 DEF Bodies
    <2>10. backing' = [p \in Stmts |-> backing'[p]]
      BY <2>1, <1>1
    <2> QED
      BY <2>1, <2>5, <2>6, <2>8, <2>9, <2>10, <1>2, <1>6, UnitSettles
  <1>16. CASE UNCHANGED <<build, unit, backed, backing, table, built>>
    <2>1. /\ Units' = Units /\ Stmts' = Stmts /\ \A o : Allocated(o)' = Allocated(o)
          /\ \A o, k : Stmt(o, k)' = Stmt(o, k) /\ Def(o, k)' = Def(o, k)
      BY <1>16, SameBuild
    <2>2. \A o, k : Settled(o, k)' <=> Settled(o, k)
      BY <1>16, <2>1 DEF Settled
    <2>3. \A s : Stays(s)' <=> Stays(s)
      BY <1>16, <2>1 DEF Stays
    <2>4. \A o : Bodies(o)' = Bodies(o)
      BY <1>16, <2>1 DEF Bodies
    <2> QED
      BY <1>6, <1>16, <2>1, <2>2, <2>3, <2>4 DEF BInv
  <1> QED
    BY <1>8, <1>9, <1>11, <1>12, <1>13, <1>14, <1>15, <1>16
       DEF Next, Compile, WriteObject, vars

LEMMA InitBodies == Init => BInv
  <1> SUFFICES ASSUME Init PROVE BInv
    OBVIOUS
  <1>1. build \in Builds /\ built = {} /\ backing = [p \in Stmts |-> None]
        /\ table = [n \in Names |-> None] /\ \A t \in Units : unit[t].pc = "new"
    BY DEF Init
  <1>2. backing = [p \in Stmts |-> backing[p]]
    BY <1>1
  <1>3. ASSUME NEW t \in Units, NEW k \in Allocated(t) PROVE Settled(t, k)
    BY <1>1 DEF Settled, PastAt, OutAt
  <1>4. ASSUME NEW p \in Stmts
        PROVE  table[Stmt(p[1], p[2]).name] # Ext(Stmt(p[1], p[2]).name)
    <2>1. Stmt(p[1], p[2]).name \in Names
      BY DEF Names
    <2>2. p[1] \in Units /\ p[2] \in DOMAIN build.units[p[1]]
      BY DEF Stmts
    <2>3. Ext(Stmt(p[1], p[2]).name) # None
      BY <1>1, <2>2, SymbolsAssumption DEF Units, Stmt
    <2> QED
      BY <1>1, <2>1, <2>3
  <1> QED
    BY <1>1, <1>2, <1>3, <1>4 DEF BInv, NoInlineExternal

\* Two public functions of a name that stay: of an inline one each is what the table holds,
\* and there is one that is not inline.
LEMMA OneOfEach ==
    ASSUME IInv, BInv, InlineInHeaders
    PROVE  OneBody
  <1> SUFFICES ASSUME NEW a \in built, NEW b \in built,
                      a.name = b.name, ~Private(a), ~Private(b)
               PROVE  a = b
    BY DEF OneBody
  <1>1. PICK t \in Units : \E k \in Allocated(t) :
          a = Def(t, k) /\ <<t, k>> \in backed /\ OutAt(unit[t], k) /\ Stmt(t, k).op = "func"
    BY DEF BInv, Stays
  <1>2. PICK k \in Allocated(t) :
          a = Def(t, k) /\ <<t, k>> \in backed /\ OutAt(unit[t], k) /\ Stmt(t, k).op = "func"
    BY <1>1
  <1>3. PICK o \in Units : \E m \in Allocated(o) :
          b = Def(o, m) /\ <<o, m>> \in backed /\ OutAt(unit[o], m) /\ Stmt(o, m).op = "func"
    BY DEF BInv, Stays
  <1>4. PICK m \in Allocated(o) :
          b = Def(o, m) /\ <<o, m>> \in backed /\ OutAt(unit[o], m) /\ Stmt(o, m).op = "func"
    BY <1>3
  <1>5. /\ <<t, k>> \in Stmts /\ <<o, m>> \in Stmts
    BY StmtsOf DEF IInv, Typed
  <1>6. Stmt(t, k).name = Stmt(o, m).name /\ ~Stmt(t, k).static /\ ~Stmt(o, m).static
    BY <1>2, <1>4 DEF Def, SymbolOf, Private, Defined
  <1>7. CASE <<t, k>> = <<o, m>>
    BY <1>2, <1>4, <1>7
  <1>8. CASE <<t, k>> # <<o, m>>
    <2>1. Stmt(t, k).inline /\ Stmt(o, m).inline
      BY <1>2, <1>4, <1>5, <1>6, <1>8 DEF InlineInHeaders
    <2>2. Settled(t, k) /\ Settled(o, m)
      BY DEF BInv
    <2>3. table[Stmt(t, k).name] = Def(t, k) /\ table[Stmt(o, m).name] = Def(o, m)
      BY <1>2, <1>4, <2>1, <2>2 DEF Settled
    <2> QED
      BY <1>2, <1>4, <1>6, <2>3
  <1> QED
    BY <1>7, <1>8

\* In the object a name has one public function with a body (property OneBody), for any
\* builds of units that have their inline functions from headers, whichever of the units
\* that define one comes first and however their checks under the lock interleave
\* (ir_alloc_task, get_external, cuikcg_top_level).
THEOREM OnePublicBody == Spec => [](InlineInHeaders => OneBody)
  <1> DEFINE J == IInv /\ WInv /\ (InlineInHeaders => BInv)
  <1>1. Init => J
    BY InitIInv, InitMakes, InitBodies
  <1>2. J /\ [Next]_vars => J'
    <2> SUFFICES ASSUME J, [Next]_vars PROVE J'
      OBVIOUS
    <2>1. IInv' /\ WInv'
      BY StepKeepsIInv, StepMakes
    <2>2. build' = build
      BY DEF Next, Compile, StartUnit, CheckInline, LoadFirst, LinkThread, CreateSymbol,
             ExportSymbol, Reference, NextBody, WriteObject, vars
    <2>3. InlineInHeaders' => InlineInHeaders
      BY <2>2, SameBuild DEF InlineInHeaders
    <2> QED
      BY <2>1, <2>3, StepBodies
  <1>3. J => (InlineInHeaders => OneBody)
    BY OneOfEach
  <1> QED
    BY <1>1, <1>2, <1>3, PTL DEF Spec

-----------------------------------------------------------------------------
(* What the uses of a name are linked to                                    *)

\* What C asks for besides: a variable of a file's own has a name that no file defines for
\* others (the export table takes such a variable for a public one).
StaticsAreOwn ==
    \A p, q \in Stmts :
        LET s == Stmt(p[1], p[2])
            r == Stmt(q[1], q[2])
        IN  s.name = r.name => ~(s.op = "global" /\ s.static /\ Root(r))

\* A symbol in one of the lists.
Made(s) == \E p \in Places : SymbolAt(p) = s

\* A definition of n that later uses may find in the table.
Offered(n, s) ==
    \E t \in Units : \E k \in Allocated(t) :
        /\ s = Def(t, k) /\ Stmt(t, k).name = n /\ <<t, k>> \in backed /\ OutAt(unit[t], k)
        /\ Stmt(t, k).inline \/ Exported(Stmt(t, k))

\* Only inline functions lose their backing, and only when their unit is done with them.
KeepTheirs == \A t \in Units : \A k \in Allocated(t) :
    <<t, k>> \in backed \/ (Stmt(t, k).inline /\ OutAt(unit[t], k))

\* What a unit has gone past and kept is in its thread's list.
AllMade == \A t \in Units : \A k \in Allocated(t) :
    PastAt(unit[t], k) /\ <<t, k>> \in backed => Made(Def(t, k))

\* What the tables hold: a definition that is offered, or an external that is in a list.
Entries == \A n \in Names :
    /\ table[n] # None => Offered(n, table[n]) \/ (table[n] = Ext(n) /\ Made(Ext(n)))
    /\ resolved[n] # None => Offered(n, resolved[n])

\* A name that a unit has exported is in the table, and an external there is resolved.
Entered == \A t \in Units : \A k \in Allocated(t) :
    LET n == Stmt(t, k).name
    IN  OutAt(unit[t], k) /\ Exported(Stmt(t, k)) =>
            table[n] # None /\ (table[n] = Ext(n) => resolved[n] # None)

\* A statement is backed by its own symbol, or by what the table has for its name.
Backings == \A t \in Units : \A k \in DOMAIN build.units[t] :
    LET b == backing[<<t, k>>]
        n == Stmt(t, k).name
    IN  b # None => \/ k \in Allocated(t) /\ b = Def(t, k)
                    \/ table[n] # None /\ b = table[n]

\* Compiled code has the symbol of the statement it names.
Patched == \A p \in patches : \E t \in Units : \E k \in Used(t) :
    /\ p.ref = <<t, k>> /\ unit[t].pc \in {"gen", "done"}
    /\ p.target = backing[<<t, k>>] /\ p.target # None

\* The functions that a unit has come past, it has generated.
Generated == \A t \in Units : \A k \in Bodies(t) :
    unit[t].pc = "done" \/ (unit[t].pc = "gen" /\ k < unit[t].i) => Def(t, k) \in built

\* The inductive invariant, with IInv, WInv and BInv.
LInv == KeepTheirs /\ AllMade /\ Entries /\ Entered /\ Backings /\ Patched /\ Generated

-----------------------------------------------------------------------------
\* What a step does to the statements of unit t.
Advances(t) == \A k \in Allocated(t) :
    /\ PastAt(unit[t], k) => PastAt(unit'[t], k)
    /\ OutAt(unit[t], k) => OutAt(unit'[t], k) /\ (<<t, k>> \in backed => <<t, k>> \in backed')
    /\ PastAt(unit'[t], k) /\ <<t, k>> \in backed' =>
          PastAt(unit[t], k) \/ (CreateSymbol(t) /\ k = unit[t].i)
    /\ OutAt(unit'[t], k) => \/ OutAt(unit[t], k)
                             \/ ExportSymbol(t) /\ k = unit[t].i
                             \/ CheckInline(t) /\ k = unit[t].i /\ Stmt(t, k).inline
    /\ <<t, k>> \in backed => \/ <<t, k>> \in backed'
                              \/ Stmt(t, k).inline /\ OutAt(unit'[t], k)
    /\ <<t, k>> \in backed' => <<t, k>> \in backed

LEMMA StepAdvances ==
    ASSUME IInv, [Next]_vars, NEW o \in Units
    PROVE  Advances(o)
  <1>1. build \in Builds /\ unit \in [Units -> UnitState]
    BY DEF IInv, Typed
  <1>2. ASSUME NEW t \in Units
        PROVE  /\ unit[t] \in UnitState /\ unit[t].i \in Nat
               /\ \A k \in Allocated(t) : k \in Nat /\ k # 0
               /\ unit[t].pc \in Allocating => unit[t].i \in Allocated(t)
    <2>1. Allocated(t) \subseteq Nat \ {0}
      BY <1>1, UnitShape
    <2> QED
      BY <1>1, <2>1 DEF IInv, Cursor, UnitState
  \* A step of another unit.
  <1>3. ASSUME NEW t \in Units, t # o, NEW v, unit' = [unit EXCEPT ![t] = v],
               backed' = backed \/ backed' = backed \ {<<t, unit[t].i>>}
        PROVE  Advances(o)
    <2>1. unit'[o] = unit[o]
      BY <1>1, <1>3
    <2>2. \A k : <<o, k>> \in backed' <=> <<o, k>> \in backed
      BY <1>3
    <2> QED
      BY <2>1, <2>2 DEF Advances
  <1>4. CASE UNCHANGED <<unit, backed>>
    BY <1>4 DEF Advances
  \* Where a unit at i goes from there, by NextAlloc or on to the next step.
  <1>5. ASSUME NEW v, v = NextAlloc(unit[o], o, unit[o].i), unit[o].pc \in Allocating
        PROVE  \A k \in Allocated(o) : /\ PastAt(v, k) <=> k <= unit[o].i
                                       /\ OutAt(v, k) <=> k <= unit[o].i
    <2>0. PICK u, i : u = unit[o] /\ i = unit[o].i /\ u \in UnitState /\ i \in Nat
      BY <1>2
    <2>1. \/ v.pc = "check" /\ v.i > unit[o].i /\ v.i \in Allocated(o)
             /\ \A m \in Allocated(o) : m < v.i => m <= unit[o].i
          \/ v.pc = "gen" /\ v.i = 0 /\ \A m \in Allocated(o) : m <= unit[o].i
      BY <2>0, <1>1, <1>5, NextAllocMoves
    <2> SUFFICES ASSUME NEW k \in Allocated(o)
                 PROVE  /\ PastAt(v, k) <=> k <= unit[o].i
                        /\ OutAt(v, k) <=> k <= unit[o].i
      OBVIOUS
    <2>2. k \in Nat /\ unit[o].i \in Nat
      BY <1>2
    <2>3. CASE v.pc = "check"
      <3>1. v.i \in Nat /\ v.i > unit[o].i /\ (k < v.i => k <= unit[o].i)
        BY <2>1, <2>3, <1>2
      <3>2. k < v.i <=> k <= unit[o].i
        BY <2>2, <3>1
      <3> QED
        BY <2>3, <3>2 DEF PastAt, OutAt, Allocating
    <2>4. CASE v.pc = "gen"
      BY <2>1, <2>4 DEF PastAt, OutAt, Allocating
    <2> QED
      BY <2>1, <2>3, <2>4
  <1>6. ASSUME NEW th \in Threads, StartUnit(o, th)
        PROVE  Advances(o)
    <2> DEFINE u == [unit[o] EXCEPT !.thread = th]
               v == NextAlloc(u, o, 0)
    <2>1. u \in UnitState /\ 0 \in Nat
      BY <1>2 DEF UnitState
    <2>2. UNCHANGED backed /\ unit' = [unit EXCEPT ![o] = v] /\ unit[o].pc = "new"
      BY <1>6 DEF StartUnit
    <2> HIDE DEF u
    <2>3. v = NextAlloc(u, o, 0)
      OBVIOUS
    <2> HIDE DEF v
    <2>4. \/ v.pc = "check" /\ \A m \in Allocated(o) : m < v.i => m <= 0
          \/ v.pc = "gen" /\ v.i = 0 /\ \A m \in Allocated(o) : m <= 0
      BY <2>1, <2>3, <1>1, NextAllocMoves
    <2>5. \A k \in Allocated(o) : ~PastAt(v, k) /\ ~OutAt(v, k)
      <3> SUFFICES ASSUME NEW k \in Allocated(o) PROVE ~PastAt(v, k) /\ ~OutAt(v, k)
        OBVIOUS
      <3>1. k \in Nat /\ ~(k <= 0)
        BY <1>2
      <3>2. v.pc = "check" /\ ~(k < v.i)
        BY <2>4, <3>1
      <3> QED
        BY <3>2 DEF PastAt, OutAt, Allocating
    <2>6. \A k : ~PastAt(unit[o], k) /\ ~OutAt(unit[o], k)
      BY <2>2 DEF PastAt, OutAt
    <2>7. unit'[o] = v
      BY <2>2, <1>1
    <2> QED
      BY <2>2, <2>5, <2>6, <2>7 DEF Advances
  <1>7. ASSUME CheckInline(o)
        PROVE  Advances(o)
    <2> DEFINE v == NextAlloc(unit[o], o, unit[o].i)
               w == [unit[o] EXCEPT !.pc = "create"]
    <2>1. unit[o].pc = "check"
      BY <1>7 DEF CheckInline
    <2>2. \A k \in Allocated(o) : /\ PastAt(v, k) <=> k <= unit[o].i
                                  /\ OutAt(v, k) <=> k <= unit[o].i
      BY <2>1, <1>5 DEF Allocating
    <2>3. w.pc = "create" /\ w.i = unit[o].i
      BY <1>2 DEF UnitState
    <2>4. \/ /\ unit' = [unit EXCEPT ![o] = v] /\ backed' = backed \ {<<o, unit[o].i>>}
             /\ Stmt(o, unit[o].i).inline
          \/ unit' = [unit EXCEPT ![o] = w] /\ backed' = backed
      BY <1>7, <1>1 DEF CheckInline
    <2> HIDE DEF v, w
    <2>5. \A k : PastAt(unit[o], k) <=> k < unit[o].i
      BY <2>1 DEF PastAt
    <2>6. \A k : OutAt(unit[o], k) <=> k < unit[o].i
      BY <2>1 DEF OutAt, Allocating
    <2>7. \A k : (PastAt(w, k) <=> k < unit[o].i) /\ (OutAt(w, k) <=> k < unit[o].i)
      BY <2>3 DEF PastAt, OutAt, Allocating
    <2>8. CASE unit' = [unit EXCEPT ![o] = w] /\ backed' = backed
      <3>1. unit'[o] = w
        BY <2>8, <1>1
      <3> QED
        BY <2>5, <2>6, <2>7, <2>8, <3>1 DEF Advances
    <2>9. CASE /\ unit' = [unit EXCEPT ![o] = v] /\ backed' = backed \ {<<o, unit[o].i>>}
               /\ Stmt(o, unit[o].i).inline
      <3>1. unit'[o] = v
        BY <2>9, <1>1
      <3> SUFFICES ASSUME NEW k \in Allocated(o)
                   PROVE  /\ k < unit[o].i => k <= unit[o].i /\ k # unit[o].i
                          /\ k <= unit[o].i => k < unit[o].i \/ k = unit[o].i
                          /\ unit[o].i <= unit[o].i
        BY <1>7, <2>2, <2>5, <2>6, <2>9, <3>1 DEF Advances
      <3> QED
        BY <1>2
    <2> QED
      BY <2>4, <2>8, <2>9
  <1>8. ASSUME LoadFirst(o) \/ LinkThread(o)
        PROVE  Advances(o)
    <2> DEFINE v == [unit[o] EXCEPT !.pc = "link", !.top = first]
               w == [unit[o] EXCEPT !.pc = "create", !.top = <<>>]
    <2>1. /\ unit[o].pc \in {"create", "link"} /\ UNCHANGED backed
          /\ unit' = [unit EXCEPT ![o] = v] \/ unit' = [unit EXCEPT ![o] = w]
      BY <1>1, <1>8 DEF LoadFirst, LinkThread
    <2>2. v.pc = "link" /\ v.i = unit[o].i /\ w.pc = "create" /\ w.i = unit[o].i
      BY <1>2 DEF UnitState
    <2> HIDE DEF v, w
    <2>3. unit'[o].pc \in {"create", "link"} /\ unit'[o].i = unit[o].i
      BY <1>1, <2>1, <2>2
    <2>4. \A k : /\ PastAt(unit'[o], k) <=> PastAt(unit[o], k)
                 /\ OutAt(unit'[o], k) <=> OutAt(unit[o], k)
      BY <2>1, <2>3 DEF PastAt, OutAt, Allocating
    <2> QED
      BY <2>1, <2>4 DEF Advances
  <1>9. ASSUME CreateSymbol(o)
        PROVE  Advances(o)
    <2> DEFINE v == [unit[o] EXCEPT !.pc = "export"]
    <2>1. unit[o].pc = "create" /\ UNCHANGED backed /\ unit' = [unit EXCEPT ![o] = v]
      BY <1>9 DEF CreateSymbol
    <2>2. v.pc = "export" /\ v.i = unit[o].i
      BY <1>2 DEF UnitState
    <2> HIDE DEF v
    <2>3. unit'[o] = v
      BY <1>1, <2>1
    <2>4. \A k : /\ PastAt(v, k) <=> k <= unit[o].i
                 /\ OutAt(v, k) <=> k < unit[o].i
                 /\ PastAt(unit[o], k) <=> k < unit[o].i
                 /\ OutAt(unit[o], k) <=> k < unit[o].i
      BY <2>1, <2>2 DEF PastAt, OutAt, Allocating
    <2>5. \A k \in Allocated(o) : k < unit[o].i \/ k = unit[o].i <=> k <= unit[o].i
      BY <1>2
    <2> QED
      BY <1>9, <2>1, <2>3, <2>4, <2>5 DEF Advances
  <1>10. ASSUME ExportSymbol(o)
         PROVE  Advances(o)
    <2> DEFINE v == NextAlloc(unit[o], o, unit[o].i)
    <2>1. /\ unit[o].pc = "export" /\ unit' = [unit EXCEPT ![o] = v]
          /\ backed' = backed \/ (/\ backed' = backed \ {<<o, unit[o].i>>}
                                  /\ Stmt(o, unit[o].i).inline)
      BY <1>10 DEF ExportSymbol, KeepsBody
    <2>2. \A k \in Allocated(o) : /\ PastAt(v, k) <=> k <= unit[o].i
                                  /\ OutAt(v, k) <=> k <= unit[o].i
      BY <2>1, <1>5 DEF Allocating
    <2> HIDE DEF v
    <2>3. unit'[o] = v
      BY <1>1, <2>1
    <2>4. \A k : /\ PastAt(unit[o], k) <=> k <= unit[o].i
                 /\ OutAt(unit[o], k) <=> k < unit[o].i
      BY <2>1 DEF PastAt, OutAt, Allocating
    <2>5. \A k \in Allocated(o) : /\ k < unit[o].i => k <= unit[o].i /\ k # unit[o].i
                                  /\ k <= unit[o].i => k < unit[o].i \/ k = unit[o].i
      BY <1>2
    <2>6. unit[o].i <= unit[o].i
      BY <1>2
    <2> QED
      BY <1>10, <2>1, <2>2, <2>3, <2>4, <2>5, <2>6 DEF Advances
  <1>11. ASSUME Reference(o) \/ NextBody(o)
         PROVE  Advances(o)
    <2>1. unit[o].pc = "gen" /\ UNCHANGED backed
      BY <1>11 DEF Reference, NextBody
    <2>2. unit'[o].pc \in {"gen", "done"}
      <3>1. CASE Reference(o)
        BY <3>1, <1>1, <1>2, <2>1 DEF Reference, UnitState
      <3>2. CASE NextBody(o)
        <4> DEFINE k == After(Bodies(o), unit[o].i)
                   v == [unit[o] EXCEPT !.i = k, !.j = 1,
                                        !.pc = IF k = 0 THEN "done" ELSE "gen"]
        <4>1. unit' = [unit EXCEPT ![o] = v]
          BY <3>2 DEF NextBody
        <4> HIDE DEF k
        <4>2. v.pc \in {"gen", "done"}
          BY <1>2 DEF UnitState
        <4> HIDE DEF v
        <4> QED
          BY <4>1, <4>2, <1>1
      <3> QED
        BY <1>11, <3>1, <3>2
    <2>3. \A k : /\ PastAt(unit[o], k) /\ OutAt(unit[o], k)
                 /\ PastAt(unit'[o], k) /\ OutAt(unit'[o], k)
      BY <2>1, <2>2 DEF PastAt, OutAt, Allocating
    <2> QED
      BY <2>1, <2>3 DEF Advances
  <1>12. ASSUME NEW t \in Units, t # o, Compile(t)
         PROVE  Advances(o)
    <2>1. /\ \E v : unit' = [unit EXCEPT ![t] = v]
          /\ backed' = backed \/ backed' = backed \ {<<t, unit[t].i>>}
      BY <1>12 DEF Compile, StartUnit, CheckInline, LoadFirst, LinkThread, CreateSymbol,
             ExportSymbol, Reference, NextBody
    <2> QED
      BY <2>1, <1>12, <1>3
  <1>13. CASE WriteObject \/ UNCHANGED vars
    BY <1>13, <1>4 DEF WriteObject, vars
  <1> QED
    BY <1>6, <1>7, <1>8, <1>9, <1>10, <1>11, <1>12, <1>13 DEF Next, Compile

LEMMA OneBuild ==
    ASSUME [Next]_vars
    PROVE  build' = build
  BY DEF Next, Compile, StartUnit, CheckInline, LoadFirst, LinkThread, CreateSymbol,
         ExportSymbol, Reference, NextBody, WriteObject, vars

\* A symbol put at the end of a thread's list has been made, and so have those before it.
LEMMA AppendMakes ==
    ASSUME symbols \in [Threads -> Seq(AllSymbols)], NEW th \in Threads, NEW s,
           symbols' = [symbols EXCEPT ![th] = Append(@, s)]
    PROVE  Made(s)' /\ \A x : Made(x) => Made(x)'
  <1> DEFINE n == Len(symbols[th])
  <1>1. /\ n \in Nat /\ symbols[th] \in Seq(AllSymbols)
        /\ \A q \in Threads : q # th => symbols'[q] = symbols[q]
        /\ symbols'[th] = Append(symbols[th], s)
    OBVIOUS
  <1>2. /\ Len(symbols'[th]) = n + 1 /\ symbols'[th][n + 1] = s
        /\ \A k \in 1 .. n : symbols'[th][k] = symbols[th][k] /\ k \in 1 .. n + 1
        /\ n + 1 \in 1 .. n + 1
    BY <1>1
  <1>3. Made(s)'
    <2>1. PICK p : p = <<th, n + 1>>
      OBVIOUS
    <2>2. p \in Places' /\ SymbolAt(p)' = s
      BY <1>2, <2>1 DEF Places, SymbolAt
    <2> QED
      BY <2>2 DEF Made
  <1>4. ASSUME NEW x, Made(x) PROVE Made(x)'
    <2>1. PICK p \in Places : SymbolAt(p) = x
      BY <1>4 DEF Made
    <2>2. p[1] \in Threads /\ p[2] \in 1 .. Len(symbols[p[1]]) /\ p = <<p[1], p[2]>>
      BY DEF Places
    <2>3. p[2] \in 1 .. Len(symbols'[p[1]]) /\ symbols'[p[1]][p[2]] = symbols[p[1]][p[2]]
      BY <1>1, <1>2, <2>2
    <2>4. p \in Places' /\ SymbolAt(p)' = x
      BY <2>1, <2>2, <2>3 DEF Places, SymbolAt
    <2> QED
      BY <2>4 DEF Made
  <1> QED
    BY <1>3, <1>4

LEMMA StepKeepsMade ==
    ASSUME IInv, WInv, [Next]_vars
    PROVE  /\ \A s : Made(s) => Made(s)'
           /\ \A t \in Units : CreateSymbol(t) => Made(Def(t, unit[t].i))'
  <1>1. symbols \in [Threads -> Seq(AllSymbols)]
    BY DEF WInv, Lists
  <1>2. ASSUME NEW t \in Units, unit[t].pc # "new"
        PROVE  unit[t].thread \in Threads
    BY <1>2 DEF IInv, Typed
  <1>3. ASSUME UNCHANGED symbols
        PROVE  \A s : Made(s) => Made(s)'
    BY <1>3 DEF Made, Places, SymbolAt
  <1>4. ASSUME NEW t \in Units, CreateSymbol(t)
        PROVE  Made(Def(t, unit[t].i))' /\ \A s : Made(s) => Made(s)'
    <2>1. PICK th, d : th = unit[t].thread /\ d = Def(t, unit[t].i)
      OBVIOUS
    <2>2. /\ symbols' = [symbols EXCEPT ![th] = Append(@, d)] /\ th \in Threads
          /\ build' = build
          /\ unit' = [unit EXCEPT ![t].pc = "export"]
      BY <1>2, <1>4, <2>1 DEF CreateSymbol
    <2>3. unit'[t].i = unit[t].i
      BY <2>2 DEF IInv, Typed, UnitState
    <2>4. Def(t, unit[t].i)' = d
      BY <2>1, <2>2, <2>3 DEF Def, SymbolOf, Stmt
    <2> QED
      BY <1>1, <2>2, <2>4, AppendMakes
  <1>5. ASSUME NEW t \in Units, Reference(t)
        PROVE  \A s : Made(s) => Made(s)'
    <2>1. PICK th : th = unit[t].thread
      OBVIOUS
    <2>2. /\ symbols' = symbols \/ \E x : symbols' = [symbols EXCEPT ![th] = Append(@, x)]
          /\ th \in Threads
      BY <1>2, <1>5, <2>1 DEF Reference
    <2> QED
      BY <1>1, <1>3, <2>2, AppendMakes
  <1>6. (\E t \in Units : CreateSymbol(t) \/ Reference(t)) \/ UNCHANGED symbols
    BY DEF Next, Compile, StartUnit, CheckInline, LoadFirst, LinkThread, ExportSymbol,
           NextBody, WriteObject, vars
  <1>7. ASSUME NEW t \in Units, CreateSymbol(t)
        PROVE  Made(Def(t, unit[t].i))'
    BY <1>4, <1>7
  <1> QED
    BY <1>3, <1>4, <1>5, <1>6, <1>7

\* What is offered stays so.
LEMMA OffersStay ==
    ASSUME IInv, [Next]_vars, NEW n, NEW s, Offered(n, s)
    PROVE  Offered(n, s)'
  <1>1. PICK t \in Units : \E k \in Allocated(t) :
          /\ s = Def(t, k) /\ Stmt(t, k).name = n /\ <<t, k>> \in backed /\ OutAt(unit[t], k)
          /\ Stmt(t, k).inline \/ Exported(Stmt(t, k))
    BY DEF Offered
  <1>2. PICK k \in Allocated(t) :
          /\ s = Def(t, k) /\ Stmt(t, k).name = n /\ <<t, k>> \in backed /\ OutAt(unit[t], k)
          /\ Stmt(t, k).inline \/ Exported(Stmt(t, k))
    BY <1>1
  <1>3. <<t, k>> \in backed' /\ OutAt(unit'[t], k)
    BY <1>2, StepAdvances DEF Advances
  <1>4. /\ Units' = Units /\ Allocated(t)' = Allocated(t)
        /\ Stmt(t, k)' = Stmt(t, k) /\ Def(t, k)' = Def(t, k)
    BY OneBuild, SameBuild
  <1>5. Exported(Stmt(t, k))' <=> Exported(Stmt(t, k))
    BY <1>4 DEF Exported
  <1> QED
    BY <1>2, <1>3, <1>4, <1>5 DEF Offered

-----------------------------------------------------------------------------
(* One part of the invariant at a time                                      *)

LEMMA StepKeepsTheirs ==
    ASSUME IInv, KeepTheirs, [Next]_vars
    PROVE  KeepTheirs'
  <1> SUFFICES ASSUME NEW t \in Units, NEW k \in Allocated(t)
               PROVE  <<t, k>> \in backed' \/ (Stmt(t, k).inline /\ OutAt(unit'[t], k))
    BY OneBuild, SameBuild DEF KeepTheirs
  <1>1. <<t, k>> \in backed \/ (Stmt(t, k).inline /\ OutAt(unit[t], k))
    BY DEF KeepTheirs
  <1> QED
    BY <1>1, StepAdvances DEF Advances

LEMMA StepMakesAll ==
    ASSUME IInv, WInv, AllMade, [Next]_vars
    PROVE  AllMade'
  <1> SUFFICES ASSUME NEW t \in Units, NEW k \in Allocated(t),
                      PastAt(unit'[t], k), <<t, k>> \in backed'
               PROVE  Made(Def(t, k))'
    BY OneBuild, SameBuild DEF AllMade
  <1>1. PICK d : d = Def(t, k) /\ Def(t, k)' = d
    BY OneBuild, SameBuild
  <1>2. PastAt(unit[t], k) \/ (CreateSymbol(t) /\ k = unit[t].i)
    BY StepAdvances DEF Advances
  <1>3. CASE PastAt(unit[t], k)
    <2>1. <<t, k>> \in backed
      BY StepAdvances DEF Advances
    <2>2. Made(d)
      BY <1>1, <1>3, <2>1 DEF AllMade
    <2> QED
      BY <1>1, <2>2, StepKeepsMade
  <1>4. CASE CreateSymbol(t) /\ k = unit[t].i
    <2>1. Made(Def(t, unit[t].i))'
      BY <1>4, StepKeepsMade
    <2>2. unit'[t].i = unit[t].i
      BY <1>4 DEF CreateSymbol, IInv, Typed, UnitState
    <2> QED
      BY <1>4, <2>1, <2>2
  <1> QED
    BY <1>2, <1>3, <1>4

\* Under the lock a definition is entered, or resolves the external that stands there.
LEMMA ExportEnters ==
    ASSUME IInv, WInv, BInv, KeepTheirs, NEW t \in Units, ExportSymbol(t),
           NEW i, i = unit[t].i, NEW n, n = Stmt(t, i).name, [Next]_vars
    PROVE  /\ n \in Names /\ \A m \in Names : m # n => table'[m] = table[m]
                                                    /\ resolved'[m] = resolved[m]
           /\ table'[n] = table[n] \/ (table[n] = None /\ table'[n] = Def(t, i))
           /\ \/ resolved'[n] = resolved[n]
              \/ resolved[n] = None /\ table[n] = Ext(n) /\ resolved'[n] = Def(t, i)
           /\ table'[n] # table[n] \/ resolved'[n] # resolved[n] => Offered(n, Def(t, i))'
           /\ Exported(Stmt(t, i)) =>
                /\ table'[n] # None
                /\ table'[n] = Ext(n) => resolved'[n] # None
  <1>1. /\ build \in Builds /\ unit \in [Units -> UnitState]
        /\ table = [m \in Names |-> table[m]] /\ resolved = [m \in Names |-> resolved[m]]
        /\ Tables
    BY DEF IInv, Typed, WInv, Tables
  <1>2. /\ unit[t].pc = "export" /\ i \in Allocated(t) /\ build' = build
        /\ i \in DOMAIN build.units[t] /\ i \in Nat
    <2>1. unit[t].pc = "export" /\ i \in Allocated(t) /\ build' = build
      BY DEF ExportSymbol, IInv, Cursor, Allocating
    <2>2. i \in Nat
      BY <1>1 DEF UnitState
    <2> QED
      BY <1>1, <2>1, <2>2, StmtsOf
  <1>3. n \in Names /\ Def(t, i) # None /\ Ext(n) # None /\ Def(t, i) # Ext(n)
    <2>1. Def(t, i) # None /\ Ext(n) # None /\ Defined(Def(t, i)) /\ ~Defined(Ext(n)) /\ n \in Names
      BY <1>1, <1>2, TwoKinds
    <2> QED
      BY <2>1
  <1> DEFINE e == table[n]
             exports == Stmt(t, i).inline \/ Exported(Stmt(t, i))
  <1>4. /\ table' = IF exports THEN [table EXCEPT ![n] = Enter(e, Def(t, i))] ELSE table
        /\ resolved' = IF exports /\ e = Ext(n) /\ resolved[n] = None
                       THEN [resolved EXCEPT ![n] = Def(t, i)] ELSE resolved
        /\ backed' = IF KeepsBody(Stmt(t, i), e) THEN backed ELSE backed \ {<<t, i>>}
        /\ unit' = [unit EXCEPT ![t] = NextAlloc(@, t, i)]
    BY DEF ExportSymbol
  <1>5. PICK d : d = Def(t, i)
    OBVIOUS
  <1>6. /\ \A m \in Names : m # n => table'[m] = table[m] /\ resolved'[m] = resolved[m]
        /\ table'[n] = IF exports THEN Enter(e, d) ELSE e
        /\ resolved'[n] = IF exports /\ e = Ext(n) /\ resolved[n] = None THEN d ELSE resolved[n]
    BY <1>1, <1>3, <1>4, <1>5
  <1>7. table'[n] # table[n] \/ resolved'[n] # resolved[n] => exports /\ e \in {None, Ext(n)}
    BY <1>6 DEF Enter
  <1>8. ASSUME exports, e \in {None, Ext(n)}
        PROVE  Offered(n, d)'
    <2>1. <<t, i>> \in backed
      <3>1. ~OutAt(unit[t], i)
        BY <1>2 DEF OutAt, Allocating
      <3> QED
        BY <3>1, <1>2 DEF KeepTheirs
    <2>2. <<t, i>> \in backed'
      BY <1>4, <1>8, <2>1 DEF KeepsBody
    <2>3. OutAt(unit'[t], i)
      <3>1. PICK u : u = unit[t] /\ u \in UnitState
        BY <1>1
      <3>2. PICK v : v = NextAlloc(u, t, i) /\ unit' = [unit EXCEPT ![t] = v]
        BY <1>4, <3>1
      <3>3. \/ v.pc = "check" /\ v.i \in Allocated(t) /\ v.i > i
            \/ v.pc = "gen"
        BY <1>1, <1>2, <3>1, <3>2, NextAllocMoves
      <3>4. v.pc = "check" => i < v.i
        <4>1. Allocated(t) \subseteq Nat
          BY <1>1, StmtsOf
        <4>2. v.pc = "check" => v.i \in Nat /\ v.i > i
          BY <3>3, <4>1
        <4> QED
          BY <4>2, <1>2
      <3>5. unit'[t] = v
        BY <1>1, <3>2
      <3> QED
        BY <3>3, <3>4, <3>5 DEF OutAt, Allocating
    <2>4. /\ Units' = Units /\ Allocated(t)' = Allocated(t)
          /\ Stmt(t, i)' = Stmt(t, i) /\ Def(t, i)' = Def(t, i)
      BY <1>2, SameBuild
    <2>5. Exported(Stmt(t, i))' <=> Exported(Stmt(t, i))
      BY <2>4 DEF Exported
    <2> QED
      BY <1>2, <1>5, <1>8, <2>2, <2>3, <2>4, <2>5 DEF Offered
  <1>9. Def(t, i)' = d
    BY <1>2, <1>5, SameBuild
  <1>10. Exported(Stmt(t, i)) =>
                /\ table'[n] # None
                /\ table'[n] = Ext(n) => resolved'[n] # None
    BY <1>3, <1>5, <1>6 DEF Enter
  <1>11. /\ table'[n] = table[n] \/ (table[n] = None /\ table'[n] = d)
         /\ \/ resolved'[n] = resolved[n]
            \/ resolved[n] = None /\ table[n] = Ext(n) /\ resolved'[n] = d
    BY <1>6 DEF Enter
  <1>12. table'[n] # table[n] \/ resolved'[n] # resolved[n] => Offered(n, d)'
    BY <1>7, <1>8
  <1> HIDE DEF e, exports
  <1> QED
    BY <1>3, <1>5, <1>6, <1>9, <1>10, <1>11, <1>12

\* A use of a name that the table does not have puts an external there.
LEMMA ReferenceEnters ==
    ASSUME IInv, WInv, NEW t \in Units, Reference(t)
    PROVE  /\ resolved' = resolved
           /\ \A n \in Names : \/ table'[n] = table[n]
                               \/ table[n] = None /\ table'[n] = Ext(n) /\ Made(Ext(n))'
  <1>1. /\ table = [m \in Names |-> table[m]] /\ symbols \in [Threads -> Seq(AllSymbols)]
        /\ unit[t].thread \in Threads
    BY DEF WInv, Tables, Lists, Reference, IInv, Typed
  <1>2. PICK th, n : th = unit[t].thread /\ n = Stmt(t, Stmt(t, unit[t].i).refs[unit[t].j]).name
    OBVIOUS
  <1>3. /\ resolved' = resolved
        /\ \/ table' = table
           \/ /\ table[n] = None /\ table' = [table EXCEPT ![n] = Ext(n)]
              /\ symbols' = [symbols EXCEPT ![th] = Append(@, Ext(n))]
    BY <1>2 DEF Reference
  <1>4. CASE /\ table[n] = None /\ table' = [table EXCEPT ![n] = Ext(n)]
             /\ symbols' = [symbols EXCEPT ![th] = Append(@, Ext(n))]
    <2>1. PICK s : s = Ext(n) /\ Ext(n)' = s
      BY DEF Ext
    <2>2. Made(s)'
      BY <1>1, <1>2, <1>4, <2>1, AppendMakes
    <2>3. \A m \in Names : m # n => table'[m] = table[m]
      BY <1>1, <1>4
    <2>4. n \in Names => table'[n] = s
      BY <1>1, <1>4, <2>1
    <2> QED
      BY <1>3, <1>4, <2>1, <2>2, <2>3, <2>4
  <1> QED
    BY <1>3, <1>4

LEMMA StepEntries ==
    ASSUME IInv, WInv, BInv, KeepTheirs, Entries, [Next]_vars
    PROVE  Entries'
  <1>1. SUFFICES ASSUME NEW n \in Names
                 PROVE  /\ table'[n] # None => \/ Offered(n, table[n])'
                                               \/ table'[n] = Ext(n) /\ Made(Ext(n))'
                        /\ resolved'[n] # None => Offered(n, resolved[n])'
    BY OneBuild, SameBuild DEF Entries, Ext
  <1>2. PICK x, r, y, z : x = Ext(n) /\ r = table[n] /\ y = table'[n] /\ z = resolved'[n]
    OBVIOUS
  <1>3. Ext(n)' = x
    BY <1>2 DEF Ext
  <1>4. SUFFICES /\ y # None => Offered(n, y)' \/ (y = x /\ Made(x)')
                 /\ z # None => Offered(n, z)'
    BY <1>2, <1>3
  <1>5. /\ r # None => Offered(n, r) \/ (r = x /\ Made(x))
        /\ resolved[n] # None => Offered(n, resolved[n])
    BY <1>2 DEF Entries
  <1>6. y = r => (y # None => Offered(n, y)' \/ (y = x /\ Made(x)'))
    <2>1. Offered(n, r) => Offered(n, r)'
      BY OffersStay
    <2>2. Made(x) => Made(x)'
      BY StepKeepsMade
    <2> QED
      BY <1>5, <2>1, <2>2
  <1>7. z = resolved[n] => (z # None => Offered(n, z)')
    <2>1. Offered(n, z) => Offered(n, z)'
      BY OffersStay
    <2> QED
      BY <1>5, <2>1
  <1>8. ASSUME NEW t \in Units, ExportSymbol(t)
        PROVE  /\ y # None => Offered(n, y)' \/ (y = x /\ Made(x)')
               /\ z # None => Offered(n, z)'
    <2>1. PICK i, m : i = unit[t].i /\ m = Stmt(t, i).name
      OBVIOUS
    <2>2. PICK d : d = Def(t, i) /\ Def(t, i)' = d
      BY OneBuild, SameBuild
    <2>3. /\ n # m => y = r /\ z = resolved[n]
          /\ n = m => /\ y = r \/ y = d
                      /\ z = resolved[n] \/ z = d
                      /\ y # r \/ z # resolved[n] => Offered(n, d)'
      BY <1>2, <1>8, <2>1, <2>2, ExportEnters
    <2> QED
      BY <1>6, <1>7, <2>3
  <1>9. ASSUME NEW t \in Units, Reference(t)
        PROVE  /\ y # None => Offered(n, y)' \/ (y = x /\ Made(x)')
               /\ z # None => Offered(n, z)'
    <2>1. z = resolved[n] /\ (y = r \/ (y = x /\ Made(x)'))
      BY <1>2, <1>3, <1>9, ReferenceEnters
    <2> QED
      BY <1>6, <1>7, <2>1
  <1>10. CASE UNCHANGED <<table, resolved>>
    BY <1>2, <1>6, <1>7, <1>10
  <1> QED
    BY <1>8, <1>9, <1>10 DEF Next, Compile, StartUnit, CheckInline, LoadFirst, LinkThread,
       CreateSymbol, NextBody, WriteObject, vars

LEMMA StepEntered ==
    ASSUME IInv, WInv, BInv, KeepTheirs, Entered, [Next]_vars
    PROVE  Entered'
  <1>1. SUFFICES ASSUME NEW t \in Units, NEW k \in Allocated(t), NEW n, n = Stmt(t, k).name,
                        OutAt(unit'[t], k), Exported(Stmt(t, k))
                 PROVE  table'[n] # None /\ (table'[n] = Ext(n) => resolved'[n] # None)
    <2>1. /\ Units' = Units /\ \A t : Allocated(t)' = Allocated(t)
          /\ \A t, k : Stmt(t, k)' = Stmt(t, k)
      BY OneBuild, SameBuild
    <2>2. \A t, k : /\ Exported(Stmt(t, k))' <=> Exported(Stmt(t, k))
                    /\ Ext(Stmt(t, k).name)' = Ext(Stmt(t, k).name)
      BY <2>1 DEF Exported, Ext
    <2> QED
      BY <2>1, <2>2, <1>1 DEF Entered
  <1>2. n \in Names
    BY <1>1, StmtsOf, TwoKinds DEF IInv, Typed
  <1>3. CASE OutAt(unit[t], k)
    <2>1. table[n] # None /\ (table[n] = Ext(n) => resolved[n] # None)
      BY <1>1, <1>3 DEF Entered
    <2>2. table'[n] = table[n] /\ (resolved[n] # None => resolved'[n] = resolved[n])
      BY <1>2, <2>1, StepSettles DEF WInv
    <2> QED
      BY <2>1, <2>2
  <1>4. CASE ExportSymbol(t) /\ k = unit[t].i
    BY <1>1, <1>4, ExportEnters
  <1>5. CASE CheckInline(t) /\ k = unit[t].i /\ Stmt(t, k).inline
    <2>1. Statement(Stmt(t, k))
      <3>1. k \in DOMAIN build.units[t]
        BY StmtsOf DEF IInv, Typed
      <3> QED
        BY <3>1, SymbolsAssumption DEF IInv, Typed, Units, Stmt
    <2> QED
      BY <1>1, <1>5, <2>1 DEF Exported, Statement
  <1> QED
    BY <1>1, <1>3, <1>4, <1>5, StepAdvances DEF Advances

\* The symbol that a reference finds or makes.
LEMMA ReferenceBacks ==
    ASSUME IInv, WInv, BInv, NEW t \in Units, Reference(t),
           NEW k, k = Stmt(t, unit[t].i).refs[unit[t].j], NEW n, n = Stmt(t, k).name
    PROVE  /\ \A p \in Stmts : p # <<t, k>> => backing'[p] = backing[p]
           /\ backing[<<t, k>>] # None => backing'[<<t, k>>] = backing[<<t, k>>]
           /\ backing[<<t, k>>] = None =>
                backing'[<<t, k>>] = table'[n] /\ table'[n] # None
           /\ patches' = patches \cup {[from |-> <<t, unit[t].i>>, ref |-> <<t, k>>,
                                        target |-> backing'[<<t, k>>]]}
  <1>1. /\ build \in Builds /\ table = [m \in Names |-> table[m]]
        /\ backing = [p \in Stmts |-> backing[p]]
    BY DEF IInv, Typed, WInv, Tables, BInv
  <1>2. <<t, k>> \in Stmts /\ k \in DOMAIN build.units[t]
    BY ReferenceReads
  <1>3. n \in Names /\ Ext(n) # None
    BY <1>1, <1>2, TwoKinds
  <1>4. PICK i, q, sym :
          /\ i = unit[t].i /\ q = <<t, k>>
          /\ sym = IF backing[q] # None THEN backing[q]
                   ELSE IF table[n] # None THEN table[n] ELSE Ext(n)
    OBVIOUS
  <1>5. /\ backing' = [backing EXCEPT ![q] = sym]
        /\ table' = IF backing[q] = None /\ table[n] = None
                    THEN [table EXCEPT ![n] = sym] ELSE table
        /\ patches' = patches \cup {[from |-> <<t, i>>, ref |-> q, target |-> sym]}
    BY <1>4 DEF Reference
  <1>6. backing'[q] = sym /\ \A p \in Stmts : p # q => backing'[p] = backing[p]
    <2> DEFINE S == Stmts
    <2>1. q \in S /\ backing = [p \in S |-> backing[p]]
      BY <1>1, <1>2, <1>4
    <2> HIDE DEF S
    <2>2. backing' = [p \in S |-> IF p = q THEN sym ELSE backing[p]]
      BY <1>5, <2>1
    <2> QED
      BY <2>1, <2>2 DEF S
  <1>7. backing[q] = None => sym = table'[n] /\ table'[n] # None
    BY <1>1, <1>3, <1>4, <1>5
  <1> QED
    BY <1>4, <1>5, <1>6, <1>7

LEMMA StepBackings ==
    ASSUME IInv, WInv, BInv, Backings, [Next]_vars
    PROVE  Backings'
  <1>1. SUFFICES ASSUME NEW t \in Units, NEW k \in DOMAIN build.units[t],
                        NEW n, n = Stmt(t, k).name, NEW q, q = <<t, k>>, backing'[q] # None
                 PROVE  \/ k \in Allocated(t) /\ backing'[q] = Def(t, k)
                        \/ table'[n] # None /\ backing'[q] = table'[n]
    BY OneBuild, SameBuild DEF Backings
  <1>2. q \in Stmts /\ n \in Names
    BY <1>1, StmtsOf, TwoKinds DEF IInv, Typed
  <1>3. backing[q] = None \/ (k \in Allocated(t) /\ backing[q] = Def(t, k))
           \/ (table[n] # None /\ backing[q] = table[n])
    BY <1>1 DEF Backings
  <1>4. table[n] # None => table'[n] = table[n]
    BY <1>2, StepSettles DEF WInv
  <1>5. CASE backing'[q] = backing[q]
    BY <1>1, <1>3, <1>4, <1>5
  <1>6. ASSUME NEW o \in Units, CreateSymbol(o)
        PROVE  backing'[q] = backing[q] \/ (k \in Allocated(t) /\ backing'[q] = Def(t, k))
    <2>1. PICK i, d : i = unit[o].i /\ d = Def(o, i)
      OBVIOUS
    <2>2. i \in Allocated(o) /\ backing' = [backing EXCEPT ![<<o, i>>] = d]
      BY <1>6, <2>1 DEF CreateSymbol, IInv, Cursor, Allocating
    <2>3. backing = [p \in Stmts |-> backing[p]]
      BY DEF BInv
    <2>4. CASE q = <<o, i>>
      <3>1. backing'[q] = d
        <4> DEFINE S == Stmts
        <4>1. q \in S /\ backing = [p \in S |-> backing[p]]
          BY <1>2, <2>3
        <4> HIDE DEF S
        <4> QED
          BY <2>2, <2>4, <4>1
      <3> QED
        BY <1>1, <2>1, <2>2, <2>4, <3>1
    <2>5. CASE q # <<o, i>>
      <3>1. backing'[q] = backing[q]
        <4> DEFINE S == Stmts
        <4>1. q \in S /\ backing = [p \in S |-> backing[p]]
          BY <1>2, <2>3
        <4> HIDE DEF S
        <4> QED
          BY <2>2, <2>5, <4>1
      <3> QED
        BY <3>1
    <2> QED
      BY <2>4, <2>5
  <1>7. ASSUME NEW o \in Units, Reference(o)
        PROVE  backing'[q] = backing[q] \/ (table'[n] # None /\ backing'[q] = table'[n])
    <2>1. PICK m, a : m = Stmt(o, unit[o].i).refs[unit[o].j] /\ a = Stmt(o, m).name
      OBVIOUS
    <2>2. /\ \A p \in Stmts : p # <<o, m>> => backing'[p] = backing[p]
          /\ backing[<<o, m>>] # None => backing'[<<o, m>>] = backing[<<o, m>>]
          /\ backing[<<o, m>>] = None =>
                backing'[<<o, m>>] = table'[a] /\ table'[a] # None
      BY <1>7, <2>1, ReferenceBacks
    <2>3. q = <<o, m>> => n = a
      BY <1>1, <2>1
    <2> QED
      BY <1>2, <2>2, <2>3
  <1>8. (\E o \in Units : CreateSymbol(o) \/ Reference(o)) \/ UNCHANGED backing
    BY DEF Next, Compile, StartUnit, CheckInline, LoadFirst, LinkThread, ExportSymbol,
           NextBody, WriteObject, vars
  <1> QED
    BY <1>5, <1>6, <1>7, <1>8

LEMMA StepGenerates ==
    ASSUME IInv, WInv, BInv, Generated, [Next]_vars
    PROVE  Generated'
  <1>1. SUFFICES ASSUME NEW t \in Units, NEW m \in Bodies(t)',
                        unit'[t].pc = "done" \/ (unit'[t].pc = "gen" /\ m < unit'[t].i)
                 PROVE  Def(t, m) \in built'
    BY OneBuild, SameBuild DEF Generated
  <1>2. /\ build \in Builds /\ unit \in [Units -> UnitState] /\ unit[t] \in UnitState
        /\ unit[t].i \in Nat
    BY DEF IInv, Typed, UnitState
  <1>3. m \in DOMAIN build.units[t] /\ m \in Nat /\ m # 0 /\ Stmt(t, m).op = "func"
    <2>1. m \in DOMAIN build.units[t] /\ Stmt(t, m).op = "func"
      BY OneBuild, SameBuild DEF Bodies
    <2>2. DOMAIN build.units[t] \subseteq Nat \ {0}
      BY <1>2, UnitShape
    <2> QED
      BY <2>1, <2>2
  <1>4. built \subseteq built'
    BY DEF Next, Compile, StartUnit, CheckInline, LoadFirst, LinkThread, CreateSymbol,
           ExportSymbol, Reference, NextBody, WriteObject, vars
  <1>5. CASE UNCHANGED backed /\ (unit[t].pc = "done" \/ (unit[t].pc = "gen" /\ m < unit[t].i))
    <2>1. m \in Bodies(t)
      BY <1>1, <1>5, OneBuild, SameBuild DEF Bodies
    <2> QED
      BY <1>4, <1>5, <2>1 DEF Generated
  <1>6. CASE NextBody(t)
    <2>1. PICK i, k : i = unit[t].i /\ k = After(Bodies(t), i)
      OBVIOUS
    <2>2. /\ unit[t].pc = "gen" /\ i \in Nat /\ UNCHANGED <<build, backed>>
          /\ unit' = [unit EXCEPT ![t].i = k, ![t].j = 1, ![t].pc = IF k = 0 THEN "done" ELSE "gen"]
          /\ built' = IF i # 0 THEN built \cup {backing[<<t, i>>]} ELSE built
      BY <1>2, <1>6, <2>1 DEF NextBody
    <2>3. /\ k \in Nat /\ (k = 0 => \A b \in Bodies(t) : b <= i)
          /\ k # 0 => \A b \in Bodies(t) : b < k => b <= i
      <3> DEFINE B == Bodies(t)
      <3>1. B \in SUBSET (Nat \ {0})
        BY <1>2, UnitShape
      <3> HIDE DEF B
      <3>2. /\ After(B, i) \in Nat /\ (After(B, i) = 0 => \A b \in B : b <= i)
            /\ After(B, i) # 0 => \A b \in B : b < After(B, i) => b <= i
        BY <2>2, <3>1, AfterIsNext
      <3> QED
        BY <2>1, <3>2 DEF B
    <2>4. unit'[t].pc = (IF k = 0 THEN "done" ELSE "gen") /\ unit'[t].i = k
      BY <1>2, <2>2 DEF UnitState
    <2>5. m \in Bodies(t)
      BY <1>1, <2>2, SameBuild DEF Bodies
    <2>6. m <= i
      BY <1>1, <2>3, <2>4, <2>5
    <2>7. CASE m < i
      BY <1>4, <2>1, <2>2, <2>5, <2>7 DEF Generated
    <2>8. CASE m = i
      <3>1. m \in Allocated(t) /\ <<t, m>> \in backed
        <4>1. m \in Backed(t) /\ <<t, m>> \in backed
          BY <2>5 DEF Bodies, IInv, Cursor
        <4>2. Stmt(t, m).op # "global"
          BY <1>3
        <4> QED
          BY <4>1, <4>2 DEF Allocated, Backed
      <3>2. PastAt(unit[t], m)
        BY <2>2 DEF PastAt
      <3>3. backing[<<t, m>>] = Def(t, m)
        BY <3>1, <3>2 DEF BInv, Settled
      <3> QED
        BY <1>3, <2>2, <2>8, <3>3
    <2> QED
      BY <1>3, <2>2, <2>6, <2>7, <2>8
  <1>7. ASSUME NEW o \in Units, o # t, Compile(o)
        PROVE  Def(t, m) \in built'
    <2>1. /\ \E v : unit' = [unit EXCEPT ![o] = v]
          /\ backed' = backed \/ backed' = backed \ {<<o, unit[o].i>>}
      BY <1>7 DEF Compile, StartUnit, CheckInline, LoadFirst, LinkThread, CreateSymbol,
             ExportSymbol, Reference, NextBody
    <2>2. unit'[t] = unit[t]
      BY <1>2, <1>7, <2>1
    <2>3. <<t, m>> \in backed
      BY <1>1, <2>1 DEF Bodies
    <2>4. m \in Bodies(t)
      BY <1>3, <2>3 DEF Bodies
    <2> QED
      BY <1>1, <1>4, <2>2, <2>4 DEF Generated
  <1>8. CASE Reference(t)
    <2>1. UNCHANGED backed /\ unit'[t].pc = unit[t].pc /\ unit'[t].i = unit[t].i
      BY <1>2, <1>8 DEF Reference, UnitState
    <2> QED
      BY <1>1, <1>5, <2>1
  \* A unit that still allocates comes to its bodies at 0.
  <1>9. ASSUME NEW u \in UnitState, NEW i \in Nat, unit' = [unit EXCEPT ![t] = NextAlloc(u, t, i)]
        PROVE  FALSE
    <2>1. PICK v : v = NextAlloc(u, t, i)
      OBVIOUS
    <2>2. \/ v.pc = "check" /\ v.i \in Allocated(t) /\ v.i > i
          \/ v.pc = "gen" /\ v.i = 0
      BY <1>2, <2>1, NextAllocMoves
    <2>3. unit'[t] = v
      BY <1>2, <1>9, <2>1
    <2>4. ~(m < 0)
      BY <1>3
    <2> QED
      BY <1>1, <2>2, <2>3, <2>4
  <1>10. ASSUME NEW th \in Threads, StartUnit(t, th)
         PROVE  FALSE
    <2>1. PICK u : u = [unit[t] EXCEPT !.thread = th]
      OBVIOUS
    <2>2. u \in UnitState
      BY <1>2, <2>1 DEF UnitState
    <2>3. unit' = [unit EXCEPT ![t] = NextAlloc(u, t, 0)]
      BY <1>10, <2>1 DEF StartUnit
    <2> QED
      BY <1>9, <2>2, <2>3
  <1>11. CASE CheckInline(t) \/ ExportSymbol(t)
    <2>1. PICK u, i : u = unit[t] /\ i = unit[t].i
      OBVIOUS
    <2>2. \/ unit' = [unit EXCEPT ![t] = NextAlloc(u, t, i)]
          \/ unit' = [unit EXCEPT ![t].pc = "create"]
      BY <1>11, <1>2, <2>1 DEF CheckInline, ExportSymbol
    <2>3. CASE unit' = [unit EXCEPT ![t].pc = "create"]
      <3>1. unit'[t].pc = "create"
        BY <1>2, <2>3 DEF UnitState
      <3> QED
        BY <1>1, <3>1
    <2> QED
      BY <1>2, <1>9, <2>1, <2>2, <2>3
  <1>12. CASE LoadFirst(t) \/ LinkThread(t) \/ CreateSymbol(t)
    <2>1. unit'[t].pc \in {"link", "create", "export"}
      BY <1>2, <1>12 DEF LoadFirst, LinkThread, CreateSymbol, UnitState
    <2> QED
      BY <1>1, <2>1
  <1>13. CASE WriteObject \/ UNCHANGED vars
    BY <1>1, <1>5, <1>13 DEF WriteObject, vars
  <1> QED
    BY <1>6, <1>7, <1>8, <1>10, <1>11, <1>12, <1>13 DEF Next, Compile

\* A unit that generates its bodies has made what it makes, and what a use has found stays.
LEMMA UsesStay ==
    ASSUME IInv, WInv, BInv, [Next]_vars,
           NEW t \in Units, NEW k, <<t, k>> \in Stmts, unit[t].pc \in {"gen", "done"},
           backing[<<t, k>>] # None
    PROVE  unit'[t].pc \in {"gen", "done"} /\ backing'[<<t, k>>] = backing[<<t, k>>]
  <1>1. /\ unit \in [Units -> UnitState] /\ unit[t] \in UnitState
        /\ backing = [p \in Stmts |-> backing[p]]
    BY DEF IInv, Typed, BInv
  <1>2. ASSUME NEW o \in Units, Compile(o), o # t
        PROVE  unit'[t].pc = unit[t].pc
    <2>1. \E v : unit' = [unit EXCEPT ![o] = v]
      BY <1>2 DEF Compile, StartUnit, CheckInline, LoadFirst, LinkThread, CreateSymbol,
             ExportSymbol, Reference, NextBody
    <2> QED
      BY <1>1, <1>2, <2>1
  <1>3. ASSUME Compile(t)
        PROVE  unit'[t].pc \in {"gen", "done"} /\ (Reference(t) \/ NextBody(t))
    <2>1. Reference(t) \/ NextBody(t)
      BY <1>3 DEF Compile, StartUnit, CheckInline, LoadFirst, LinkThread, CreateSymbol,
             ExportSymbol
    <2>2. CASE Reference(t)
      BY <1>1, <2>2 DEF Reference, UnitState
    <2>3. CASE NextBody(t)
      <3> DEFINE k0 == After(Bodies(t), unit[t].i)
                 v == [unit[t] EXCEPT !.i = k0, !.j = 1,
                                      !.pc = IF k0 = 0 THEN "done" ELSE "gen"]
      <3>1. unit' = [unit EXCEPT ![t] = v]
        BY <2>3 DEF NextBody
      <3> HIDE DEF k0
      <3>2. v.pc \in {"gen", "done"}
        BY <1>1 DEF UnitState
      <3> HIDE DEF v
      <3> QED
        BY <2>3, <3>1, <3>2, <1>1
    <2> QED
      BY <2>1, <2>2, <2>3
  <1>4. unit'[t].pc \in {"gen", "done"}
    BY <1>2, <1>3 DEF Next, WriteObject, vars
  <1>5. ASSUME NEW o \in Units, Reference(o)
        PROVE  backing'[<<t, k>>] = backing[<<t, k>>]
    <2>1. PICK m : m = Stmt(o, unit[o].i).refs[unit[o].j]
      OBVIOUS
    <2>2. PICK a : a = Stmt(o, m).name
      OBVIOUS
    <2>3. /\ \A p \in Stmts : p # <<o, m>> => backing'[p] = backing[p]
          /\ backing[<<o, m>>] # None => backing'[<<o, m>>] = backing[<<o, m>>]
      BY <1>5, <2>1, <2>2, ReferenceBacks
    <2> QED
      BY <2>3
  <1>6. ASSUME NEW o \in Units, CreateSymbol(o)
        PROVE  backing'[<<t, k>>] = backing[<<t, k>>]
    <2>1. o # t
      BY <1>6 DEF CreateSymbol
    <2>2. <<o, unit[o].i>> # <<t, k>>
      BY <2>1
    <2> DEFINE S == Stmts
    <2>3. <<t, k>> \in S /\ backing = [p \in S |-> backing[p]]
      BY <1>1
    <2>4. backing' = [backing EXCEPT ![<<o, unit[o].i>>] = Def(o, unit[o].i)]
      BY <1>6 DEF CreateSymbol
    <2> HIDE DEF S
    <2> QED
      BY <2>2, <2>3, <2>4
  <1>7. (\E o \in Units : CreateSymbol(o) \/ Reference(o)) \/ UNCHANGED backing
    BY DEF Next, Compile, StartUnit, CheckInline, LoadFirst, LinkThread, ExportSymbol,
           NextBody, WriteObject, vars
  <1> QED
    BY <1>4, <1>5, <1>6, <1>7

LEMMA StepPatches ==
    ASSUME IInv, WInv, BInv, Patched, [Next]_vars
    PROVE  Patched'
  <1>1. SUFFICES ASSUME NEW p \in patches'
                 PROVE  \E t \in Units : \E k \in Used(t) :
                          /\ p.ref = <<t, k>> /\ unit'[t].pc \in {"gen", "done"}
                          /\ p.target = backing'[<<t, k>>] /\ p.target # None
    <2>1. Units' = Units /\ \A t : Used(t)' = Used(t)
      BY OneBuild DEF Units, Used
    <2> QED
      BY <1>1, <2>1 DEF Patched
  <1>2. build \in Builds
    BY DEF IInv, Typed
  <1>3. CASE p \in patches
    <2>1. PICK t \in Units : \E k \in Used(t) :
            /\ p.ref = <<t, k>> /\ unit[t].pc \in {"gen", "done"}
            /\ p.target = backing[<<t, k>>] /\ p.target # None
      BY <1>3 DEF Patched
    <2>2. PICK k \in Used(t) : /\ p.ref = <<t, k>> /\ unit[t].pc \in {"gen", "done"}
                               /\ p.target = backing[<<t, k>>] /\ p.target # None
      BY <2>1
    <2>3. <<t, k>> \in Stmts
      BY <1>2, UsedIsClosed, StmtsOf
    <2>4. unit'[t].pc \in {"gen", "done"} /\ backing'[<<t, k>>] = backing[<<t, k>>]
      BY <2>2, <2>3, UsesStay
    <2> QED
      BY <2>2, <2>4
  <1>4. ASSUME NEW t \in Units, Reference(t), p \notin patches
        PROVE  \E k \in Used(t) : /\ p.ref = <<t, k>> /\ unit'[t].pc \in {"gen", "done"}
                                  /\ p.target = backing'[<<t, k>>] /\ p.target # None
    <2>1. PICK k : k = Stmt(t, unit[t].i).refs[unit[t].j]
      OBVIOUS
    <2>2. PICK n, i : n = Stmt(t, k).name /\ i = unit[t].i
      OBVIOUS
    <2>3. /\ backing[<<t, k>>] # None => backing'[<<t, k>>] = backing[<<t, k>>]
          /\ backing[<<t, k>>] = None =>
                backing'[<<t, k>>] = table'[n] /\ table'[n] # None
          /\ patches' = patches \cup {[from |-> <<t, i>>, ref |-> <<t, k>>,
                                       target |-> backing'[<<t, k>>]]}
      BY <1>4, <2>1, <2>2, ReferenceBacks
    <2>4. k \in Used(t)
      BY <1>4, <2>1, ReferenceReads
    <2>5. unit'[t].pc = "gen"
      BY <1>4 DEF Reference, IInv, Typed, UnitState
    <2>6. p = [from |-> <<t, i>>, ref |-> <<t, k>>, target |-> backing'[<<t, k>>]]
      BY <1>1, <1>4, <2>3
    <2> QED
      BY <2>3, <2>4, <2>5, <2>6
  <1>5. (\E t \in Units : Reference(t)) \/ UNCHANGED patches
    BY DEF Next, Compile, StartUnit, CheckInline, LoadFirst, LinkThread, CreateSymbol,
           ExportSymbol, NextBody, WriteObject, vars
  <1> QED
    BY <1>1, <1>3, <1>4, <1>5

-----------------------------------------------------------------------------
(* The object                                                               *)

LEMMA RootsAreReached ==
    ASSUME NEW ss, ss \in Seq(ToSet(ss)), NEW i \in DOMAIN ss, Root(ss[i])
    PROVE  i \in Reached(ss)
  <1> DEFINE m == Len(ss)
             g == CHOOSE f : f = [n \in 0 .. m |-> Wave(ss, f, n)]
             T == {n \in Nat : n <= m => i \in g[n]}
  <1>1. m \in Nat
    OBVIOUS
  <1>2. g = [n \in 0 .. m |-> Wave(ss, g, n)]
    BY <1>1, WavesExist
  <1>3. Reached(ss) = g[m]
    BY DEF Reached, Wave
  <1> HIDE DEF g, m
  <1>4. 0 \in T
    <2>1. g[0] = {k \in DOMAIN ss : Root(ss[k])}
      BY <1>1, <1>2 DEF Wave
    <2> QED
      BY <2>1
  <1>5. ASSUME NEW n \in Nat, n \in T PROVE n + 1 \in T
    <2> SUFFICES ASSUME n + 1 <= m PROVE i \in g[n+1]
      OBVIOUS
    <2>1. g[n+1] = g[n] \cup UNION {ToSet(ss[k].refs) : k \in g[n]}
      <3>1. n + 1 \in 0 .. m /\ n + 1 # 0 /\ (n + 1) - 1 = n
        BY <1>1
      <3> QED
        BY <3>1, <1>2 DEF Wave
    <2>2. i \in g[n]
      BY <1>1, <1>5
    <2> QED
      BY <2>1, <2>2
  <1>6. m \in T
    <2> HIDE DEF T
    <2> QED
      BY <1>1, <1>4, <1>5, Counting
  <1> QED
    BY <1>1, <1>3, <1>6

\* The walk meets what has been made.
LEMMA MadeIsWalked ==
    ASSUME IInv, WInv, NEW s, Made(s)
    PROVE  s \in ToSet(Walk)
  <1>1. /\ first \in Seq(Threads) /\ symbols \in [Threads -> Seq(AllSymbols)]
        /\ \A a, b \in DOMAIN first : first[a] = first[b] => a = b
        /\ \A th \in Threads : symbols[th] # << >> => \E k \in 1 .. Len(first) : first[k] = th
    BY DEF IInv, Typed, WInv, Lists, ThreadsStayListed, Contains
  <1>2. PICK f : Lays(f, Walk, DOMAIN first)
    BY <1>1, WalkLays
  <1>3. PICK p \in Places : SymbolAt(p) = s
    BY DEF Made
  <1>4. p[1] \in Threads /\ p[2] \in 1 .. Len(symbols[p[1]]) /\ p = <<p[1], p[2]>>
    BY DEF Places
  <1>5. p \in PlacesOf(DOMAIN first)
    <2>1. symbols[p[1]] # << >>
      BY <1>1, <1>4
    <2>2. PICK x \in DOMAIN first : first[x] = p[1]
      BY <1>1, <1>4, <2>1
    <2> QED
      BY <1>4, <2>2 DEF PlacesOf
  <1>6. /\ DOMAIN Walk = 1 .. Len(Walk)
        /\ f \in Bijection(1 .. Len(Walk), PlacesOf(DOMAIN first))
        /\ \A k \in 1 .. Len(Walk) : Walk[k] = SymbolAt(f[k])
    BY <1>2 DEF Lays
  <1>7. PICK k \in 1 .. Len(Walk) : f[k] = p
    BY <1>5, <1>6 DEF Bijection, Surjection
  <1> QED
    BY <1>3, <1>6, <1>7 DEF ToSet

AllDone == \A t \in Units : unit[t].pc = "done"

\* A definition that kept its backing has an entry in the symbol table, and a body if it is
\* a function.
LEMMA BackedIsListed ==
    ASSUME IInv, WInv, AllMade, Generated, AllDone,
           NEW t \in Units, NEW k \in Allocated(t), <<t, k>> \in backed
    PROVE  /\ Def(t, k) \in Listed /\ Def(t, k) \in ToSet(Walk)
           /\ Stmt(t, k).op = "func" => Def(t, k) \in built
           /\ Def(t, k).kind = Stmt(t, k).op /\ Stmt(t, k).op \in {"func", "global"}
  <1>1. PICK d : d = Def(t, k)
    OBVIOUS
  <1>2. k \in DOMAIN build.units[t] /\ build \in Builds
    BY StmtsOf DEF IInv, Typed
  <1>3. d \in ToSet(Walk)
    <2>1. PastAt(unit[t], k)
      BY DEF AllDone, PastAt
    <2>2. Made(d)
      BY <1>1, <2>1 DEF AllMade
    <2> QED
      BY <2>2, MadeIsWalked
  <1>4. Stmt(t, k).op = "func" => d \in built
    BY <1>1, <1>2 DEF Generated, AllDone, Bodies
  <1>5. d.kind = Stmt(t, k).op /\ Stmt(t, k).op \in {"func", "global"}
    BY <1>1 DEF Def, SymbolOf, Allocated, Backed
  <1>6. d \in Listed
    <2>1. CASE d.kind = "func"
      BY <1>3, <1>4, <1>5, <2>1 DEF Listed
    <2>2. CASE d.kind = "global"
      BY <1>3, <2>2 DEF Listed
    <2> QED
      BY <1>5, <2>1, <2>2
  <1> QED
    BY <1>1, <1>3, <1>4, <1>5, <1>6

\* What the table offers for a name is a definition that C lets its users have.
LEMMA OfferedIsRight ==
    ASSUME IInv, WInv, AllMade, Generated, AllDone, InlineInHeaders, StaticsAreOwn,
           NEW n, NEW s, Offered(n, s)
    PROVE  /\ s \in Listed /\ s # None /\ s.name = n /\ Defined(s)
           /\ s.kind = "func" => s \in built
           /\ Exports(n) # {} => s.at \in Exports(n)
  <1>1. PICK t \in Units : \E k \in Allocated(t) :
          /\ s = Def(t, k) /\ Stmt(t, k).name = n /\ <<t, k>> \in backed /\ OutAt(unit[t], k)
          /\ Stmt(t, k).inline \/ Exported(Stmt(t, k))
    BY DEF Offered
  <1>2. PICK k \in Allocated(t) :
          /\ s = Def(t, k) /\ Stmt(t, k).name = n /\ <<t, k>> \in backed /\ OutAt(unit[t], k)
          /\ Stmt(t, k).inline \/ Exported(Stmt(t, k))
    BY <1>1
  <1>3. k \in DOMAIN build.units[t] /\ build \in Builds /\ <<t, k>> \in Stmts
    BY StmtsOf DEF IInv, Typed
  <1>4. s \in Listed /\ (s.kind = "func" => s \in built)
    BY <1>2, BackedIsListed
  <1>5. s # None /\ Defined(s)
    BY <1>2, <1>3, TwoKinds
  <1>6. s.name = n /\ s.at = <<t, k>>
    BY <1>2 DEF Def, SymbolOf
  <1>7. ASSUME NEW q \in Exports(n)
        PROVE  <<t, k>> \in Exports(n)
    <2>1. PICK p \in Stmts : p = <<t, k>> /\ p[1] = t /\ p[2] = k
      BY <1>3
    <2>2. q \in Stmts /\ Stmt(q[1], q[2]).name = n /\ Root(Stmt(q[1], q[2]))
      BY DEF Exports
    <2>3. PICK a, b : a = Stmt(p[1], p[2]) /\ b = Stmt(q[1], q[2])
      OBVIOUS
    <2>4. a.name = n /\ b.name = n /\ (a.inline \/ Exported(a)) /\ Root(b)
      BY <1>2, <2>1, <2>2, <2>3
    <2>5. Statement(b) /\ Statement(a)
      <3>1. q[1] \in Units /\ q[2] \in DOMAIN build.units[q[1]]
        BY <2>2 DEF Stmts
      <3> QED
        BY <1>3, <2>1, <2>3, <3>1, SymbolsAssumption DEF Units, Stmt
    <2>6. ~b.inline
      BY <2>4, <2>5 DEF Root, Statement
    <2>7. ~a.inline
      <3>1. CASE p = q
        BY <2>3, <2>6, <3>1
      <3>2. CASE p # q
        BY <2>2, <2>3, <2>4, <2>6, <3>2 DEF InlineInHeaders
      <3> QED
        BY <3>1, <3>2
    <2>8. ~(a.op = "global" /\ a.static)
      BY <2>2, <2>3, <2>4 DEF StaticsAreOwn
    <2>9. Root(a)
      BY <2>4, <2>7, <2>8 DEF Exported, Root
    <2> QED
      BY <2>1, <2>3, <2>4, <2>9 DEF Exports
  <1> QED
    BY <1>4, <1>5, <1>6, <1>7

\* The symbol a use is patched with, and what the writer makes of it.
LEMMA DefinitionsAreLinked ==
    ASSUME NEW p, p.target \in Listed, Defined(p.target), build.format = "coff",
           p.target.kind = "func" => p.target \in built
    PROVE  Linked(p) = p.target
  <1>1. Named(p.target) = p.target
    BY DEF Named
  <1> QED
    BY <1>1 DEF Linked

LEMMA ExternalsAreLinked ==
    ASSUME NEW p, NEW n, p.target = Ext(n), build.format = "coff"
    PROVE  /\ resolved[n] = None /\ Ext(n) \in Listed => Linked(p) = Ext(n)
           /\ resolved[n] # None /\ resolved[n] \in Listed => Linked(p) = resolved[n]
  <1>1. Ext(n).kind = "external" /\ Ext(n).name = n /\ ~Defined(Ext(n))
    BY DEF Ext, Defined
  <1>2. Linked(p) = Named(Ext(n))
    BY <1>1 DEF Linked
  <1>3. PICK x : x = Ext(n)
    OBVIOUS
  <1>4. Named(x) = LET r == IF ~Defined(x) /\ resolved[x.name] # None THEN resolved[x.name] ELSE x
                   IN  IF r \notin Listed THEN None ELSE r
    BY DEF Named
  <1> QED
    BY <1>1, <1>2, <1>3, <1>4

\* The symbol of a statement that its unit defines, or else of what its name means.
LEMMA UseIsLinked ==
    ASSUME IInv, WInv, BInv, LInv, InlineInHeaders, StaticsAreOwn, AllDone,
           build.format = "coff", NEW p \in patches,
           NEW ref, ref = p.ref, NEW to, to = Linked(p)
    PROVE  LET s == Stmt(ref[1], ref[2])
               own == Def(ref[1], ref[2])
           IN  LostRace(ref) \/
               /\ to # None /\ to.name = s.name
               /\ to.kind = "func" => to \in built
               /\ s.op # "decl" /\ ~s.inline => to = own
               /\ s.op = "decl" /\ Exports(s.name) # {} => to.at \in Exports(s.name)
  <1>1. PICK t \in Units : \E k \in Used(t) :
          /\ p.ref = <<t, k>> /\ unit[t].pc \in {"gen", "done"}
          /\ p.target = backing[<<t, k>>] /\ p.target # None
    BY DEF LInv, Patched
  <1>2. PICK k \in Used(t) : p.ref = <<t, k>> /\ p.target = backing[<<t, k>>] /\ p.target # None
    BY <1>1
  <1>3. PICK s, n, own : s = Stmt(t, k) /\ n = s.name /\ own = Def(t, k)
    OBVIOUS
  <1>4. /\ build \in Builds /\ k \in DOMAIN build.units[t] /\ n \in Names
        /\ own # None /\ own.name = n /\ own.kind = s.op /\ own.at = <<t, k>> /\ Defined(own)
        /\ s.op \in {"func", "global", "decl"} /\ s.inline \in BOOLEAN
        /\ s.inline => s.op = "func"
    <2>1. build \in Builds /\ k \in DOMAIN build.units[t]
      BY UsedIsClosed DEF IInv, Typed
    <2>2. Statement(s)
      BY <1>3, <2>1, SymbolsAssumption DEF Units, Stmt
    <2>3. own.name = n /\ own.kind = s.op /\ own.at = <<t, k>>
      BY <1>3 DEF Def, SymbolOf
    <2>4. n \in Names /\ own # None /\ Defined(own)
      BY <1>3, <2>1, TwoKinds
    <2> QED
      BY <2>1, <2>2, <2>3, <2>4 DEF Statement
  <1>5. SUFFICES \/ LostRace(ref)
                 \/ /\ to # None /\ to.name = n
                    /\ to.kind = "func" => to \in built
                    /\ s.op # "decl" /\ ~s.inline => to = own
                    /\ s.op = "decl" /\ Exports(n) # {} => to.at \in Exports(n)
    <2>1. ref[1] = t /\ ref[2] = k
      BY <1>2
    <2> QED
      BY <1>3, <2>1
  <1>6. AllMade /\ Generated
    BY DEF LInv
  \* A definition that the unit has not dropped.
  <1>7. ASSUME s.op # "decl", ~s.inline
        PROVE  k \in Allocated(t) /\ <<t, k>> \in backed /\ p.target = own
    <2>1. k \in Allocated(t)
      BY <1>3, <1>4, <1>7 DEF Allocated, Backed
    <2>2. <<t, k>> \in backed
      BY <1>3, <1>7, <2>1 DEF LInv, KeepTheirs
    <2>3. PastAt(unit[t], k)
      BY DEF AllDone, PastAt
    <2>4. Settled(t, k)
      BY <2>1 DEF BInv
    <2> QED
      BY <1>2, <1>3, <2>1, <2>2, <2>3, <2>4 DEF Settled
  <1>8. CASE p.target = own /\ k \in Allocated(t) /\ <<t, k>> \in backed
    <2>1. own \in Listed /\ (own.kind = "func" => own \in built) /\ own.kind # "decl"
      BY <1>3, <1>6, <1>8, BackedIsListed
    <2>2. to = own
      BY <1>4, <1>8, <2>1, DefinitionsAreLinked
    <2> QED
      BY <1>4, <2>1, <2>2
  <1>9. CASE p.target = own /\ k \in Allocated(t) /\ <<t, k>> \notin backed
    <2>1. s.inline
      BY <1>3, <1>9 DEF LInv, KeepTheirs
    <2>2. ref = <<t, k>> /\ ref[1] = t /\ ref[2] = k
      BY <1>2
    <2> QED
      BY <1>2, <1>3, <1>9, <2>1, <2>2 DEF LostRace
  \* What the table holds for the name.
  <1>10. CASE ~(p.target = own /\ k \in Allocated(t))
    <2>1. p.target = table[n] /\ table[n] # None
      BY <1>2, <1>3, <1>4, <1>10 DEF LInv, Backings
    <2>2. s.op = "decl" \/ s.inline
      BY <1>7, <1>10
    <2>3. ASSUME NEW d, Offered(n, d), to = d
          PROVE  /\ to # None /\ to.name = n /\ (to.kind = "func" => to \in built)
                 /\ Exports(n) # {} => to.at \in Exports(n)
      BY <1>6, <2>3, OfferedIsRight
    <2>4. CASE Offered(n, table[n])
      <3>1. /\ p.target \in Listed /\ Defined(p.target)
            /\ p.target.kind = "func" => p.target \in built
        BY <1>6, <2>1, <2>4, OfferedIsRight
      <3>2. to = table[n]
        BY <2>1, <3>1, DefinitionsAreLinked
      <3> QED
        BY <2>2, <2>3, <2>4, <3>2, <1>4
    <2>5. CASE table[n] = Ext(n) /\ resolved[n] # None
      <3>1. Offered(n, resolved[n])
        BY <1>4, <2>5 DEF LInv, Entries
      <3>2. resolved[n] \in Listed
        BY <1>6, <3>1, OfferedIsRight
      <3>3. to = resolved[n]
        BY <2>1, <2>5, <3>2, ExternalsAreLinked
      <3> QED
        BY <2>2, <2>3, <3>1, <3>3, <1>4
    <2>6. CASE table[n] = Ext(n) /\ Made(Ext(n)) /\ resolved[n] = None
      <3>0. Ext(n).kind = "external" /\ Ext(n).name = n
        BY DEF Ext
      <3>1. PICK x : x = Ext(n) /\ x.kind = "external" /\ x.name = n
        BY <3>0
      <3>2. x \in ToSet(Walk)
        BY <2>6, <3>1, MadeIsWalked
      <3>3. x \in Listed
        BY <2>6, <3>1, <3>2 DEF Listed
      <3>4. to = x
        BY <2>1, <2>6, <3>1, <3>3, ExternalsAreLinked
      <3>5. Exports(n) = {}
        <4> SUFFICES ASSUME NEW q \in Exports(n) PROVE FALSE
          OBVIOUS
        <4>1. q \in Stmts /\ Stmt(q[1], q[2]).name = n /\ Root(Stmt(q[1], q[2]))
          BY DEF Exports
        <4>2. PICK o, m : o = q[1] /\ m = q[2] /\ o \in Units /\ m \in DOMAIN build.units[o]
          BY <4>1 DEF Stmts
        <4>3. build.units[o] \in Seq(ToSet(build.units[o]))
          BY <1>4, <4>2, SymbolsAssumption DEF Units
        <4>4. m \in Used(o)
          BY <4>1, <4>2, <4>3, RootsAreReached DEF Used, Stmt
        <4>5. m \in Allocated(o)
          BY <4>1, <4>2, <4>4 DEF Root, Allocated, Backed
        <4>6. Exported(Stmt(o, m))
          BY <4>1, <4>2 DEF Root, Exported
        <4>7. OutAt(unit[o], m)
          BY <4>2 DEF AllDone, OutAt, Allocating
        <4>8. resolved[n] # None
          BY <2>6, <4>1, <4>2, <4>5, <4>6, <4>7 DEF LInv, Entered
        <4> QED
          BY <2>6, <4>8
      <3>6. x # None
        BY <1>3, <1>4, <3>1, TwoKinds
      <3> QED
        BY <2>2, <3>1, <3>4, <3>5, <3>6, <1>4
    <2> QED
      BY <1>4, <2>1, <2>4, <2>5, <2>6 DEF LInv, Entries
  <1> QED
    BY <1>8, <1>9, <1>10

\* The functions of the text section.
LEMMA TextIsUsed ==
    ASSUME IInv, WInv, BInv, LInv, AllDone
    PROVE  Text = {Def(p[1], p[2]) : p \in {q \in Stmts : /\ q[2] \in Used(q[1])
                                                           /\ Stmt(q[1], q[2]).op = "func"
                                                           /\ ~Stmt(q[1], q[2]).inline}}
  <1>1. build \in Builds /\ AllMade /\ Generated
    BY DEF IInv, Typed, LInv
  <1> DEFINE S == {q \in Stmts : /\ q[2] \in Used(q[1]) /\ Stmt(q[1], q[2]).op = "func"
                                 /\ ~Stmt(q[1], q[2]).inline}
  <1>2. ASSUME NEW t \in Units, NEW k \in Allocated(t)
        PROVE  /\ k # 0 /\ <<t, k>> \in Stmts /\ k \in Used(t)
    BY <1>1, StmtsOf DEF Allocated
  <1>3. ASSUME NEW s \in Text
        PROVE  \E p \in S : s = Def(p[1], p[2])
    <2>1. s \in built /\ Section(s) = <<0, 0>>
      BY DEF Text
    <2>2. PICK t \in Units : \E k \in Allocated(t) :
            s = Def(t, k) /\ <<t, k>> \in backed /\ OutAt(unit[t], k) /\ Stmt(t, k).op = "func"
      BY <2>1 DEF BInv, Stays
    <2>3. PICK k \in Allocated(t) :
            s = Def(t, k) /\ <<t, k>> \in backed /\ OutAt(unit[t], k) /\ Stmt(t, k).op = "func"
      BY <2>2
    <2>4. s.at = <<t, k>>
      BY <2>3 DEF Def, SymbolOf
    <2>5. ~Stmt(t, k).inline
      BY <1>2, <2>1, <2>4 DEF Section
    <2>6. PICK p \in Stmts : p = <<t, k>> /\ p[1] = t /\ p[2] = k
      BY <1>2
    <2>7. p \in S
      BY <1>2, <2>3, <2>5, <2>6
    <2> QED
      BY <2>3, <2>6, <2>7
  <1>4. ASSUME NEW p \in S
        PROVE  Def(p[1], p[2]) \in Text
    <2>1. PICK t, k, d : t = p[1] /\ k = p[2] /\ d = Def(t, k)
      OBVIOUS
    <2>2. /\ t \in Units /\ k \in DOMAIN build.units[t] /\ k \in Used(t)
          /\ Stmt(t, k).op = "func" /\ ~Stmt(t, k).inline
      BY <2>1 DEF Stmts
    <2>3. k \in Allocated(t)
      BY <1>1, <2>2, StmtsOf
    <2>4. <<t, k>> \in backed
      BY <2>2, <2>3 DEF LInv, KeepTheirs
    <2>5. d \in built /\ d \in ToSet(Walk)
      BY <1>1, <2>1, <2>2, <2>3, <2>4, BackedIsListed
    <2>6. d.at = <<t, k>>
      BY <2>1 DEF Def, SymbolOf
    <2>7. Section(d) = <<0, 0>>
      BY <2>2, <2>6 DEF Section
    <2> QED
      BY <2>1, <2>5, <2>7 DEF Text
  <1> HIDE DEF S
  <1>5. Text = {Def(p[1], p[2]) : p \in S}
    BY <1>3, <1>4
  <1> QED
    BY <1>5 DEF S

-----------------------------------------------------------------------------
(* The theorems                                                             *)

\* After the object has been written nothing happens any more.
Written == object # None => AllDone

\* What is asked of a build: what C asks of its units, and that the object is written as COFF
\* (the ELF writer does not follow `resolved`).
LinkableBuild == InlineInHeaders /\ StaticsAreOwn /\ build.format = "coff"

LEMMA SameHypotheses ==
    ASSUME build' = build
    PROVE  /\ InlineInHeaders' <=> InlineInHeaders
           /\ LinkableBuild' <=> LinkableBuild
  <1>1. Stmts' = Stmts /\ \A t, k : Stmt(t, k)' = Stmt(t, k)
    BY SameBuild
  <1>2. InlineInHeaders' <=> InlineInHeaders
    BY <1>1 DEF InlineInHeaders
  <1>3. StaticsAreOwn' <=> StaticsAreOwn
    BY <1>1 DEF StaticsAreOwn, Root
  <1> QED
    BY <1>2, <1>3 DEF LinkableBuild

LEMMA StepLinks ==
    ASSUME IInv, WInv, BInv, LInv, InlineInHeaders, Written, LinkableBuild => UsesLink, SameText,
           [Next]_vars
    PROVE  LInv' /\ Written' /\ (LinkableBuild => UsesLink') /\ SameText'
  <1>1. LInv'
    BY StepKeepsTheirs, StepMakesAll, StepEntries, StepEntered, StepBackings, StepPatches,
       StepGenerates DEF LInv
  <1>2. /\ build' = build /\ Units' = Units /\ Stmts' = Stmts
        /\ \A t, k : Stmt(t, k)' = Stmt(t, k) /\ Def(t, k)' = Def(t, k)
    BY OneBuild, SameBuild
  <1>3. \A n : Exports(n)' = Exports(n)
    BY <1>2 DEF Exports, Root
  <1>4. \A t : Used(t)' = Used(t)
    BY <1>2 DEF Used
  <1> DEFINE S == {Def(p[1], p[2]) : p \in {q \in Stmts : /\ q[2] \in Used(q[1])
                                                          /\ Stmt(q[1], q[2]).op = "func"
                                                          /\ ~Stmt(q[1], q[2]).inline}}
  <1>5. S' = S
    BY <1>2, <1>4
  <1>6. CASE WriteObject
    <2>1. /\ AllDone /\ AllDone' /\ UNCHANGED <<build, unit, backed, backing, built, patches>>
          /\ object'.text = InOrder(Text)
          /\ object'.links = {[ref |-> p.ref, to |-> Linked(p)] : p \in patches}
      BY <1>6, <1>2 DEF WriteObject, AllDone
    <2>2. Written'
      BY <2>1 DEF Written
    <2>3. SameText'
      <3>1. Text = S
        BY <2>1, TextIsUsed
      <3> HIDE DEF S
      <3>2. object'.text = InOrder(S')
        BY <1>5, <2>1, <3>1
      <3> QED
        BY <3>2 DEF SameText, S, InOrder, Before
    <2>4. ASSUME LinkableBuild PROVE UsesLink'
      <3>1. SUFFICES ASSUME NEW l \in object'.links, NEW ref, ref = l.ref, NEW to, to = l.to
                     PROVE  LET s == Stmt(ref[1], ref[2])
                                own == Def(ref[1], ref[2])
                            IN  LostRace(ref)' \/
                                /\ to # None /\ to.name = s.name
                                /\ to.kind = "func" => to \in built
                                /\ s.op # "decl" /\ ~s.inline => to = own
                                /\ s.op = "decl" /\ Exports(s.name) # {} =>
                                     to.at \in Exports(s.name)
        BY <1>2, <1>3, <2>1 DEF UsesLink
      <3>2. LostRace(ref)' <=> LostRace(ref)
        BY <1>2, <2>1 DEF LostRace
      <3>3. PICK p \in patches : l = [ref |-> p.ref, to |-> Linked(p)]
        BY <2>1
      <3>4. ref = p.ref /\ to = Linked(p)
        BY <3>1, <3>3
      <3> QED
        BY <2>1, <2>4, <3>2, <3>4, UseIsLinked DEF LinkableBuild
    <2> QED
      BY <1>1, <2>2, <2>3, <2>4
  <1>7. CASE UNCHANGED vars
    <2>1. Written'
      BY <1>2, <1>7 DEF Written, AllDone, vars
    <2>2. SameText'
      <3>1. object # None => object.text = InOrder(S)
        BY DEF SameText
      <3> HIDE DEF S
      <3>2. object' # None => object'.text = InOrder(S')
        BY <1>5, <1>7, <3>1 DEF vars
      <3> QED
        BY <3>2 DEF SameText, S, InOrder, Before
    <2>3. LinkableBuild => UsesLink'
      BY <1>2, <1>3, <1>7 DEF UsesLink, LostRace, vars
    <2> QED
      BY <1>1, <2>1, <2>2, <2>3
  <1>8. ASSUME NEW t \in Units, Compile(t)
        PROVE  object = None /\ object' = None
    <2>1. unit[t].pc # "done" /\ object' = object
      BY <1>8 DEF Compile, StartUnit, CheckInline, LoadFirst, LinkThread, CreateSymbol,
             ExportSymbol, Reference, NextBody
    <2> QED
      BY <2>1 DEF Written, AllDone
  <1> QED
    BY <1>1, <1>6, <1>7, <1>8 DEF Next, Written, SameText, UsesLink

LEMMA InitLinks == Init => LInv /\ Written /\ UsesLink /\ SameText
  <1> SUFFICES ASSUME Init PROVE LInv /\ Written /\ UsesLink /\ SameText
    OBVIOUS
  <1>1. /\ build \in Builds /\ object = None /\ patches = {}
        /\ table = [n \in Names |-> None] /\ resolved = [n \in Names |-> None]
        /\ backing = [p \in Stmts |-> None] /\ backed = {p \in Stmts : p[2] \in Backed(p[1])}
        /\ \A t \in Units : unit[t].pc = "new"
    BY DEF Init
  <1>2. \A t \in Units : \A k : ~PastAt(unit[t], k) /\ ~OutAt(unit[t], k)
    BY <1>1 DEF PastAt, OutAt
  <1>3. KeepTheirs
    <2> SUFFICES ASSUME NEW t \in Units, NEW k \in Allocated(t) PROVE <<t, k>> \in backed
      BY DEF KeepTheirs
    <2>1. PICK p \in Stmts : p = <<t, k>> /\ p[1] = t /\ p[2] = k
      BY <1>1, StmtsOf
    <2>2. k \in Backed(t)
      BY DEF Allocated
    <2> QED
      BY <1>1, <2>1, <2>2
  <1>4. AllMade /\ Entered
    BY <1>2 DEF AllMade, Entered
  <1>5. Entries /\ Patched
    BY <1>1 DEF Entries, Patched
  <1>6. Backings
    <2> SUFFICES ASSUME NEW t \in Units, NEW k \in DOMAIN build.units[t]
                 PROVE  backing[<<t, k>>] = None
      BY DEF Backings
    <2> QED
      BY <1>1, StmtsOf
  <1>7. Generated
    BY <1>1 DEF Generated
  <1> QED
    BY <1>1, <1>3, <1>4, <1>5, <1>6, <1>7 DEF LInv, Written, UsesLink, SameText

\* The inductive invariant of the two theorems.
UInv ==
    /\ IInv /\ WInv
    /\ InlineInHeaders => /\ BInv /\ LInv /\ Written /\ SameText
                          /\ LinkableBuild => UsesLink

LEMMA StepKeepsUInv ==
    ASSUME UInv, [Next]_vars
    PROVE  UInv'
  <1>1. IInv' /\ WInv'
    BY StepKeepsIInv, StepMakes DEF UInv
  <1>2. /\ InlineInHeaders' <=> InlineInHeaders
        /\ LinkableBuild' <=> LinkableBuild
    BY OneBuild, SameHypotheses
  <1>3. InlineInHeaders => /\ BInv' /\ LInv' /\ Written' /\ SameText'
                           /\ LinkableBuild => UsesLink'
    BY StepBodies, StepLinks DEF UInv
  <1> QED
    BY <1>1, <1>2, <1>3 DEF UInv

LEMMA InitUInv == Init => UInv
  BY InitIInv, InitMakes, InitBodies, InitLinks DEF UInv

\* In a COFF object every use of a name leads to the right symbol (property UsesLink): to
\* the unit's own definition if it has one, else to a definition that C lets it use, with
\* a body if it is a function, and only a name nobody defines stays external.  For any
\* units, statements and threads, and whichever unit meets the name first (ir_alloc_task,
\* get_external, emit_call_patches, tb_coff_write_output).
THEOREM UsesAreLinked == Spec => [](LinkableBuild => UsesLink)
  <1>1. UInv => (LinkableBuild => UsesLink)
    BY DEF UInv, LinkableBuild
  <1> QED
    BY <1>1, InitUInv, StepKeepsUInv, PTL DEF Spec

\* The text section is a function of the build alone (property SameText): whatever threads
\* compiled the units and however their steps interleaved, it has the used functions of
\* the source, in the order of the source (tb_module_layout_sections).
THEOREM TextIsReproducible == Spec => [](InlineInHeaders => SameText)
  <1>1. UInv => (InlineInHeaders => SameText)
    BY DEF UInv
  <1> QED
    BY <1>1, InitUInv, StepKeepsUInv, PTL DEF Spec
===============================================================================

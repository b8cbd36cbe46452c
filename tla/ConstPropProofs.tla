---------------------------- MODULE ConstPropProofs ----------------------------
(***************************************************************************)
(* Pass 1 of the constant propagation forgets nobody, for any set of       *)
(* graphs and words of any width.  The inductive invariant adds what holds *)
(* before the root has its type: everything is at Top, only the root waits *)
(* and what hangs on the root is excused, for the root will push it.       *)
(***************************************************************************)
EXTENDS ConstProp, TLAPS

Plain(gr) == {n \in DOMAIN gr : gr[n].op # "phi"}

\* While the root has no type nothing else has one, or waits.
RootFirst ==
    types[Root] = Top => \A n \in DOMAIN g : types[n] = Top /\ (n # Root => worklist[n] = 0)

\* n has its type, waits, is as low as it goes, or hangs on a root without a type.
Heard(n) ==
    \/ worklist[n] # 0
    \/ types[n] = FromDt(g[n].bits)
    \/ types[n] = ValueOf(g, types, n)
    \/ types[Root] = Top /\ (n = Root \/ Root \in ToSet(g[n].in))

\* The inductive invariant.
IInv ==
    phase = "types" =>
      /\ g \in Graphs
      /\ worklist \in [DOMAIN g -> Nat]
      /\ DOMAIN types = DOMAIN g
      /\ RootFirst
      /\ \A n \in Plain(g) : Heard(n)

-----------------------------------------------------------------------------
(* Values                                                                   *)

\* The value of a node that is not a phi depends on the types of its inputs only.
LEMMA ValueFromInputs ==
    ASSUME NEW gr, NEW n \in Plain(gr), NEW ts, NEW us,
           \A x \in ToSet(gr[n].in) \cap DOMAIN gr : ts[x] = us[x]
    PROVE  ValueOf(gr, ts, n) = ValueOf(gr, us, n)
  <1>1. \A i \in DOMAIN gr[n].in : gr[n].in[i] \in ToSet(gr[n].in)
    BY DEF ToSet
  <1>2. TypesOf(gr, ts, gr[n].in) = TypesOf(gr, us, gr[n].in)
    BY <1>1 DEF TypesOf
  <1> QED
    BY <1>2 DEF ValueOf, Plain

\* What does not hang on the root has no value as long as nothing it reads has one.
LEMMA NothingFromNothing ==
    ASSUME NEW gr, IsGraph(gr), NEW n \in Plain(gr), n # Root, Root \notin ToSet(gr[n].in),
           NEW ts, \A x \in DOMAIN gr : ts[x] = Top
    PROVE  ValueOf(gr, ts, n) = Top
  <1> DEFINE in == gr[n].in
             t == TypesOf(gr, ts, in)
  <1>1. DOMAIN t = 1 .. Len(in) /\ Len(in) \in Nat
    BY DEF IsGraph, TypesOf, Plain
  <1>2. \A i \in DOMAIN t : t[i] = Top
    BY DEF TypesOf
  <1>3. gr[n].op \in FromInputs \ {"phi"} /\ Arity(gr[n].op) <= Len(in)
    BY DEF IsGraph, Plain
  <1>4. t[1] = Top
    <2>1. 1 <= Len(in)
      BY <1>1, <1>3 DEF Arity
    <2> QED
      BY <1>1, <1>2, <2>1
  <1>5. ValueOf(gr, ts, n) = Transfer(gr, n, t)
    BY DEF ValueOf, Plain
  <1> HIDE DEF t
  <1>6. CASE gr[n].op \in Compares \cup {"add", "sub", "mul"}
    <2>1. t[2] = Top
      BY <1>1, <1>2, <1>3, <1>6 DEF Arity, Compares
    <2> QED
      BY <1>5, <1>6, <2>1 DEF Transfer, Strict, Compares, Projs
  <1>7. CASE gr[n].op \in Projs
    <2>1. Top # Bot
      BY DEF Top, Bot
    <2>2. Transfer(gr, n, t) = ValueProj(gr[n], t[1])
      BY <1>7 DEF Transfer, Compares, Projs
    <2> QED
      BY <1>4, <1>5, <2>1, <2>2 DEF ValueProj
  <1>8. CASE gr[n].op = "select"
    <2>1. t[3] = Top /\ t[4] = Top
      BY <1>1, <1>2, <1>3, <1>8 DEF Arity, Compares
    <2>2. Meet(Top, Top) = Top
      BY DEF Meet, MeetFlat, Top
    <2> QED
      BY <1>5, <1>8, <2>1, <2>2 DEF Transfer, Compares, Projs
  <1>9. CASE gr[n].op = "region"
    <2>1. Top # Live
      BY DEF Top, Live
    <2> QED
      BY <1>2, <1>5, <1>9, <2>1 DEF Transfer, Compares, Projs
  <1>10. CASE gr[n].op = "branch"
    BY <1>4, <1>5, <1>10 DEF Transfer, ValueBranch, Compares, Projs
  <1>11. CASE gr[n].op = "return"
    BY <1>4, <1>5, <1>11 DEF Transfer, Compares, Projs
  <1> QED
    BY <1>3, <1>6, <1>7, <1>8, <1>9, <1>10, <1>11 DEF FromInputs

\* The root has a type as soon as it is visited.
LEMMA RootHasValue ==
    ASSUME NEW gr, IsGraph(gr), NEW ts
    PROVE  Root \in Plain(gr) /\ ValueOf(gr, ts, Root) # Top
  <1>1. Root \in DOMAIN gr /\ gr[Root].op = "root"
    BY DEF IsGraph
  <1>2. ValueOf(gr, ts, Root) = TupleFromNode(gr, Root)
    BY <1>1 DEF ValueOf, Transfer, Compares, Projs
  <1>3. \A e : Tuple(e) # Top
    BY DEF Tuple, Top
  <1> QED
    BY <1>1, <1>2, <1>3 DEF Plain, TupleFromNode

-----------------------------------------------------------------------------
(* Steps                                                                    *)

LEMMA InitIInv == Init => IInv
  <1> SUFFICES ASSUME Init PROVE IInv
    OBVIOUS
  <1>1. IsGraph(g)
    BY GraphsAssumption DEF Init
  <1>2. worklist \in [DOMAIN g -> Nat] /\ DOMAIN types = DOMAIN g
    BY DEF Init
  <1>3. \A n \in DOMAIN g : types[n] = Top /\ (n # Root => worklist[n] = 0)
    BY DEF Init
  <1>4. ASSUME NEW n \in Plain(g) PROVE Heard(n)
    <2>1. CASE n = Root \/ Root \in ToSet(g[n].in)
      BY <1>1, <1>3, <2>1 DEF Heard, IsGraph
    <2>2. CASE n # Root /\ Root \notin ToSet(g[n].in)
      BY <1>1, <1>3, <2>2, NothingFromNothing DEF Heard, Plain
    <2> QED
      BY <2>1, <2>2
  <1> QED
    BY <1>2, <1>3, <1>4 DEF IInv, RootFirst, Init

\* Popping a node that has its type already.
LEMMA PopIInv ==
    ASSUME IInv, NEW n \in DOMAIN g, CpropNode(n), ValueOf(g, types, n) = types[n]
    PROVE  IInv'
  <1>1. /\ phase = "types" /\ phase' = phase
        /\ g' = g /\ types' = types /\ worklist' = [worklist EXCEPT ![n] = 0]
    BY DEF CpropNode, Pop
  <1>2. g \in Graphs /\ worklist \in [DOMAIN g -> Nat] /\ DOMAIN types = DOMAIN g
    BY <1>1 DEF IInv
  <1>3. worklist' \in [DOMAIN g -> Nat]
    BY <1>1, <1>2
  <1>4. RootFirst'
    BY <1>1, <1>2 DEF IInv, RootFirst
  <1>5. ASSUME NEW m \in Plain(g) PROVE Heard(m)'
    <2>1. CASE m = n
      BY <1>1, <2>1 DEF Heard
    <2>2. CASE m # n
      <3>1. worklist'[m] = worklist[m]
        BY <1>1, <1>2, <2>2 DEF Plain
      <3> QED
        BY <1>1, <3>1 DEF Heard, IInv
    <2> QED
      BY <2>1, <2>2
  <1> QED
    BY <1>1, <1>2, <1>3, <1>4, <1>5 DEF IInv

\* A node gets a new type.
LEMMA ChangeIInv ==
    ASSUME IInv, NEW n \in DOMAIN g, CpropNode(n), ValueOf(g, types, n) # types[n]
    PROVE  IInv'
  <1> DEFINE new == ValueOf(g, types, n)
             ts == [types EXCEPT ![n] = new]
             S == Affected(types')
  <1>1. /\ phase = "types" /\ phase' = phase /\ g' = g
        /\ types' = AfterChange(n, new) /\ worklist' = PopAndPush(n, S)
    BY DEF CpropNode
  <1>2. /\ g \in Graphs /\ worklist \in [DOMAIN g -> Nat] /\ DOMAIN types = DOMAIN g
        /\ RootFirst
        /\ \A m \in Plain(g) : Heard(m)
    BY <1>1 DEF IInv
  <1>3. IsGraph(g)
    BY <1>2, GraphsAssumption
  <1>4. worklist[n] # 0
    BY DEF CpropNode, OnTop
  <1>5. /\ DOMAIN types' = DOMAIN g
        /\ \A m \in DOMAIN g : types'[m] = IF m \in Users(g, n) /\ OneInput(g, m) THEN ValueOf(g, ts, m) ELSE ts[m]
    BY <1>1, <1>2 DEF AfterChange
  <1>6. \A u \in Users(g, n) : ~(OneInput(g, n) /\ OneInput(g, u))
    BY <1>3 DEF IsGraph
  \* The node itself keeps what it got.
  <1>7. types'[n] = new /\ types'[n] # types[n]
    BY <1>2, <1>5, <1>6
  \* The worklist loses n only, and gets S.
  <1>8. /\ worklist' \in [DOMAIN g -> Nat]
        /\ \A m \in DOMAIN g : m # n /\ worklist[m] # 0 => worklist'[m] # 0
        /\ \A m \in S \cap DOMAIN g : worklist'[m] # 0
    <2> DEFINE level == IF \E m \in DOMAIN worklist : m # n /\ worklist[m] = worklist[n]
                        THEN worklist[n] + 1 ELSE worklist[n]
    <2>1. level \in Nat /\ level # 0
      BY <1>2, <1>4
    <2>2. worklist' = [m \in DOMAIN g |-> IF Pop(n)[m] = 0 /\ m \in S THEN level ELSE Pop(n)[m]]
      BY <1>1, <1>2 DEF PopAndPush
    <2>3. Pop(n) \in [DOMAIN g -> Nat] /\ \A m \in DOMAIN g : m # n => Pop(n)[m] = worklist[m]
      BY <1>2 DEF Pop
    <2> HIDE DEF level, S
    <2> QED
      BY <2>1, <2>2, <2>3
  \* The root has a type from now on.
  <1>9. types'[Root] # Top
    <2>1. ~OneInput(g, Root) /\ Root \in DOMAIN g
      BY <1>3 DEF IsGraph
    <2>2. CASE n = Root
      BY <1>3, <1>7, <2>2, RootHasValue
    <2>3. CASE n # Root
      BY <1>2, <1>4, <1>5, <2>1, <2>3 DEF RootFirst
    <2> QED
      BY <2>2, <2>3
  <1>10. ASSUME NEW m \in Plain(g) PROVE Heard(m)'
    <2> m \in DOMAIN g
      BY DEF Plain
    \* A user of n that reads nothing else was computed from the new type.
    <2>1. CASE m \in Users(g, n) /\ OneInput(g, m)
      <3>1. \A x \in ToSet(g[m].in) : x = n
        BY <1>3, <2>1 DEF ToSet, Users, OneInput, IsGraph
      <3>2. ValueOf(g, ts, m) = ValueOf(g, types', m)
        BY <1>2, <1>7, <3>1, ValueFromInputs
      <3> QED
        BY <1>1, <1>5, <2>1, <3>2 DEF Heard
    \* One of the inputs changed: m is pushed, unless it is at its bottom.
    <2>2. CASE /\ ~(m \in Users(g, n) /\ OneInput(g, m))
               /\ \E x \in ToSet(g[m].in) \cap DOMAIN g : types'[x] # types[x]
      <3>1. PICK x \in ToSet(g[m].in) \cap DOMAIN g : types'[x] # types[x]
        BY <2>2
      <3>2. m \in Users(g, x)
        BY <3>1 DEF Users
      <3>3. ~OneInput(g, m)
        <4>1. x = n \/ (x \in Users(g, n) /\ OneInput(g, x))
          BY <1>2, <1>5, <3>1
        <4> QED
          BY <1>3, <2>2, <3>2, <4>1 DEF IsGraph
      <3>4. m \in S \/ types'[m] = FromDt(g[m].bits)
        BY <1>2, <3>1, <3>2, <3>3 DEF Affected, NonBottoms
      <3> QED
        BY <1>1, <1>8, <3>4 DEF Heard
    \* Nothing m reads changed: its value is the same.
    <2>3. CASE /\ ~(m \in Users(g, n) /\ OneInput(g, m))
               /\ \A x \in ToSet(g[m].in) \cap DOMAIN g : types'[x] = types[x]
      <3>1. ValueOf(g, types', m) = ValueOf(g, types, m)
        BY <2>3, ValueFromInputs
      <3>2. CASE m = n
        BY <1>1, <1>7, <3>1, <3>2 DEF Heard
      <3>3. CASE m # n
        <4>1. types'[m] = types[m]
          BY <1>2, <1>5, <2>3, <3>3
        <4>2. ~(types[Root] = Top /\ Root \in ToSet(g[m].in))
          BY <1>3, <1>9, <2>3 DEF IsGraph
        <4>3. ~(types[Root] = Top /\ m = Root)
          BY <1>2, <1>4, <3>3 DEF RootFirst
        <4> QED
          BY <1>1, <1>2, <1>8, <3>1, <3>3, <4>1, <4>2, <4>3 DEF Heard
      <3> QED
        BY <3>2, <3>3
    <2> QED
      BY <2>1, <2>2, <2>3
  <1> QED
    BY <1>1, <1>2, <1>5, <1>8, <1>9, <1>10 DEF IInv, RootFirst

LEMMA StepIInv == IInv /\ [Next]_vars => IInv'
  <1> SUFFICES ASSUME IInv, [Next]_vars PROVE IInv'
    OBVIOUS
  <1>1. ASSUME NEW n \in DOMAIN g, CpropNode(n) PROVE IInv'
    BY <1>1, PopIInv, ChangeIInv
  <1>2. CASE StartRewriting \/ Finish
    BY <1>2 DEF StartRewriting, Finish, IInv
  <1>3. CASE RewriteNode
    BY <1>3 DEF RewriteNode, IInv
  <1>4. CASE UNCHANGED vars
    BY <1>4 DEF vars, IInv, RootFirst, Heard
  <1> QED
    BY <1>1, <1>2, <1>3, <1>4 DEF Next

THEOREM Invariance == Spec => []IInv
  BY InitIInv, StepIInv, PTL DEF Spec

\* The worklist of the constant propagation forgets nobody: once the root has its type, each
\* node but the phis has the type of its inputs, waits, or is as low as it goes
\* (push_non_bottoms and tb_opt_cprop_node).
THEOREM WorklistIsComplete == Spec => []UpToDate
  <1>1. IInv => UpToDate
    BY DEF IInv, UpToDate, Heard, Plain
  <1> QED
    BY <1>1, Invariance, PTL
-----------------------------------------------------------------------------
(* The lattice                                                              *)

Ints == [tag : {"int"}, min : Int, max : Int, zeros : SUBSET AllBits, ones : SUBSET AllBits, widen : Nat]

\* The meet of two integers has the values of both, with words and values of any width
\* (int_meet): a phi never loses a value one of its edges brings.
THEOREM MeetIsSound ==
    ASSUME NEW a \in Ints, NEW b \in Ints, NEW v \in Int, NEW bits \in Nat,
           Has(a, v, bits) \/ Has(b, v, bits)
    PROVE  Has(Meet(a, b), v, bits)
  <1> DEFINE m == MeetInt(a, b)
  <1>1. Meet(a, b) = MeetFlat(a, b)
    BY DEF Meet, Ints
  <1>2. /\ m.tag = "int" /\ m.min \in Int /\ m.max \in Int
        /\ m.min <= a.min /\ m.min <= b.min /\ a.max <= m.max /\ b.max <= m.max
        /\ m.zeros = a.zeros \cap b.zeros /\ m.ones = a.ones \cap b.ones
    BY DEF MeetInt, Int_, MinOf, MaxOf, Ints
  <1>3. Has(m, v, bits)
    <2>1. a # Bot /\ b # Bot
      BY DEF Bot, Ints
    <2>2. PICK l \in {a, b} : Has(l, v, bits)
      OBVIOUS
    <2>3. m.min <= v /\ v <= m.max
      BY <1>2, <2>1, <2>2 DEF Has, Ints
    <2>4. m.zeros \cap BitsOf(v) \cap Mask(bits) = {} /\ m.ones \cap Mask(bits) \subseteq BitsOf(v)
      BY <1>2, <2>1, <2>2, Zenon DEF Has
    <2> QED
      BY <1>2, <2>3, <2>4 DEF Has
  <1>4. MeetFlat(a, b) = m \/ (a = b /\ MeetFlat(a, b) = a)
    BY DEF MeetFlat, Ints, Top, Live, Dead
  <1> QED
    BY <1>1, <1>3, <1>4
================================================================================

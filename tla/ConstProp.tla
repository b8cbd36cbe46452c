-------------------------------- MODULE ConstProp -------------------------------
(***************************************************************************)
(* tb_opt_cprop (optimizer.c): sparse conditional constant propagation.    *)
(*                                                                         *)
(* Pass 1 starts with every node at Top and lowers types until the         *)
(* worklist is empty; pass 2 visits every node once and puts constants and *)
(* the control that is left in place of what the types decide.             *)
(*                                                                         *)
(* A node is [op, in, bits, val, key]: its inputs in order (0 is NULL), the *)
(* width of its value, and the value of a constant or the index and key of *)
(* a projection.  Node 1 is the root.                                      *)
(***************************************************************************)
EXTENDS Lattice, SequencesExt

CONSTANTS Graphs

VARIABLES g,          \* the graph
          prog,       \* the graph before the pass
          types,      \* f->types
          worklist,   \* pass 1: a stack; the level a node was pushed at, 0 if it is not in it
          queue,      \* pass 2: the rest of the worklist, in batches pushed together
          listed,     \* pass 2: the visited bits of the worklist
          phase
vars == <<g, prog, types, worklist, queue, listed, phase>>

Root == 1
Node(op, in, bits, val, key) == [op |-> op, in |-> in, bits |-> bits, val |-> val, key |-> key]
Compares == {"eq", "ne", "slt", "sle", "ult", "ule"}
Projs == {"proj", "bproj"}

Users(gr, n) == {u \in DOMAIN gr : n \in ToSet(gr[u].in)}
PhisOf(gr, r) == {p \in Users(gr, r) : gr[p].op = "phi" /\ gr[p].in[1] = r}
ProjsOf(gr, n) == {p \in Users(gr, n) : gr[p].op \in Projs}

OneInput(gr, n) == Len(gr[n].in) = 1

\* What pass 1 relies on: all that has a type of its own hangs on the root, and what reads
\* one thing only is not read by another such node.
FromInputs == Compares \cup Projs \cup {"add", "sub", "mul", "select", "region", "branch", "return", "phi"}
Arity(op) == CASE op = "select" -> 4
               [] op \in Compares \cup {"add", "sub", "mul"} -> 3
               [] op = "branch" -> 2
               [] OTHER -> 1
IsGraph(gr) ==
    /\ Root \in DOMAIN gr /\ gr[Root].op = "root" /\ ~OneInput(gr, Root)
    /\ \A n \in DOMAIN gr :
         /\ Len(gr[n].in) \in Nat /\ DOMAIN gr[n].in = 1 .. Len(gr[n].in)
         /\ gr[n].op \in FromInputs => Arity(gr[n].op) <= Len(gr[n].in)
         /\ n = Root \/ Root \in ToSet(gr[n].in) \/ gr[n].op \in FromInputs
         /\ OneInput(gr, n) => \A u \in Users(gr, n) : ~OneInput(gr, u)
ASSUME GraphsAssumption == \A gr \in Graphs : IsGraph(gr)

-----------------------------------------------------------------------------
(* The value of a node from the types of what it reads                      *)

\* lattice_tuple_from_node: every projection at its worst.
TupleFromNode(gr, n) ==
    Tuple([i \in 1 .. Cardinality(ProjsOf(gr, n)) |->
             FromDt(gr[CHOOSE p \in ProjsOf(gr, n) : gr[p].val = i - 1].bits)])
\* lattice_branch_goto
BranchGoto(succs, taken) == Tuple([i \in 1 .. succs |-> IF i = taken + 1 THEN Live ELSE Dead])

ValueBranch(gr, n, before, key) ==
    IF before = Top \/ key = Top THEN Top
    ELSE IF IsConst(key)
    THEN LET hits == {p \in ProjsOf(gr, n) : gr[p].val > 0 /\ gr[p].key = key.min}
         IN  BranchGoto(Cardinality(ProjsOf(gr, n)), IF hits = {} THEN 0 ELSE gr[CHOOSE p \in hits : TRUE].val)
    ELSE TupleFromNode(gr, n)

ValueProj(node, of) ==
    CASE of = Top -> Top
      [] of = Bot -> FromDt(node.bits)
      [] OTHER    -> of.elems[node.val + 1]

\* The meet of what a phi gets over the edges that are live.
MeetOfEdges(edges, in) ==
    LET live == {i \in DOMAIN edges : edges[i] = Live}
    IN  FoldSet(LAMBDA i, l : Meet(l, in[i]), Top, live)
\* Mutant: the widening count is not kept.
MutValuePhi(bits, old, region, edges, in) ==
    LET l == MeetOfEdges(edges, in)
    IN  IF region = Top THEN Top
        ELSE IF old.tag # "int" \/ l.tag # "int" \/ old = l \/ Meet(old, l) # l THEN l
        ELSE IF l.widen >= INT_WIDEN_LIMIT THEN FullRange(bits, INT_WIDEN_LIMIT)
        ELSE [l EXCEPT !.widen = MaxOf(old.widen, l.widen) + 1]
\* A phi waits for its region to be reached.  Its widening count never falls; a step down
\* raises it, until the limit gives up on the range.
ValuePhi(bits, old, region, edges, in) ==
    LET met == MeetOfEdges(edges, in)
        ints == old.tag = "int" /\ met.tag = "int"
        l == IF ints /\ met.widen < old.widen THEN [met EXCEPT !.widen = old.widen] ELSE met
    IN  IF region = Top THEN Top
        ELSE IF ~ints \/ old = l \/ Meet(old, l) # l THEN l
        ELSE IF l.widen >= INT_WIDEN_LIMIT THEN FullRange(bits, INT_WIDEN_LIMIT)
        ELSE [l EXCEPT !.widen = MaxOf(old.widen, l.widen) + 1]

\* The value functions of the vtable (peeps.h); t has the types of the inputs.
Strict(t, l) == IF t[2] = Top \/ t[3] = Top THEN Top ELSE l
Transfer(gr, n, t) ==
    LET node == gr[n]
    IN  CASE node.op = "root"     -> TupleFromNode(gr, n)
          [] node.op = "iconst"   -> ValueInt(node.val, node.bits)
          [] node.op \in Projs    -> ValueProj(node, t[1])
          [] node.op \in Compares -> Strict(t, ValueCmp(node.op, t[2], t[3], gr[node.in[2]].bits))
          [] node.op = "add"      -> Strict(t, ValueAdd(t[2], t[3], node.bits))
          [] node.op = "sub"      -> Strict(t, ValueSub(t[2], t[3], node.bits))
          [] node.op = "mul"      -> Strict(t, FromDt(node.bits))
          [] node.op = "select"   -> Meet(t[3], t[4])
          [] node.op = "region"   -> IF \E i \in DOMAIN t : t[i] = Live THEN Live ELSE Top
          [] node.op = "branch"   -> ValueBranch(gr, n, t[1], t[2])
          [] node.op = "return"   -> t[1]
          [] node.op = "dead"     -> Top
          [] OTHER                -> FromDt(node.bits)

TypesOf(gr, ts, in) == [i \in DOMAIN in |-> IF in[i] \in DOMAIN gr THEN ts[in[i]] ELSE Top]
\* value_of
ValueOf(gr, ts, n) ==
    LET node == gr[n]
        t == TypesOf(gr, ts, node.in)
    IN  IF node.op = "phi"
        THEN LET edges == TypesOf(gr, ts, gr[node.in[1]].in)
             IN  ValuePhi(node.bits, ts[n], t[1], edges, [i \in DOMAIN edges |-> t[i + 1]])
        ELSE Transfer(gr, n, t)

-----------------------------------------------------------------------------
(* Pass 1: find constants                                                   *)

Init ==
    /\ g \in Graphs
    /\ prog = g
    /\ types = [n \in DOMAIN g |-> Top]
    /\ worklist = [n \in DOMAIN g |-> IF n = Root THEN 1 ELSE 0]
    /\ queue = <<>> /\ listed = {}
    /\ phase = "types"

\* push_non_bottoms
NonBottoms(ts, S) == {n \in S : ts[n] # FromDt(g[n].bits)}

\* The users of n that read nothing else are handled at once.
AfterChange(n, new) ==
    LET ts == [types EXCEPT ![n] = new]
    IN  [m \in DOMAIN types |-> IF m \in Users(g, n) /\ OneInput(g, m) THEN ValueOf(g, ts, m) ELSE ts[m]]
\* Mutant: the users of what was handled at once are forgotten.
MutAffected(ts) ==
    LET users == UNION {Users(g, m) : m \in {m \in DOMAIN types : ts[m] # types[m] /\ ~OneInput(g, m)}}
        others == {u \in users : ~OneInput(g, u)}
    IN  NonBottoms(ts, others \cup UNION {PhisOf(g, r) : r \in {r \in others : g[r].op = "region"}})
\* Mutant: the phis of a region do not hear of its edges.
MutNoPhis(ts) ==
    NonBottoms(ts, {u \in UNION {Users(g, m) : m \in {m \in DOMAIN types : ts[m] # types[m]}} : ~OneInput(g, u)})
\* Who is to hear of the new types: users, and the phis of the regions among them.
Affected(ts) ==
    LET users == UNION {Users(g, m) : m \in {m \in DOMAIN types : ts[m] # types[m]}}
        others == {u \in users : ~OneInput(g, u)}
    IN  NonBottoms(ts, others \cup UNION {PhisOf(g, r) : r \in {r \in others : g[r].op = "region"}})

\* worklist_pop, and what the users are pushed in front of it.  The order of the users of a
\* node is that of the node's history, so each order is possible.
OnTop(n) == worklist[n] # 0 /\ \A m \in DOMAIN worklist : worklist[m] <= worklist[n]
Pop(n) == [worklist EXCEPT ![n] = 0]
PopAndPush(n, S) ==
    LET level == IF \E m \in DOMAIN worklist : m # n /\ worklist[m] = worklist[n] THEN worklist[n] + 1 ELSE worklist[n]
    IN  [m \in DOMAIN worklist |-> IF Pop(n)[m] = 0 /\ m \in S THEN level ELSE Pop(n)[m]]

Settled == \A n \in DOMAIN worklist : worklist[n] = 0

\* tb_opt_cprop_node
CpropNode(n) ==
    /\ phase = "types" /\ OnTop(n)
    /\ LET new == ValueOf(g, types, n)
       IN  IF new = types[n]
           THEN worklist' = Pop(n) /\ UNCHANGED types
           ELSE /\ types' = AfterChange(n, new)
                /\ worklist' = PopAndPush(n, Affected(types'))
    /\ UNCHANGED <<g, prog, queue, listed, phase>>

-----------------------------------------------------------------------------
(* Pass 2: replace with constants                                           *)

\* The graph and the types while a node is rewritten.
State == [g |-> g, types |-> types]
\* tb__gvn: a node that is already there is taken instead.
Intern(s, node, type) ==
    IF node \in ToSet(s.g) THEN s
    ELSE [g |-> Append(s.g, node), types |-> s.types @@ (Len(s.g) + 1 :> type)]
IdOf(s, node) == CHOOSE n \in DOMAIN s.g : s.g[n] = node

IntNode(bits, x) == Node("iconst", <<Root>>, bits, SignExtend(x, bits), 0)
DeadNode == Node("dead", <<Root>>, -2, 0, 0)
PoisonNode(bits) == Node("poison", <<Root>>, bits, 0, 0)
\* make_int_node, dead_node, make_poison
MakeInt(s, bits, x) == Intern(s, IntNode(bits, x), ValueInt(x, bits))
MakeDead(s) == Intern(s, DeadNode, Dead)
MakePoison(s, bits) == Intern(s, PoisonNode(bits), FromDt(bits))

Kill(gr, n) == [gr EXCEPT ![n].op = "null", ![n].in = <<>>]
\* subsume_node
Subsume(gr, n, k) ==
    Kill([m \in DOMAIN gr |-> [gr[m] EXCEPT !.in = [i \in DOMAIN @ |-> IF @[i] = n THEN k ELSE @[i]]]], n)
SubsumeAll(gr, S, With(_, _)) == FoldSet(LAMBDA p, h : Subsume(h, p, With(h, p)), gr, S)

IsDeadCtrl(ts, n) == ts[n] \in {Top, Dead}

\* remove_input: the last one takes the place.
SwapRemove(s, i) == [j \in 1 .. Len(s) - 1 |-> IF j = i THEN s[Len(s)] ELSE s[j]]
\* The inputs that stay when those of S go, in their new order.
Kept(len, S) ==
    LET from[i \in Nat, s \in Seq(Nat)] ==
          IF i > Len(s) THEN s ELSE IF s[i] \in S THEN from[i, SwapRemove(s, i)] ELSE from[i + 1, s]
    IN  from[1, [j \in 1 .. len |-> j]]
\* Mutant: a phi loses its last inputs.
MutPhiInputs(in, kept) == SubSeq(in, 1, Len(kept) + 1)
\* A phi loses the same inputs, behind its region.
PhiInputs(in, kept) == <<in[1]>> \o [j \in DOMAIN kept |-> in[kept[j] + 1]]
PruneRegion(gr, r, kept) ==
    [m \in DOMAIN gr |->
       IF m = r THEN [gr[m] EXCEPT !.in = [j \in DOMAIN kept |-> @[kept[j]]]]
       ELSE IF m \in PhisOf(gr, r) THEN [gr[m] EXCEPT !.in = PhiInputs(@, kept)] ELSE gr[m]]

\* What try_as_const leaves, the node it returns (0 is NULL) and what else it pushes.
Result(s, k, push) == [g |-> s.g, types |-> s.types, k |-> k, push |-> push]
Nothing == Result(State, 0, {})

RegionAsConst(n) ==
    LET in == g[n].in
        kept == Kept(Len(in), {i \in DOMAIN in : IsDeadCtrl(types, in[i])})
        pruned == [State EXCEPT !.g = PruneRegion(g, n, kept)]
    IN  CASE kept = <<>> -> Result(MakeDead(pruned), IdOf(MakeDead(pruned), DeadNode), {})
          [] Len(kept) = 1 ->
               Result([pruned EXCEPT !.g = SubsumeAll(@, PhisOf(g, n), LAMBDA h, p : h[p].in[2])], in[kept[1]], {})
          [] 1 < Len(kept) /\ Len(kept) < Len(in) -> Result(pruned, n, {})
          [] OTHER -> Nothing

\* A node under dead control: dead if it is control, poison if it is a value.
DeadAsConst(n) ==
    LET s == MakeDead(State)
        dead == IdOf(s, DeadNode)
        p == MakePoison(State, g[n].bits)
    IN  CASE g[n].bits = TupleType ->
               Result([s EXCEPT !.g = SubsumeAll(@, ProjsOf(g, n), LAMBDA h, q : dead)], dead, {})
          [] g[n].bits = Ctrl -> Result(s, dead, {})
          [] OTHER -> Result(p, IdOf(p, PoisonNode(g[n].bits)), {})

\* A branch that goes one way only.
BranchAsConst(n, elems) ==
    LET s == MakeDead(State)
        dead == IdOf(s, DeadNode)
        ctrl == g[n].in[1]
        left == SubsumeAll(s.g, ProjsOf(g, n), LAMBDA h, p : IF elems[g[p].val + 1] = Live THEN ctrl ELSE dead)
    IN  IF Cardinality({i \in DOMAIN elems : elems[i] = Live}) = 1
        THEN Result([s EXCEPT !.g = Kill(left, n)], ctrl, Users(left, dead))
        ELSE Nothing

IntAsConst(n, l) ==
    LET const(x) == Result(MakeInt(State, g[n].bits, x), IdOf(MakeInt(State, g[n].bits, x), IntNode(g[n].bits, x)), {})
    IN  IF l.min = l.max THEN const(l.max)
        ELSE IF l.zeros \cup l.ones = AllBits THEN const(NumberOf(l.ones)) ELSE Nothing

\* try_as_const
TryAsConst(n) ==
    LET node == g[n]
        l == types[n]
    IN  CASE node.op = "iconst" -> Nothing
          [] node.op = "region" -> RegionAsConst(n)
          [] node.op \notin {"region", "root", "iconst", "null"} /\ node.in[1] # 0 /\ IsDeadCtrl(types, node.in[1]) -> DeadAsConst(n)
          [] OTHER -> CASE l.tag = "int" -> IntAsConst(n, l)
                        [] l.tag = "tuple" /\ node.op = "branch" -> BranchAsConst(n, l.elems)
                        [] OTHER -> Nothing

\* mark_users: users, and the users of those a peephole looks through.
MarkUsers(gr, k) ==
    LET through == {u \in Users(gr, k) : gr[u].op \in Compares \cup {"mul", "phi"}}
    IN  Users(gr, k) \cup UNION {Users(gr, u) : u \in through}
\* What lost its last user is pushed by remove_user.
Orphans(before, after) == {n \in DOMAIN before : Users(before, n) # {} /\ Users(after, n) = {}}

\* The first batch without n, then the new one.
NextBatch(n, pushes) ==
    SelectSeq(<<Head(queue) \ {n}>> \o Tail(queue) \o <<pushes \ listed>>, LAMBDA b : b # {})

StartRewriting ==
    /\ phase = "types" /\ Settled
    /\ queue' = <<{Root}>> /\ listed' = {Root}
    /\ phase' = "rewrite"
    /\ UNCHANGED <<g, prog, types, worklist>>

\* One turn of the loop over the worklist; nothing is visited twice.
RewriteNode ==
    /\ phase = "rewrite" /\ queue # <<>>
    /\ \E n \in Head(queue) :
         LET r == TryAsConst(n)
             after == IF r.k = 0 THEN r.g ELSE Subsume(r.g, n, r.k)
             pushes == IF r.k = 0 THEN Users(g, n)
                       ELSE MarkUsers(r.g, r.k) \cup {r.k} \cup r.push \cup Users(after, r.k) \cup Orphans(g, after)
         IN  IF r.k = n
             THEN phase' = "crashed" /\ UNCHANGED <<g, types, queue, listed>>
             ELSE /\ g' = after /\ types' = r.types
                  /\ queue' = NextBatch(n, pushes)
                  /\ listed' = listed \cup pushes
                  /\ UNCHANGED phase
    /\ UNCHANGED <<prog, worklist>>

Finish ==
    /\ phase = "rewrite" /\ queue = <<>>
    /\ phase' = "done"
    /\ UNCHANGED <<g, prog, types, worklist, queue, listed>>

Next == (\E n \in DOMAIN g : CpropNode(n)) \/ StartRewriting \/ RewriteNode \/ Finish
Spec == Init /\ [][Next]_vars

-----------------------------------------------------------------------------
(* Properties                                                               *)

\* The worklist forgets nobody: once the root has its type, each node that is not a phi has
\* the type its inputs give it, waits in the worklist, or is as low as it goes.
UpToDate ==
    phase = "types" /\ types[Root] # Top =>
        \A n \in {n \in DOMAIN g : g[n].op # "phi"} :
          worklist[n] # 0 \/ types[n] = FromDt(g[n].bits) \/ types[n] = ValueOf(g, types, n)
===============================================================================

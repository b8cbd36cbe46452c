----------------------------- MODULE GraphReference ----------------------------
(***************************************************************************)
(* What a graph of ConstProp means: run from the root with the arguments   *)
(* given, control goes from node to node, a phi gets its value on the way  *)
(* into its region, and the other values follow from their inputs.         *)
(***************************************************************************)
EXTENDS ConstProp

CONSTANTS Args,   \* the values the parameters take
          FUEL    \* the control nodes a run visits before it counts as one that does not end

\* The value of what has none: poison, and phis that were not reached.
None == 2^WORD

Wrap(x, bits) == SignExtend(x, bits)
Flag(b) == IF b THEN -1 ELSE 0
Unsigned(x, bits) == x % 2^bits

\* The value of n when the phis have the values of env.
RECURSIVE Eval(_, _, _, _)
Eval(gr, args, env, n) ==
    LET node == gr[n]
        v(i) == Eval(gr, args, env, node.in[i])
        width == gr[node.in[2]].bits
        of(op, a, b) ==
          CASE op = "add" -> Wrap(a + b, node.bits)
            [] op = "sub" -> Wrap(a - b, node.bits)
            [] op = "mul" -> Wrap(a * b, node.bits)
            [] op = "eq"  -> Flag(a = b)
            [] op = "ne"  -> Flag(a # b)
            [] op = "slt" -> Flag(a < b)
            [] op = "sle" -> Flag(a <= b)
            [] op = "ult" -> Flag(Unsigned(a, width) < Unsigned(b, width))
            [] op = "ule" -> Flag(Unsigned(a, width) <= Unsigned(b, width))
    IN  CASE node.op = "iconst" -> node.val
          [] node.op = "proj"   -> Wrap(args[n], node.bits)
          [] node.op = "phi"    -> IF n \in DOMAIN env THEN env[n] ELSE None
          [] node.op = "select" -> LET c == v(2) IN IF c = None THEN None ELSE IF c = 0 THEN v(4) ELSE v(3)
          [] node.op \in Compares \cup {"add", "sub", "mul"} ->
               LET a == v(2) b == v(3) IN IF None \in {a, b} THEN None ELSE of(node.op, a, b)
          [] OTHER -> None

\* Values a node has while the phis are as in env.
Values(gr, args, env) ==
    {x \in {<<n, Eval(gr, args, env, n)>> : n \in {n \in DOMAIN gr : gr[n].bits > 0}} : x[2] # None}

Outcome(how, val, seen, path) == [how |-> how, val |-> val, seen |-> seen, path |-> path]

\* The run that goes on from the control node at.
RECURSIVE Go(_, _, _, _, _, _, _)
Go(gr, args, at, env, fuel, seen, path) ==
    LET next == {u \in Users(gr, at) : gr[u].op \in {"region", "branch", "return"}}
        n == CHOOSE u \in next : TRUE
        slots == {i \in DOMAIN gr[n].in : gr[n].in[i] = at}
        slot == CHOOSE i \in slots : TRUE
        enter == [p \in DOMAIN env \cup PhisOf(gr, n) |->
                    IF p \in PhisOf(gr, n) THEN Eval(gr, args, env, gr[p].in[slot + 1]) ELSE env[p]]
        key == Eval(gr, args, env, gr[n].in[2])
        hits == {p \in ProjsOf(gr, n) : gr[p].val > 0 /\ gr[p].key = key}
        out == IF hits # {} THEN hits ELSE {p \in ProjsOf(gr, n) : gr[p].val = 0}
    IN  CASE fuel = 0 -> Outcome("loops", None, seen, path)
          [] fuel > 0 /\ (Cardinality(next) # 1 \/ Cardinality(slots) # 1) -> Outcome("stuck", None, seen, path)
          [] OTHER ->
               CASE gr[n].op = "return" -> Outcome("returns", Eval(gr, args, env, gr[n].in[2]), seen, path \cup {n})
                 [] gr[n].op = "region" ->
                      IF Cardinality(DOMAIN enter) > 0 /\ None \in {enter[p] : p \in PhisOf(gr, n)}
                      THEN Outcome("stuck", None, seen, path)
                      ELSE Go(gr, args, n, enter, fuel - 1, seen \cup Values(gr, args, enter), path \cup {n})
                 [] OTHER ->
                      IF key = None \/ Cardinality(out) # 1 THEN Outcome("stuck", None, seen, path)
                      ELSE LET p == CHOOSE p \in out : TRUE IN Go(gr, args, p, env, fuel - 1, seen, path \cup {p})

Params(gr) == {n \in DOMAIN gr : gr[n].op = "proj" /\ gr[n].bits > 0}
Start(gr) == CHOOSE n \in DOMAIN gr : gr[n].op = "proj" /\ gr[n].bits = Ctrl
Run(gr, args) == Go(gr, args, Start(gr), <<>>, FUEL, Values(gr, args, <<>>), {Start(gr)})

-----------------------------------------------------------------------------

\* When pass 1 is over, whatever the arguments are: each value a run computes is one its
\* node's type stands for, and all control a run goes through is live.
TypesAreSound ==
    phase = "types" /\ Settled =>
        \A args \in [Params(g) -> Args] :
          LET r == Run(g, args)
          IN  /\ \A x \in r.seen : Has(types[x[1]], x[2], g[x[1]].bits)
              /\ \A n \in r.path : types[n] = Live

\* Pass 2 never replaces a node by itself (the assertion of subsume_node2), and what it
\* leaves returns the same for all arguments, or runs on as the graph did before.
SameResults ==
    /\ phase # "crashed"
    /\ phase = "done" =>
         \A args \in [Params(prog) -> Args] :
           LET before == Run(prog, args)
               after == Run(g, args)
           IN  before.how = after.how /\ before.val = after.val

\* What n is computed from, directly or not; a phi reads the edges of its region too.
RECURSIVE Above(_)
Above(S) ==
    LET T == S \cup UNION {ToSet(g[n].in) \ {0} : n \in S}
    IN  IF T = S THEN S ELSE Above(T)
\* A phi that has used up its steps is given the full range, and at its next visit what its
\* edges give (optimizer.c:496).
UsedUp(p) == g[p].op = "phi" /\ types[p].tag = "int" /\ types[p].widen >= INT_WIDEN_LIMIT

\* Whatever the order of visits, a type only goes down (the forward progress assertion of
\* tb_opt_cprop_node) as long as no phi it is computed from has used up its steps.
ForwardProgress ==
    [][phase = "types" =>
         \A n \in DOMAIN types : \/ Meet(types[n], types'[n]) = types'[n]
                                 \/ \E p \in Above({n}) : UsedUp(p)]_types
===============================================================================

-------------------------- MODULE StatementReference --------------------------
(***************************************************************************)
(* What the statements of C mean, and what a graph of TB does, to compare  *)
(* the two.  Nothing of the statements' side is taken from the code.       *)
(*                                                                         *)
(* A program is a tree of tuples; Tokens gives its tokens and Agrees says   *)
(* that parsed statements are the tree, each break, continue and case      *)
(* bound to the statement around it.  A run of statements or of a graph is *)
(* driven by bits, the values of the conditions it tests; what it did is   *)
(* its trace: each condition, its value and the stores made before it, and *)
(* at the end the value returned and all stores.                           *)
(***************************************************************************)
EXTENDS Integers, Sequences, FiniteSets, SequencesExt, TLC

CONSTANTS Nothing, Stores, Reads

Opt(e) == IF e = Nothing THEN <<>> ELSE <<e>>
Decl(d) == <<d[2]>> \o (IF d[3] = Nothing THEN <<>> ELSE <<"=", d[3]>>)

RECURSIVE Tokens(_)
Tokens(a) ==
    CASE a = <<>>            -> <<";">>
      [] a[1] = "expr"       -> <<a[2], ";">>
      [] a[1] = "decls"      -> <<"int">> \o Decl(a[2][1]) \o FlattenSeq([i \in 1 .. Len(a[2]) - 1 |-> <<",">> \o Decl(a[2][i + 1])])
                                \o <<";">>
      [] a[1] = "block"      -> <<"{">> \o FlattenSeq([i \in DOMAIN a[2] |-> Tokens(a[2][i])]) \o <<"}">>
      [] a[1] = "if"         -> <<"if", "(", a[2], ")">> \o Tokens(a[3])
                                \o (IF a[4] = <<"none">> THEN <<>> ELSE <<"else">> \o Tokens(a[4]))
      [] a[1] \in {"while", "switch"} -> <<a[1], "(", a[2], ")">> \o Tokens(a[3])
      [] a[1] = "do"         -> <<"do">> \o Tokens(a[3]) \o <<"while", "(", a[2], ")", ";">>
      [] a[1] = "for"        -> <<"for", "(">> \o Tokens(a[4]) \o Opt(a[2]) \o <<";">> \o Opt(a[5]) \o <<")">> \o Tokens(a[3])
      [] a[1] = "return"     -> <<"return">> \o Opt(a[2]) \o <<";">>
      [] a[1] = "case"       -> <<"case", a[2], ":">> \o Tokens(a[3])
      [] a[1] = "default"    -> <<"default", ":">> \o Tokens(a[3])
      [] a[1] \in {"break", "continue"} -> <<a[1], ";">>
      [] a[1] = "goto"       -> <<"goto", a[2], ";">>
      [] a[1] = "label"      -> <<a[2], ":">>

-----------------------------------------------------------------------------
\* The statements of a block: an empty statement leaves nothing behind, a declaration as
\* many as it declares.
Real(kids) == FlattenSeq([i \in DOMAIN kids |-> CASE kids[i] = <<>> -> <<>> [] kids[i][1] = "decls" -> kids[i][2]
                                                   [] OTHER -> <<kids[i]>>])

\* The cases under s that belong to it and not to a switch inside, in order.
RECURSIVE CasesOf(_, _)
Within(S, s) == CASE S[s].op = "compound" -> S[s].kids
                  [] S[s].op = "if"       -> <<S[s].body, S[s].next>>
                  [] S[s].op = "switch"   -> <<>>
                  [] OTHER                -> <<S[s].body>>
CasesOf(S, s) ==
    IF s = 0 THEN <<>>
    ELSE (IF S[s].op \in {"case", "default"} THEN <<s>> ELSE <<>>)
         \o FlattenSeq([i \in DOMAIN Within(S, s) |-> CasesOf(S, Within(S, s)[i])])
Linked(S, chain) == \A i \in DOMAIN chain : S[chain[i]].next = IF i = Len(chain) THEN 0 ELSE chain[i + 1]

RECURSIVE Agrees(_, _, _, _, _)
Kid(S, s, a, brk, cont) == IF a = <<>> \/ a = <<"none">> THEN s = 0 ELSE s # 0 /\ Agrees(S, s, a, brk, cont)
Agrees(S, s, a, brk, cont) ==
    LET n == S[s]
    IN  CASE a[1] = "expr"   -> n.op = "expr" /\ n.expr = a[2]
          [] a[1] = "decl"   -> n.op = "decl" /\ n.step = a[2] /\ n.expr = a[3]
          [] a[1] = "block"  -> /\ n.op = "compound" /\ Len(n.kids) = Len(Real(a[2]))
                                /\ \A i \in DOMAIN n.kids : Agrees(S, n.kids[i], Real(a[2])[i], brk, cont)
          [] a[1] = "if"     -> /\ n.op = "if" /\ n.expr = a[2]
                                /\ Kid(S, n.body, a[3], brk, cont) /\ Kid(S, n.next, a[4], brk, cont)
          [] a[1] \in {"while", "do"} -> n.op = a[1] /\ n.expr = a[2] /\ Kid(S, n.body, a[3], s, s)
          [] a[1] = "for"    -> /\ n.op = "for" /\ n.expr = a[2] /\ n.step = a[5] /\ Kid(S, n.body, a[3], s, s)
                                /\ IF a[4] = <<>> THEN n.first = 0 ELSE Agrees(S, n.first, <<"block", <<a[4]>>>>, brk, cont)
          [] a[1] = "switch" -> /\ n.op = "switch" /\ n.expr = a[2] /\ Kid(S, n.body, a[3], s, cont)
                                /\ Linked(S, <<s>> \o CasesOf(S, n.body))
          [] a[1] = "return" -> n.op = "return" /\ n.expr = a[2]
          [] a[1] \in {"case", "default"} -> n.op = a[1] /\ n.expr = a[2] /\ Kid(S, n.body, a[3], brk, cont)
          [] a[1] = "break"    -> n.op = "break" /\ n.target = brk
          [] a[1] = "continue" -> n.op = "continue" /\ n.target = cont
          [] a[1] = "goto"     -> n.op = "goto" /\ S[n.target].op = "label" /\ S[n.target].expr = a[2]
          [] a[1] = "label"    -> n.op = "label" /\ n.expr = a[2] /\ n.placed

\* Every break, continue and case of a has something around it to belong to; within names
\* what a stands in allows.
RECURSIVE Bound(_, _)
Bound(a, within) ==
    IF a = <<>> THEN TRUE
    ELSE CASE a[1] = "block"                    -> \A i \in DOMAIN a[2] : Bound(a[2][i], within)
           [] a[1] = "if"                       -> Bound(a[3], within) /\ Bound(a[4], within)
           [] a[1] \in {"while", "do", "for"}   -> Bound(a[3], within \cup {"break", "continue"})
           [] a[1] = "switch"                   -> Bound(a[3], within \cup {"break", "case", "default"})
           [] a[1] \in {"case", "default"}      -> a[1] \in within /\ Bound(a[3], within)
           [] a[1] \in {"break", "continue"}    -> a[1] \in within
           [] OTHER                             -> TRUE

-----------------------------------------------------------------------------
\* A run of statements.
Begin(bits) == [bits |-> bits, hist |-> <<>>, trace |-> <<>>, seen |-> {}, end |-> FALSE, yes |-> TRUE]
Effect(e, r) == IF e \in Stores THEN [r EXCEPT !.hist = Append(@, e)] ELSE r
End(what, r) == [r EXCEPT !.trace = Append(@, what), !.end = TRUE]
TestCond(c, r) ==
    LET yes == c \notin Reads \/ Head(r.bits)
    IN  IF r.end THEN r
        ELSE IF r.bits = <<>> THEN End(<<"cut">>, r)
        ELSE [r EXCEPT !.bits = Tail(@), !.yes = yes,
                       !.trace = Append(@, <<c, yes, IF c \in Reads THEN r.hist ELSE <<>>>>)]
CondOf(n) == IF n.expr = Nothing THEN "1" ELSE n.expr
\* Where a run comes by: a statement, the test of a do, the step of a for.
See(op, s, r) == IF r.end THEN r ELSE [r EXCEPT !.seen = @ \cup {<<op, s>>}]
StepOf(n, r) == IF r.end THEN r ELSE Effect(n.step, r)

RECURSIVE Exec(_, _, _), ExecAll(_, _, _), ExecLoop(_, _, _)
ExecAll(S, kids, r) == IF kids = <<>> THEN r ELSE ExecAll(S, Tail(kids), Exec(S, Head(kids), r))
LoopOn(S, s, r) == IF r.end \/ ~r.yes THEN r ELSE ExecLoop(S, s, StepOf(S[s], See("step", s, Exec(S, S[s].body, r))))
ExecLoop(S, s, r) == LoopOn(S, s, TestCond(CondOf(S[s]), r))
RECURSIVE ExecDo(_, _, _)
DoOn(S, s, r) == IF r.end \/ ~r.yes THEN r ELSE ExecDo(S, s, r)
ExecDo(S, s, r) == DoOn(S, s, TestCond(S[s].expr, See("test", s, Exec(S, S[s].body, r))))
ExecIf(S, n, r) == IF r.end THEN r ELSE Exec(S, IF r.yes THEN n.body ELSE n.next, r)
ExecOp(S, s, r) ==
    LET n == S[s]
    IN  CASE n.op = "expr"     -> Effect(n.expr, r)
          [] n.op = "decl"     -> IF n.expr = Nothing THEN r ELSE [r EXCEPT !.hist = Append(@, n.step)]
          [] n.op = "compound" -> ExecAll(S, n.kids, r)
          [] n.op = "if"       -> ExecIf(S, n, TestCond(n.expr, r))
          [] n.op = "while"    -> ExecLoop(S, s, r)
          [] n.op = "for"      -> ExecLoop(S, s, See("for", s, Exec(S, n.first, r)))
          [] n.op = "do"       -> ExecDo(S, s, r)
          [] n.op = "return"   -> LET e == Effect(n.expr, r)
                                  IN  End(<<"return", IF n.expr = Nothing THEN "poison" ELSE "1", e.hist>>, e)
Exec(S, s, r) == IF r.end \/ s = 0 THEN r ELSE ExecOp(S, s, See("stmt", s, r))

FallOff(isMain, r) == IF r.end THEN r ELSE End(<<"return", IF isMain THEN "0" ELSE "poison", r.hist>>, r)
RunStmts(S, isMain, bits) == FallOff(isMain, Exec(S, 1, Begin(bits)))

-----------------------------------------------------------------------------
\* A run of a graph, from its start.  val gives a memory its stores and a value its text; a
\* node is evaluated when control passes the node it hangs on, a phi when its region is
\* entered.  Of a branch, projection 1 is taken when the condition is 0 (x64_target.c:1967).
RECURSIVE Walk(_, _)
Pinned(N, c) == SelectSeq([i \in DOMAIN N |-> i], LAMBDA i : N[i].op \in {"load", "store"} /\ N[i].in[1] = c)
Evaluate(N, val, i) ==
    [val EXCEPT ![i] = IF N[i].op = "store" THEN Append(val[N[i].in[2]], N[i].data) ELSE val[N[i].in[2]]]
Passed(N, w) == [w EXCEPT !.val = FoldLeft(LAMBDA v, i : Evaluate(N, v, i), @, Pinned(N, w.at))]

Nexts(N, c) == {i \in DOMAIN N : \/ N[i].op = "branch" /\ N[i].in[1] = c
                                 \/ N[i].op \in {"region", "loop"} /\ c \in ToSet(N[i].in)}
PhiIn(N, val, phi, j) == IF Len(N[phi].in) > j THEN val[N[phi].in[j + 1]] ELSE <<"missing">>
EnterRegion(N, w, r) ==
    LET j == CHOOSE k \in DOMAIN N[r].in : N[r].in[k] = w.at
        phis == {i \in DOMAIN N : N[i].op = "phi" /\ N[i].in[1] = r}
    IN  [w EXCEPT !.at = r, !.val = [i \in DOMAIN @ |-> IF i \in phis THEN PhiIn(N, w.val, i, j) ELSE w.val[i]]]
TakeBranch(N, w, b) ==
    LET c == N[b].in[2]
        t == TestCond(N[c].data, [w EXCEPT !.hist = w.val[c]])
        side == {i \in DOMAIN N : N[i].op = "cproj" /\ N[i].in[1] = b /\ N[i].data = IF t.yes THEN 0 ELSE 1}
    IN  IF t.end THEN t ELSE [t EXCEPT !.at = CHOOSE i \in side : TRUE]
Returned(w, mem, value) == End(<<"return", w.val[value][1], w.val[mem]>>, w)

Move(N, w, nexts) ==
    IF Cardinality(nexts) # 1 THEN End(<<"stuck">>, w)
    ELSE LET n == CHOOSE i \in nexts : TRUE
         IN  IF N[n].op = "branch" THEN TakeBranch(N, w, n) ELSE EnterRegion(N, w, n)
Arrive(N, w) == IF w.end THEN w ELSE IF w.at = 4 THEN Returned(w, 5, 6) ELSE Walk(N, w)
Walk(N, w) == LET p == Passed(N, w) IN Arrive(N, Move(N, p, Nexts(N, p.at)))

Values(N) == [i \in DOMAIN N |-> CASE N[i].op = "mem" -> <<>> [] N[i].op = "const" -> <<N[i].data>>
                                   [] OTHER -> <<N[i].op>>]
RunGraph(N, bits) == Walk(N, [at |-> 1, val |-> Values(N)] @@ Begin(bits))
===============================================================================

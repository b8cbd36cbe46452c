------------------------------- MODULE MCIRGen --------------------------------
(***************************************************************************)
(* Functions for IRGen, and what should come out of them.                  *)
(***************************************************************************)
EXTENDS IRGen

CONSTANTS Bits, IfConds

R == INSTANCE StatementReference WITH Nothing <- None, Stores <- Effects, Reads <- Lvalues

Statuses == {"parse", "error", "gen", "done", "crash", "assert", "abort", "todo"}
NodeOps == {"start", "mem", "rpc", "region", "loop", "phi", "syms", "branch", "cproj", "load", "store",
            "const", "poison", "null"}

\* The builder's nodes only name nodes there are, and what is built on is an open table.
TypeOK ==
    /\ status \in Statuses
    /\ \A n \in DOMAIN g.nodes : /\ g.nodes[n].op \in NodeOps
                                 /\ ToSet(g.nodes[n].in) \subseteq 0 .. Len(g.nodes)
    /\ status # "done" => g.curr = 0 \/ g.nodes[g.curr].op = "syms"
    /\ \A i \in DOMAIN todo : todo[i].s \in DOMAIN stmts

\* The parser builds what was written, binds each break and continue to the statement around
\* it and chains the cases of each switch in order, those in its loops too; it aborts on a
\* program that has a break, continue or case with nothing around it, and on no other
\* (the three thread-local targets of stmt_parser.h, saved and restored around bodies).
ParsedAsWritten ==
    status # "parse" => IF R!Bound(program.ast, {})
                        THEN status \notin {"error", "abort"} /\ R!Agrees(stmts, 1, program.ast, 0, 0)
                        ELSE status = "abort"

\* At every point of the walk each phi has an input for every input of its region
\* (tb_builder_br adds to the phis first and to the region last).
PhisMatchRegions ==
    \A n \in DOMAIN g.nodes :
        g.nodes[n].op = "phi" => Len(g.nodes[n].in) = 1 + Len(g.nodes[g.nodes[n].in[1]].in)

AllBits == [1 .. Bits -> BOOLEAN]
RunsOfProgram == {R!RunStmts(stmts, program.main, b) : b \in AllBits}

\* What the graph does is what the program does, whatever the conditions are.
MatchesProgram ==
    status = "done" =>
        \A b \in AllBits : R!RunGraph(g.nodes, b).trace = R!RunStmts(stmts, program.main, b).trace

\* The graph can do what the program can do and nothing else, when it does not matter
\* which value of an if's condition leads where.
Blind(trace) == [i \in DOMAIN trace |-> IF trace[i][1] \in IfConds THEN <<trace[i][1], trace[i][3]>> ELSE trace[i]]
SamePaths ==
    status = "done" =>
        {Blind(R!RunGraph(g.nodes, b).trace) : b \in AllBits}
        = {Blind(r.trace) : r \in RunsOfProgram}

\* The NULL g->curr is read only for statements no run of the program comes to.
CrashesAreUnreachable ==
    status = "crash" => \A r \in RunsOfProgram : <<Now.op, Now.s>> \notin r.seen

-----------------------------------------------------------------------------
Program(ast) == [ast |-> ast, toks |-> R!Tokens(ast), main |-> FALSE]
Main(ast) == [Program(ast) EXCEPT !.main = TRUE]
Block(kids) == <<"block", kids>>
E(e) == <<"expr", e>>
D(v, e) == <<"decls", <<<<"decl", v, e>>>>>>
IfElseS(c, s1, s2) == <<"if", c, s1, s2>>
None0 == <<"none">>
While(c, s) == <<"while", c, s>>
DoS(c, s) == <<"do", c, s>>
ForS(first, c, step, s) == <<"for", c, s, first, step>>
Switch(c, s) == <<"switch", c, s>>
Case(k, s) == <<"case", k, s>>
Default(s) == <<"default", None, s>>
Break == <<"break">>
Continue == <<"continue">>
GotoS(l) == <<"goto", l>>
Label(l) == <<"label", l>>
RetS(e) == <<"return", e>>

\* One statement of each kind, and what may come before and after it.
Forks == {IfElseS("a", s1, s2) : s1 \in {E("x"), RetS("1"), <<>>, Block(<<E("x"), E("y")>>)},
                                 s2 \in {E("y"), None0, RetS(None)}}
\* In the body of a loop every way through a fork stores.
Stored == {IfElseS("a", s1, E("y")) : s1 \in {E("x"), Block(<<E("y"), D("v", "1")>>),
                                               IfElseS("a", E("x"), E("y"))}}
Inner == {E("x"), <<>>, RetS("1"), E("1"), Block(<<>>), Block(<<E("x"), E("b"), E("y")>>)} \cup Stored
Loops(bodies) == {While("b", s) : s \in bodies} \cup {ForS(E("y"), "b", "z", s) : s \in bodies}
                 \cup {ForS(<<"decls", <<<<"decl", "i", "1">>, <<"decl", "j", "a">>>>>>, None, None, s) : s \in bodies}
Dos == {DoS("b", s) : s \in Stored \cup {RetS("1"), E("1")}}
Plain == {E("x"), <<>>, D("v", "a"), D("v", None)}
Compound == Forks \cup Loops(Inner) \cup Dos \cup Loops({While("b", E("x")), ForS(<<>>, "b", "y", E("1"))})
Ends == {<<>>, E("y"), RetS("1"), RetS("a")}
Compiled == {Block(<<s1, s2, s3>>) : s1 \in Plain, s2 \in Compound, s3 \in Ends}
            \cup {Block(<<s1, s2>>) : s1, s2 \in Forks \cup Loops({E("x")})}

\* Jumps bound through nested loops and switches, and labels used before and after they
\* are placed; the back end stops at the first.  Where nothing is around it, an arm that
\* jumps or is a case makes the parser abort.
Arms == {Break, Continue, Case("2", Break), Switch("b", Block(<<Case("3", Break), Default(Continue)>>)),
         While("b", Block(<<Break, Case("5", Continue)>>)), DoS("b", IfElseS("a", Break, Continue))}
Switches == {While("b", Block(<<Switch("a", Block(<<Case("1", s1), s2, Default(s1), Case("4", <<>>), Break>>)), s3>>)) :
               s1, s2 \in Arms \cup {E("x")}, s3 \in {E("x"), Continue, Case("2", Break)}}
Labels == {Block(<<GotoS("l"), IfElseS("a", GotoS("m"), GotoS("l")), Label("l"), E("x"), GotoS("l"), Label("m"), E("y")>>),
           Block(<<Label("m"), While("b", Block(<<Label("l"), GotoS("m")>>)), GotoS("l")>>)}
Parsed == Arms \cup {ForS(D("i", "1"), "b", "z", s) : s \in Arms} \cup Switches \cup Labels

MCPrograms == {Program(s) : s \in Compiled} \cup {Main(s) : s \in Compiled} \cup {Program(Block(<<s>>)) : s \in Parsed}
\* while (b) { if (a) ; x; }
OpenLoop == {Program(Block(<<While("b", Block(<<IfElseS("a", <<>>, None0), E("x")>>))>>))}
\* do x; while (b);
DoStore == {Program(Block(<<DoS("b", E("x"))>>))}
\* if (a) x;
OneIf == {Program(Block(<<IfElseS("a", E("x"), None0)>>))}
===============================================================================

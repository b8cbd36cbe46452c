-------------------------------- MODULE IRGen ---------------------------------
(***************************************************************************)
(* From the tokens of a function to its graph: parse_function, then        *)
(* cuikcg_top_level with cg_stmt of ir_gen2.c, which walks the statements  *)
(* and draws their control flow with the graph builder.                    *)
(*                                                                         *)
(* The C stack of the walk is todo: the statements and the calls of the    *)
(* builder that are still to come, each with the statement it is made for. *)
(* An expression is an assignment (Effects), a variable (Lvalues) or a     *)
(* constant.  A read through the NULL that g->curr is after a jump ends    *)
(* the run in "crash", an assertion of the walk in "assert", one of the    *)
(* parser in "abort", a TODO() in "todo".                                  *)
(***************************************************************************)
EXTENDS StmtParser, GraphBuilder

CONSTANTS Programs, Effects, Lvalues

VARIABLES program, stmts, g, todo, status
vars == <<program, stmts, g, todo, status>>

Init ==
    /\ program \in Programs
    /\ stmts = <<>>
    /\ g = Enter
    /\ todo = <<>>
    /\ status = "parse"

Task(op, s, arg) == [op |-> op, s |-> s, arg |-> arg]
CgStmt(s) == IF s = 0 THEN <<>> ELSE <<Task("stmt", s, 0)>>

\* parse_function and the start of cuikcg_top_level.
Parse ==
    /\ status = "parse"
    /\ LET p == ParseFunction(program.toks)
       IN  /\ stmts' = IF p.aborted THEN <<>> ELSE p.stmts
           /\ status' = IF p.aborted THEN "abort" ELSE IF p.ok THEN "gen" ELSE "error"
           /\ todo' = IF status' = "gen" THEN CgStmt(1) ELSE <<>>
    /\ UNCHANGED <<program, g>>

-----------------------------------------------------------------------------
\* cg_expr leaves the value, or the address of a variable (0), in out.
CgExpr(h, e) ==
    CASE e \in Effects -> LET c == Const(h, "1") IN [Store(c, e) EXCEPT !.out = c.out]
      [] e \in Lvalues -> [h EXCEPT !.out = 0]
      [] OTHER         -> Const(h, e)
CgRval(h, e) == IF e \in Lvalues THEN Load(h, e) ELSE CgExpr(h, e)

Now == Head(todo)
Here(op) == status = "gen" /\ todo # <<>> /\ Now.op = op
Stmt == stmts[Now.s]
At(op) == Here("stmt") /\ Stmt.op = op
\* The rest of the walk after the tasks of this step.
Then(tasks) == todo' = tasks \o Tail(todo)
Stay == UNCHANGED <<program, stmts>>
Stop(why) == status' = why /\ UNCHANGED <<program, stmts, g, todo>>

\* STMT_DECL: the local is made in the entry block, its initial value stored here.
CgDecl ==
    /\ At("decl")
    /\ Stmt.expr = None \/ g.curr # 0
    /\ g' = IF Stmt.expr = None THEN g ELSE Store(CgRval(g, Stmt.expr), Stmt.step)
    /\ Then(<<>>) /\ Stay /\ UNCHANGED status

CgExprStmt ==
    /\ At("expr")
    /\ Stmt.expr \in Effects => g.curr # 0
    /\ g' = CgExpr(g, Stmt.expr)
    /\ Then(<<>>) /\ Stay /\ UNCHANGED status

CgCompound ==
    /\ At("compound")
    /\ Then([i \in DOMAIN Stmt.kids |-> Task("stmt", Stmt.kids[i], 0)])
    /\ Stay /\ UNCHANGED <<g, status>>

\* STMT_IF: paths[1] is taken for the body and paths[0] for the else.
IfTasks(s, merge, paths) ==
    <<Task("set", s, paths[2])>> \o CgStmt(stmts[s].body) \o <<Task("br", s, merge), Task("kill", s, paths[2])>>
    \o <<Task("set", s, paths[1])>> \o CgStmt(stmts[s].next) \o <<Task("br", s, merge), Task("kill", s, paths[1])>>
    \o <<Task("set", s, merge), Task("drop", s, merge)>>
CgIf ==
    /\ At("if") /\ g.curr # 0
    /\ LET c == CgRval(g, Stmt.expr)
           m == LabelMake(c)
           i == If(m, c.out)
       IN  g' = i.g /\ Then(IfTasks(Now.s, m.out, i.paths))
    /\ Stay /\ UNCHANGED status

\* The loops: paths[1] leaves, paths[0] goes round.
Leave(s, exit, paths) == <<Task("set", s, paths[2]), Task("br", s, exit), Task("kill", s, paths[2])>>
GoRound(s, body, header, paths) ==
    <<Task("set", s, paths[1])>> \o body \o <<Task("br", s, header), Task("kill", s, paths[1])>>
Close(s, header, exit) == <<Task("complete", s, header), Task("kill", s, header), Task("set", s, exit)>>

LoopTasks(s, body, header, exit, paths) ==
    Leave(s, exit, paths) \o GoRound(s, body, header, paths) \o Close(s, header, exit)

TestedLoop(s, cond, body) ==
    LET e == LabelMake(g)
        l == Loop(e)
        c == CgRval(l, cond)
        i == If(c, c.out)
    IN  g' = i.g /\ Then(LoopTasks(s, body, l.out, e.out, i.paths))

CgWhile ==
    /\ At("while") /\ g.curr # 0
    /\ TestedLoop(Now.s, Stmt.expr, CgStmt(Stmt.body))
    /\ Stay /\ UNCHANGED status

CgDoWhile ==
    /\ At("do") /\ g.curr # 0
    /\ LET e == LabelMake(g)
           l == Loop(e)
       IN  g' = l /\ Then(CgStmt(Stmt.body) \o <<Task("test", Now.s, <<l.out, e.out>>)>>)
    /\ Stay /\ UNCHANGED status
CgDoTest ==
    /\ Here("test") /\ g.curr # 0
    /\ LET c == CgRval(g, Stmt.expr)
           i == If(c, c.out)
       IN  g' = i.g /\ Then(LoopTasks(Now.s, <<>>, Now.arg[1], Now.arg[2], i.paths))
    /\ Stay /\ UNCHANGED status

\* STMT_FOR: without a condition the constant 1 is tested; the step follows the body.
CgFor ==
    /\ At("for")
    /\ Then(CgStmt(Stmt.first) \o <<Task("for", Now.s, 0)>>)
    /\ Stay /\ UNCHANGED <<g, status>>
CgForLoop ==
    /\ Here("for") /\ g.curr # 0
    /\ TestedLoop(Now.s, IF Stmt.expr = None THEN "1" ELSE Stmt.expr,
                  CgStmt(Stmt.body) \o (IF Stmt.step = None THEN <<>> ELSE <<Task("step", Now.s, 0)>>))
    /\ Stay /\ UNCHANGED status
CgStep ==
    /\ Here("step")
    /\ Stmt.step \in Effects => g.curr # 0
    /\ g' = CgExpr(g, Stmt.step)
    /\ Then(<<>>) /\ Stay /\ UNCHANGED status

\* STMT_RETURN hands on v.n, which is an address when the expression is a variable.
CgReturn ==
    /\ At("return") /\ g.curr # 0 /\ Stmt.expr \notin Lvalues
    /\ g' = IF Stmt.expr = None THEN Ret(g, 0) ELSE LET v == CgExpr(g, Stmt.expr) IN Ret(v, v.out)
    /\ Then(<<>>) /\ Stay /\ UNCHANGED status
ReturnsAddress == At("return") /\ g.curr # 0 /\ Stmt.expr \in Lvalues /\ Stop("assert")

\* The statements cg_stmt has no code for.
CgTodo == /\ Here("stmt")
          /\ Stmt.op \in {"switch", "case", "default", "break", "continue", "goto", "label"}
          /\ Stop("todo")

\* What reads g->curr while it is NULL.
NeedsCurr ==
    CASE Now.op = "stmt" -> \/ Stmt.op \in {"if", "while", "do", "return"}
                            \/ Stmt.op = "decl" /\ Stmt.expr # None
                            \/ Stmt.op = "expr" /\ Stmt.expr \in Effects
      [] Now.op = "step" -> Stmt.step \in Effects
      [] OTHER           -> Now.op \in {"test", "for"}
Crash == status = "gen" /\ todo # <<>> /\ g.curr = 0 /\ NeedsCurr /\ Stop("crash")

-----------------------------------------------------------------------------
\* The calls of the builder that follow a statement's parts.
DoSet == Here("set") /\ g' = LabelSet(g, Now.arg) /\ Then(<<>>) /\ Stay /\ UNCHANGED status
DoBr == Here("br") /\ g' = Br(g, Now.arg) /\ Then(<<>>) /\ Stay /\ UNCHANGED status
DoComplete == Here("complete") /\ g' = LabelComplete(g, Now.arg) /\ Then(<<>>) /\ Stay /\ UNCHANGED status
DoKill == Here("kill") /\ Now.arg # g.curr /\ g' = LabelKill(g, Now.arg) /\ Then(<<>>) /\ Stay /\ UNCHANGED status
\* A merge no path of the if comes back to is freed.
DoDrop ==
    /\ Here("drop")
    /\ g' = IF PredCount(g, Now.arg) = 0 THEN LabelKill(g, Now.arg) ELSE g
    /\ Then(<<>>) /\ Stay /\ UNCHANGED status
Calls == DoSet \/ DoBr \/ DoComplete \/ DoKill \/ DoDrop

\* The end of cuikcg_top_level: main returns 0, other functions return without a value.
Finish ==
    /\ status = "gen" /\ todo = <<>>
    /\ LET zero == Const(g, "0")
       IN  g' = Exit(IF g.curr = 0 THEN g ELSE IF program.main THEN Ret(zero, zero.out) ELSE Ret(g, 0))
    /\ status' = "done"
    /\ UNCHANGED <<program, stmts, todo>>

CgStatement == \/ CgDecl \/ CgExprStmt \/ CgCompound \/ CgIf \/ CgWhile \/ CgDoWhile \/ CgDoTest
               \/ CgFor \/ CgForLoop \/ CgStep \/ CgReturn
Next == Parse \/ CgStatement \/ ReturnsAddress \/ CgTodo \/ Crash \/ Calls \/ Finish
Spec == Init /\ [][Next]_vars
===============================================================================

------------------------------ MODULE StmtParser ------------------------------
(***************************************************************************)
(* The statement parser of stmt_parser.h: a recursive descent over the     *)
(* tokens of a function that builds the statements the back end walks.     *)
(*                                                                         *)
(* A token is its text; an expression is one token.  The parser p holds    *)
(* the position in the tokens, the statements allocated so far (a          *)
(* statement is known by its index, 0 is NULL), the three thread-local     *)
(* variables current_breakable, current_continuable and                    *)
(* current_switch_or_case, the map of labels, whether an error was         *)
(* reported (ok is FALSE), whether an assertion failed, and in out and     *)
(* list what the last function returned.                                   *)
(***************************************************************************)
EXTENDS Integers, Sequences, TLC

CONSTANT None

Parser == [pos |-> 1, stmts |-> <<>>, brk |-> 0, cont |-> 0, sw |-> 0, labels |-> <<>>,
           ok |-> TRUE, aborted |-> FALSE, out |-> 0, list |-> <<>>, expr |-> None]

Peek(t, p) == IF p.pos <= Len(t) THEN t[p.pos] ELSE "eof"
Next2(t, p) == Peek(t, [p EXCEPT !.pos = @ + 1])
Skip(p) == [p EXCEPT !.pos = @ + 1]
ExpectChar(t, c, p) == IF Peek(t, p) = c THEN Skip(p) ELSE [p EXCEPT !.ok = FALSE]

\* alloc_stmt: a zeroed statement.
AllocStmt(op, p) ==
    [p EXCEPT !.out = Len(p.stmts) + 1,
              !.stmts = Append(@, [op |-> op, expr |-> None, step |-> None, body |-> 0, next |-> 0,
                                   first |-> 0, target |-> 0, kids |-> <<>>, placed |-> FALSE])]
Set(n, fields, p) == [p EXCEPT !.stmts[n] = fields @@ @, !.out = n]

ParseExpr(t, p) == [Skip(p) EXCEPT !.expr = Peek(t, p)]
NoExpr(p) == [p EXCEPT !.expr = None]
\* An expression in parentheses.
Condition(t, p) == ExpectChar(t, ")", ParseExpr(t, ExpectChar(t, "(", p)))

\* An expression statement.  In a block, a lone name that no ; follows is reported as an
\* unknown type and the tokens up to the next ; are skipped.
RECURSIVE SkipToSemicolon(_, _)
SkipToSemicolon(t, p) == IF Peek(t, p) \in {";", "eof"} THEN p ELSE SkipToSemicolon(t, Skip(p))
ExprDone(t, n, inBlock, p) ==
    IF inBlock /\ Peek(t, p) # ";" THEN SkipToSemicolon(t, [Set(n, [expr |-> p.expr], p) EXCEPT !.ok = FALSE])
    ELSE ExpectChar(t, ";", Set(n, [expr |-> p.expr], p))
ExprStmt(t, inBlock, p) == ExprDone(t, p.out, inBlock, ParseExpr(t, p))

\* The declarators after a type: each becomes a statement of its own.
Listed(p) == [p EXCEPT !.list = Append(@, p.out)]
RECURSIVE Declarators(_, _)
DeclDone(t, n, p) ==
    IF Peek(t, p) = "," THEN Declarators(t, Skip(Set(n, [expr |-> p.expr], p)))
    ELSE ExpectChar(t, ";", Set(n, [expr |-> p.expr], p))
DeclInit(t, p) == DeclDone(t, p.out, IF Peek(t, p) = "=" THEN ParseExpr(t, Skip(p)) ELSE NoExpr(p))
DeclName(t, name, p) == DeclInit(t, Skip(Listed(Set(p.out, [step |-> name], p))))
Declarators(t, p) ==
    IF Peek(t, p) \in {";", "eof"} THEN ExpectChar(t, ";", p)
    ELSE DeclName(t, Peek(t, p), AllocStmt("decl", p))

DeclOrExpr(t, p) ==
    CASE Peek(t, p) = ";"   -> [Skip(p) EXCEPT !.list = <<>>]
      [] Peek(t, p) = "int" -> Declarators(t, [Skip(p) EXCEPT !.list = <<>>])
      [] OTHER              -> Listed([ExprStmt(t, TRUE, AllocStmt("expr", p)) EXCEPT !.list = <<>>])

-----------------------------------------------------------------------------
RECURSIVE ParseStmt(_, _), StmtOrExpr(_, _), Kids(_, _, _, _)

\* The body of another statement: nothing, a statement or an expression.
OrExpr(t, p) == IF p.out # 0 THEN p ELSE ExprStmt(t, FALSE, AllocStmt("expr", p))
StmtOrExpr(t, p) == IF Peek(t, p) = ";" THEN [Skip(p) EXCEPT !.out = 0] ELSE OrExpr(t, ParseStmt(t, p))

\* parse_compound_stmt2: n is the compound statement, kids what it has so far.
Kid(t, n, kids, p) ==
    IF p.out # 0 THEN Kids(t, n, Append(kids, p.out), p)
    ELSE LET q == DeclOrExpr(t, p) IN Kids(t, n, kids \o q.list, q)
Kids(t, n, kids, p) ==
    CASE Peek(t, p) \in {"}", "eof"} -> ExpectChar(t, "}", Set(n, [kids |-> kids], p))
      [] Peek(t, p) = ";"            -> Kids(t, n, kids, Skip(p))
      [] OTHER                       -> Kid(t, n, kids, ParseStmt(t, p))

ParseReturn(t, n, p) ==
    LET q == IF Peek(t, p) = ";" THEN NoExpr(p) ELSE ParseExpr(t, p)
    IN  ExpectChar(t, ";", Set(n, [expr |-> q.expr], q))

IfElse(t, n, cond, body, p) == Set(n, [expr |-> cond, body |-> body, next |-> p.out], p)
IfBody(t, n, cond, p) ==
    IF Peek(t, p) = "else" THEN IfElse(t, n, cond, p.out, StmtOrExpr(t, Skip(p)))
    ELSE IfElse(t, n, cond, p.out, [p EXCEPT !.out = 0])
ParseIf(t, n, p) == LET q == Condition(t, p) IN IfBody(t, n, q.expr, StmtOrExpr(t, q))

\* A body inside which break and continue mean n; the old targets come back after it.  The
\* end of the chain of cases does not: a case in a loop in a switch stays the last one.
\* Mutant: a loop leaves itself as the target of a later break or continue.
MutLoopBody(t, n, p) == StmtOrExpr(t, [p EXCEPT !.brk = n, !.cont = n])

LoopBody(t, n, p) == [StmtOrExpr(t, [p EXCEPT !.brk = n, !.cont = n]) EXCEPT !.brk = p.brk, !.cont = p.cont]
\* A switch begins a chain of its own and is what a break leaves.
SwitchBody(t, n, p) == [StmtOrExpr(t, [p EXCEPT !.brk = n, !.sw = n]) EXCEPT !.brk = p.brk, !.sw = p.sw]

SetBody(n, fields, p) == Set(n, [body |-> p.out] @@ fields, p)
ParseWhile(t, n, p) == LET q == Condition(t, p) IN SetBody(n, [expr |-> q.expr], LoopBody(t, n, q))
ParseSwitch(t, n, p) == LET q == Condition(t, p) IN SetBody(n, [expr |-> q.expr], SwitchBody(t, n, q))

DoCond(t, n, body, p) == ExpectChar(t, ";", Set(n, [expr |-> p.expr, body |-> body], p))
ParseDo(t, n, p) ==
    LET q == LoopBody(t, n, p)
    IN  DoCond(t, n, q.out, Condition(t, [Skip(q) EXCEPT !.ok = @ /\ Peek(t, q) = "while"]))

ForBody(t, n, first, cond, p) ==
    LET q == IF Peek(t, p) = ")" THEN Skip(NoExpr(p)) ELSE ExpectChar(t, ")", ParseExpr(t, p))
    IN  SetBody(n, [first |-> first, expr |-> cond, step |-> q.expr], LoopBody(t, n, q))
ForCond(t, n, first, p) ==
    LET q == IF Peek(t, p) = ";" THEN Skip(NoExpr(p)) ELSE ExpectChar(t, ";", ParseExpr(t, p))
    IN  ForBody(t, n, first, q.expr, q)
ForFirst(t, n, first, p) == ForCond(t, n, first, Set(first, [kids |-> p.list], p))
ForParts(t, n, p) ==
    IF Peek(t, p) = ";" THEN ForCond(t, n, 0, Skip(p))
    ELSE LET q == AllocStmt("compound", p) IN ForFirst(t, n, q.out, DeclOrExpr(t, q))
ParseFor(t, n, p) == ForParts(t, n, ExpectChar(t, "(", p))

\* A case hangs itself at the end of the chain, which begins at the switch.
Chain(n, p) == [p EXCEPT !.stmts[p.sw].next = n, !.sw = n]
ParseCase(t, n, p) ==
    LET q == ExpectChar(t, ":", ParseExpr(t, p))
    IN  SetBody(n, [expr |-> q.expr], StmtOrExpr(t, Chain(n, q)))
ParseDefault(t, n, p) == SetBody(n, [expr |-> None], StmtOrExpr(t, ExpectChar(t, ":", Chain(n, p))))
Jump(t, n, target, p) == ExpectChar(t, ";", Set(n, [target |-> target], p))
\* case, default, break and continue assert that there is something around them before any
\* more of them is read; after a failed assertion nothing is.
Stray(k, p) == \/ k \in {"case", "default"} /\ p.sw = 0
               \/ k = "break" /\ p.brk = 0
               \/ k = "continue" /\ p.cont = 0
Abort(t, p) == [p EXCEPT !.aborted = TRUE, !.pos = Len(t) + 1]

\* A label is made where its name is first seen, at a goto or where it is placed.
LabelOf(name, p) ==
    IF name \in DOMAIN p.labels THEN [p EXCEPT !.out = p.labels[name]]
    ELSE LET q == AllocStmt("label", p)
         IN  [Set(q.out, [expr |-> name], q) EXCEPT !.labels = (name :> q.out) @@ @]
Goto(t, n, p) == ExpectChar(t, ";", Set(n, [target |-> p.out], p))
ParseGoto(t, n, p) == Goto(t, n, LabelOf(Peek(t, p), Skip(p)))
ParseLabel(t, p) == LET q == LabelOf(Peek(t, p), p) IN Set(q.out, [placed |-> TRUE], Skip(Skip(q)))

Keyword == {"{", "return", "if", "switch", "case", "default", "break", "continue", "while", "for", "do", "goto"}
StmtOp == [k \in Keyword |-> IF k = "{" THEN "compound" ELSE k]
OfKind(t, k, n, p) ==
    CASE k = "{"        -> Kids(t, n, <<>>, p)
      [] k = "return"   -> ParseReturn(t, n, p)
      [] k = "if"       -> ParseIf(t, n, p)
      [] k = "switch"   -> ParseSwitch(t, n, p)
      [] k = "case"     -> ParseCase(t, n, p)
      [] k = "default"  -> ParseDefault(t, n, p)
      [] k = "break"    -> Jump(t, n, p.brk, p)
      [] k = "continue" -> Jump(t, n, p.cont, p)
      [] k = "while"    -> ParseWhile(t, n, p)
      [] k = "for"      -> ParseFor(t, n, p)
      [] k = "do"       -> ParseDo(t, n, p)
      [] k = "goto"     -> ParseGoto(t, n, p)
Started(t, k, n, p) == IF Stray(k, p) THEN Abort(t, p) ELSE OfKind(t, k, n, p)
\* parse_stmt2 returns NULL (out = 0) for what is not a statement of its own.
ParseStmt(t, p) ==
    CASE Peek(t, p) \in Keyword -> Started(t, Peek(t, p), Len(p.stmts) + 1, Skip(AllocStmt(StmtOp[Peek(t, p)], p)))
      [] Next2(t, p) = ":"      -> ParseLabel(t, p)
      [] OTHER                  -> [p EXCEPT !.out = 0]

\* parse_function: the body, whose { has been seen.
ParseFunction(t) == LET p == Skip(AllocStmt("compound", Parser)) IN Kids(t, 1, <<>>, p)
===============================================================================

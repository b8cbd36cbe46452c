--------------------------------- MODULE Cpp ----------------------------------
(***************************************************************************)
(* The preprocessor: cuikpp_run (libCuik/lib/preproc/cpp.c) and the        *)
(* directives (cpp_directive.h), over a stack of files being read.         *)
(*                                                                         *)
(* A file is a sequence of lines, as the lexer sees them: a directive or   *)
(* text.  One step is one line, or the end of a file.  #error, #warning,   *)
(* #embed, #version and pragmas other than `once` pass their line on and   *)
(* are left out.                                                           *)
(***************************************************************************)
EXTENDS Macros, FiniteSets

CONSTANTS
    Programs,        \* the programs to consider, each a function from files to lines
    MaxScopeDepth    \* CPP_MAX_SCOPE_DEPTH

ASSUME CppAssumption ==
    /\ MaxScopeDepth \in Nat \ {0}
    /\ \A p \in Programs : "main" \in DOMAIN p

VARIABLES
    files,      \* the program
    stack,      \* ctx->stack: [file, pos, guard] of the files being read
    once,       \* ctx->include_once
    table,      \* ctx->macros
    scopes,     \* ctx->scope_eval[0 .. depth-1].value
    out,        \* the texts of ctx->tokens.list
    status      \* "run", or how cuikpp_run ended

vars == <<files, stack, once, table, scopes, out, status>>

\* What the code does to find that a whole file is inside #ifndef/#endif.
NoGuard == [state |-> "ifndef", name |-> None, depth |-> 0]
Slot(f) == [file |-> f, pos |-> 1, guard |-> NoGuard]

Top == Last(stack)
Lines == files[Top.file]
Line == Lines[Top.pos]

\* The line to read, if it is this directive.
At(op) == status = "run" /\ Top.pos <= Len(Lines) /\ Line.op = op

\* Anything that comes after the guard's #endif shows it was no guard.
Guard == IF Top.guard.state = "nothing" THEN [Top.guard EXCEPT !.state = "invalid"] ELSE Top.guard

GoTo(pos, guard) ==
    stack' = [stack EXCEPT ![Len(stack)] = [@ EXCEPT !.pos = pos, !.guard = guard]]

\* A mutation: only #if counts as nested, not #ifdef or #ifndef.
MutSkip(pos) ==
    LET ifs(k) == Cardinality({m \in pos .. k-1 : Lines[m].op = "if"})
        ends(k) == Cardinality({m \in pos .. k-1 : Lines[m].op = "endif"})
        stops == {k \in pos .. Len(Lines) : Lines[k].op \in {"elif", "else", "endif"} /\ ifs(k) = ends(k)}
    IN  IF stops = {} THEN 0 ELSE CHOOSE k \in stops : \A m \in stops : k <= m

\* skip_directive_body: the first #elif, #else or #endif of the group that pos is in,
\* or 0 at the end of the file.
Skip(pos) ==
    LET ifs(k) == Cardinality({m \in pos .. k-1 : Lines[m].op \in {"if", "ifdef", "ifndef"}})
        ends(k) == Cardinality({m \in pos .. k-1 : Lines[m].op = "endif"})
        stops == {k \in pos .. Len(Lines) : Lines[k].op \in {"elif", "else", "endif"} /\ ifs(k) = ends(k)}
    IN  IF stops = {} THEN 0 ELSE CHOOSE k \in stops : \A m \in stops : k <= m

\* Into the group after this line, or over it; an assertion fails at the end of the file.
Enter(on, guard) ==
    IF on THEN GoTo(Top.pos + 1, guard) /\ UNCHANGED status
    ELSE IF Skip(Top.pos + 1) # 0 THEN GoTo(Skip(Top.pos + 1), guard) /\ UNCHANGED status
    ELSE status' = "assert" /\ UNCHANGED stack

\* push_scope and the group after an #if; what opens too deep is an error.
PushScope(on, guard) ==
    IF Len(scopes) >= MaxScopeDepth - 1
    THEN status' = "error" /\ UNCHANGED <<stack, scopes>>
    ELSE scopes' = Append(scopes, on) /\ Enter(on, guard)

-----------------------------------------------------------------------------
Init ==
    /\ files \in Programs
    /\ stack = <<Slot("main")>>
    /\ once = {}
    /\ table = EmptyTable
    /\ scopes = <<>>
    /\ out = <<>>
    /\ status = "run"

Text ==
    /\ At("text")
    /\ LET line == ExpandLine(table, Line.toks)
       IN  out' = out \o [k \in 1 .. Len(line) |-> line[k].text]
    /\ GoTo(Top.pos + 1, Guard)
    /\ UNCHANGED <<files, once, table, scopes, status>>

\* cpp__define; the first definition inside an #ifndef must be of its name.
CppDefine ==
    /\ At("define")
    /\ table' = Define(table, Line.name, Line.def)
    /\ GoTo(Top.pos + 1, IF Guard.state # "define" THEN Guard
                         ELSE [Guard EXCEPT !.state = IF Guard.name = Line.name
                                                      THEN "endif" ELSE "invalid"])
    /\ UNCHANGED <<files, once, scopes, out, status>>

CppUndef ==
    /\ At("undef")
    /\ table' = Undef(table, Line.name)
    /\ GoTo(Top.pos + 1, Guard)
    /\ UNCHANGED <<files, once, scopes, out, status>>

CppIf ==
    /\ At("if")
    /\ PushScope(Eval(table, Line.toks), Guard)
    /\ UNCHANGED <<files, once, table, out>>

CppIfdef ==
    /\ At("ifdef")
    /\ PushScope(Defined(table, Line.name), Guard)
    /\ UNCHANGED <<files, once, table, out>>

\* cpp__ifndef: the first one that is true may be a guard.
CppIfndef ==
    /\ At("ifndef")
    /\ LET on == ~Defined(table, Line.name)
           opens == [state |-> "define", name |-> Line.name, depth |-> Len(scopes) + 1]
       IN  PushScope(on, IF on /\ Guard.state = "ifndef" THEN opens ELSE Guard)
    /\ UNCHANGED <<files, once, table, out>>

\* Outside of any #if the code reads and writes scope_eval[-1].
NoScope(op) ==
    /\ At(op) /\ scopes = <<>>
    /\ status' = "undefined"
    /\ UNCHANGED <<files, stack, once, table, scopes, out>>

\* cpp__elif: the condition is looked at only if no group has been entered.
CppElif ==
    /\ At("elif") /\ scopes # <<>>
    /\ LET on == ~Last(scopes) /\ Eval(table, Line.toks)
       IN  /\ scopes' = [scopes EXCEPT ![Len(scopes)] = @ \/ on]
           /\ Enter(on, Guard)
    /\ UNCHANGED <<files, once, table, out>>

CppElse ==
    /\ At("else") /\ scopes # <<>>
    /\ scopes' = [scopes EXCEPT ![Len(scopes)] = TRUE]
    /\ Enter(~Last(scopes), Guard)
    /\ UNCHANGED <<files, once, table, out>>

\* A mutation: the guard's name is not looked up again at its #endif.
MutGuardAtEndif ==
    IF Guard.state = "endif" /\ Guard.depth = Len(scopes)
    THEN [Guard EXCEPT !.state = "nothing"] ELSE Guard

\* cpp__endif; the guard's name has to be defined still.
GuardAtEndif ==
    IF Guard.state = "endif" /\ Guard.depth = Len(scopes)
    THEN [Guard EXCEPT !.state = IF Defined(table, Guard.name) THEN "nothing" ELSE "invalid"]
    ELSE Guard

CppEndif ==
    /\ At("endif")
    /\ IF scopes = <<>>
       THEN status' = "error" /\ UNCHANGED <<stack, scopes>>
       ELSE /\ scopes' = Front(scopes)
            /\ GoTo(Top.pos + 1, GuardAtEndif)
            /\ UNCHANGED status
    /\ UNCHANGED <<files, once, table, out>>

CppPragmaOnce ==
    /\ At("once")
    /\ once' = once \cup {Top.file}
    /\ GoTo(Top.pos + 1, Guard)
    /\ UNCHANGED <<files, table, scopes, out, status>>

CppInclude ==
    /\ At("include")
    /\ LET back == [stack EXCEPT ![Len(stack)] = [@ EXCEPT !.pos = @ + 1, !.guard = Guard]]
       IN  IF Line.file \notin DOMAIN files
           THEN status' = "error" /\ UNCHANGED stack
           ELSE /\ stack' = IF Line.file \in once THEN back ELSE Append(back, Slot(Line.file))
                /\ UNCHANGED status
    /\ UNCHANGED <<files, once, table, scopes, out>>

\* pop_stack: a file that was all guard is not to be read again.
PopFile ==
    /\ status = "run" /\ Top.pos > Len(Lines)
    /\ once' = IF Top.guard.state = "nothing" THEN once \cup {Top.file} ELSE once
    /\ stack' = Front(stack)
    /\ status' = IF Len(stack) = 1 THEN "done" ELSE "run"
    /\ UNCHANGED <<files, table, scopes, out>>

Next ==
    \/ Text \/ CppDefine \/ CppUndef
    \/ CppIf \/ CppIfdef \/ CppIfndef \/ CppElif \/ CppElse \/ CppEndif
    \/ NoScope("elif") \/ NoScope("else")
    \/ CppPragmaOnce \/ CppInclude \/ PopFile

Spec == Init /\ [][Next]_vars

-----------------------------------------------------------------------------
Reference == INSTANCE PreprocessorReference WITH NoParams <- None, QuoteMark <- Quote

TypeOK ==
    /\ \A k \in DOMAIN stack : /\ stack[k].file \in DOMAIN files
                               /\ stack[k].pos \in 1 .. Len(files[stack[k].file]) + 1
    /\ once \subseteq DOMAIN files
    /\ table.keys \in [Slots -> Names \cup {Free, Tombstone}]
    /\ scopes \in Seq(BOOLEAN) /\ Len(scopes) < MaxScopeDepth
    /\ status \in {"run", "done", "error", "assert", "undefined"}
    /\ (stack = <<>>) = (status = "done")

\* The tokens that come out are those the C standard asks for, for a program whose
\* conditionals are balanced in each file.
MatchesReference ==
    status = "done" /\ scopes = <<>> => out = Reference!Preprocessed(files)

\* The macros the table holds.
Current == [n \in {n \in Names : Defined(table, n)} |-> Value(table, n)]

\* To take a file for guarded is only to save time: were it read again where it ends, it
\* would put out nothing and define nothing.
GuardIsInvisible ==
    [][\A f \in once' \ once :
          Len(stack') < Len(stack) =>
            LET again == Reference!RunFile(files, f, [D |-> Current, out |-> <<>>, once |-> once, ifs |-> <<>>])
            IN  again.out = <<>> /\ again.D = Current]_vars
===============================================================================

------------------------------- MODULE Macros ---------------------------------
(***************************************************************************)
(* Macro expansion (libCuik/lib/preproc/cpp_expand.h) and the conditions   *)
(* of #if (cpp_expr.h).                                                    *)
(*                                                                         *)
(* A token is its text, a sequence of lexemes that ## joins and # quotes,  *)
(* and the `expanded` flag.  The text <<>> is a token of type 0.  Token    *)
(* lists, linked and rewritten in place by the code, are sequences.  A     *)
(* macro is [params, body], with params = None for an object-like one.     *)
(* Locations, wide strings, __FILE__ and its like, and `, ## __VA_ARGS__`  *)
(* are left out; so is an argument list that does not end on its line.     *)
(***************************************************************************)
EXTENDS MacroTable, SequencesExt

CONSTANTS
    None,          \* no parameter list
    NoIdentifiers  \* the lexemes that are no identifiers

Tok(text) == [text |-> text, expanded |-> FALSE]
Blank == Tok(<<>>)
Is(tok, lexeme) == tok.text = <<lexeme>>
Quote == "#str"

\* A definition's or an argument's text read by the lexer again: the flags are gone.
IntoList(toks) == [k \in 1 .. Len(toks) |-> Tok(toks[k].text)]
Visible(toks) == SelectSeq(toks, LAMBDA x : x.text # <<>>)

\* parse_args and parse_args2, after the opening parenthesis: the arguments, split at
\* the commas outside parentheses, and the tokens after the closing one.
RECURSIVE ParseArgs(_, _, _, _)
ParseArgs(toks, depth, done, arg) ==
    LET x == Head(toks) IN
    IF toks = <<>> \/ (Is(x, ")") /\ depth = 0)
    THEN [vals |-> Append(done, arg), tail |-> IF toks = <<>> THEN <<>> ELSE Tail(toks)]
    ELSE IF Is(x, ",") /\ depth = 0
    THEN ParseArgs(Tail(toks), 0, Append(done, arg), <<>>)
    ELSE ParseArgs(Tail(toks),
                   CASE Is(x, "(") -> depth + 1 [] Is(x, ")") -> depth - 1 [] OTHER -> depth,
                   done, arg \o Visible(IntoList(<<x>>)))

Param(params, tok) == IF \E k \in DOMAIN params : tok.text = params[k]
                      THEN CHOOSE k \in DOMAIN params : tok.text = params[k] ELSE 0

Paste(toks) == FlattenSeq([k \in 1 .. Len(toks) |-> toks[k].text])

\* subst: the body with its parameters replaced by their arguments, # and ## done on the
\* way.  `vals` are the arguments as they are written and `expanded` expanded on their
\* own; the left operand of ## has been replaced by the time ## sees it, the right one is
\* taken raw.  A parameter without tokens leaves a blank one.  A # before an identifier
\* that is no parameter is reported and ends it; neither caller looks at the result, and
\* what follows in the body stays as it is.
Subst(body, params, vals, expanded) ==
    LET names(k) == Is(body[k], "#") /\ k < Len(body) /\ ~\E x \in NoIdentifiers : Is(body[k+1], x)
        quotes(k) == names(k) /\ Param(params, body[k+1]) # 0
        used(k) == k > 1 /\ (Is(body[k-1], "##") \/ quotes(k-1))
        raw(x) == LET p == Param(params, x) IN IF p = 0 THEN <<x>> ELSE vals[p]
        varargs == FlattenSeq([k \in 1 .. Len(vals) - Len(params) |->
                                  (IF k = 1 THEN <<>> ELSE <<Tok(<<",">>)>>) \o expanded[Len(params) + k]])
        ready(x) == CASE Is(x, "__VA_ARGS__") -> varargs
                      [] Param(params, x) # 0 -> IF raw(x) = <<>> THEN <<>> ELSE expanded[Param(params, x)]
                      [] OTHER -> <<x>>
        join(acc, b) == Front(acc) \o <<Tok(Last(acc).text \o Paste(SubSeq(b, 1, 1)))>>
                        \o SubSeq(b, 2, Len(b))
        step(acc, k) ==
            IF used(k) THEN acc
            ELSE IF quotes(k) THEN Append(acc, Tok(<<Quote>> \o Paste(raw(body[k+1]))))
            ELSE IF Is(body[k], "##") THEN join(acc, raw(body[k+1]))
            ELSE acc \o (IF ready(body[k]) = <<>> THEN <<Blank>> ELSE ready(body[k]))
        errors == {k \in DOMAIN body : names(k) /\ ~quotes(k) /\ ~used(k)}
        last == Min(errors \cup {Len(body) + 1}) - 1
    IN  FoldLeftDomain(step, <<>>, SubSeq(body, 1, last)) \o SubSeq(body, last + 1, Len(body))

\* attach_to_list: the macro's own name in its expansion is not to be expanded again;
\* the loop ends before the last token.
Paint(list, text) ==
    [k \in 1 .. Len(list) |->
        IF k < Len(list) /\ list[k].text = text THEN [list[k] EXCEPT !.expanded = TRUE] ELSE list[k]]

RECURSIVE Expand(_, _, _, _), ExpandRest(_, _, _), ExpandIdent(_, _, _)

\* What follows the name of a macro in its list, or in the file when the list has no more.
Ahead(list, rest) == IF Len(list) > 1 THEN Tail(list) ELSE rest
Call(list, rest) == ParseArgs(Tail(Ahead(list, rest)), 0, <<>>, <<>>)

\* The expansion of a name: [list, rest], with what is left of the list behind it.
Replace(name, tail, r) == [out |-> Paint(r.list, name), tail |-> tail, rest |-> r.rest]

\* expand_ident: what the identifier at the head of `list` becomes, what of `list` comes
\* after it, and what is left of `rest`, the tokens of the file.  An object-like macro in
\* front of a parenthesis is scanned with what follows it.
ExpandIdent(T, list, rest) ==
    LET x == Head(list)
        tail == Tail(list)
        def == Value(T, x.text)
        object == def.params = None
        calls == Ahead(list, rest) # <<>> /\ Is(Head(Ahead(list, rest)), "(")
        args == Call(list, rest)
        left == IF tail # <<>> THEN [tail |-> args.tail, rest |-> rest] ELSE [tail |-> <<>>, rest |-> args.tail]
        subst(params, vals) ==
            Subst(IntoList(def.body), params, vals, [k \in DOMAIN vals |-> Expand(T, vals[k], <<>>, 0).list])
    IN
    IF x.expanded \/ ~Defined(T, x.text) \/ (~object /\ ~calls)
    THEN [out |-> <<x>>, tail |-> tail, rest |-> rest]
    ELSE IF def.body = <<>>
    THEN [out |-> <<Blank>>, tail |-> IF object THEN tail ELSE left.tail,
          rest |-> IF object THEN rest ELSE left.rest]
    ELSE IF object
    THEN LET sees == tail # <<>> /\ calls
         IN  Replace(x.text, IF sees THEN <<>> ELSE tail,
                     Expand(Hide(T, x.text), subst(<<>>, <<>>) \o (IF sees THEN tail ELSE <<>>), rest, 0))
    ELSE Replace(x.text, left.tail,
                 Expand(Hide(T, x.text), subst(def.params, args.vals), left.rest, 0))

\* expand: the identifiers of a list in turn, up to a parenthesis it does not open.  An
\* expansion is not scanned a second time, but a `)` at its head counts.
Expand(T, list, rest, depth) ==
    IF list = <<>> THEN [list |-> <<>>, rest |-> rest]
    ELSE ExpandRest(T, ExpandIdent(T, list, rest), depth + (IF Is(Head(list), "(") THEN 1 ELSE 0))

Prefix(out, r) == [list |-> out \o r.list, rest |-> r.rest]
ExpandRest(T, r, depth) ==
    LET closes == Is(Head(r.out), ")") IN
    Prefix(r.out, IF closes /\ depth = 0 THEN [list |-> r.tail, rest |-> r.rest]
                  ELSE Expand(T, r.tail, r.rest, IF closes THEN depth - 1 ELSE depth))

\* The inner loop of cuikpp_run over a line without a directive.
RECURSIVE ExpandLine(_, _), ExpandNext(_, _)
ExpandNext(T, r) == Visible(r.out) \o ExpandLine(T, r.rest)
ExpandLine(T, toks) ==
    IF toks = <<>> THEN <<>> ELSE ExpandNext(T, ExpandIdent(T, <<Head(toks)>>, Tail(toks)))

-----------------------------------------------------------------------------
(* Conditions: the operators ! && || and parentheses stand for all of them.  *)

\* eval, first part: `defined X` becomes 1 or 0, before the macros are expanded.
RECURSIVE ReplaceDefined(_, _)
ReplaceDefined(T, toks) ==
    IF toks = <<>> THEN <<>>
    ELSE IF Is(Head(toks), "defined")
    THEN LET p == IF Is(toks[2], "(") THEN 3 ELSE 2
         IN  <<Tok(IF Defined(T, toks[p].text) THEN <<"1">> ELSE <<"0">>)>>
             \o ReplaceDefined(T, SubSeq(toks, IF p = 3 THEN 5 ELSE 3, Len(toks)))
    ELSE <<Head(toks)>> \o ReplaceDefined(T, Tail(toks))

\* get_precendence; 0 is no binary operator.
Precedence(toks) == IF toks = <<>> THEN 0
                    ELSE CASE Is(Head(toks), "&&") -> 89 [] Is(Head(toks), "||") -> 88 [] OTHER -> 0

RECURSIVE EvalUnary(_), EvalBinop(_, _), EvalRest(_, _, _)

\* Each returns the value and the tokens after the expression.
EvalUnary(toks) ==
    IF Is(Head(toks), "!")
    THEN LET r == EvalUnary(Tail(toks)) IN [val |-> ~r.val, rest |-> r.rest]
    ELSE IF Is(Head(toks), "(")
    THEN LET r == EvalBinop(Tail(toks), 0) IN [val |-> r.val, rest |-> Tail(r.rest)]
    ELSE [val |-> Is(Head(toks), "1"), rest |-> Tail(toks)]

EvalRest(lhs, toks, min) ==
    LET prec == Precedence(toks) IN
    IF prec = 0 \/ prec < min THEN [val |-> lhs, rest |-> toks]
    ELSE LET rhs == EvalBinop(Tail(toks), prec + 1)
         IN  EvalRest(IF prec = 89 THEN lhs /\ rhs.val ELSE lhs \/ rhs.val, rhs.rest, min)

EvalBinop(toks, min) == LET lhs == EvalUnary(toks) IN EvalRest(lhs.val, lhs.rest, min)

\* eval.  A line that begins with nothing counts as false.
IsTrue(list) == list # <<>> /\ Head(list).text # <<>> /\ EvalBinop(list, 0).val
Eval(T, toks) == IsTrue(Expand(T, ReplaceDefined(T, toks), <<>>, 0).list)
===============================================================================

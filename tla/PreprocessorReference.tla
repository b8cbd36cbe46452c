------------------------ MODULE PreprocessorReference -------------------------
(***************************************************************************)
(* What a preprocessor should put out, by the rules of the C standard that *)
(* cpp_expand.h cites (6.10): conditional groups are a matter of which     *)
(* lines are active, and macros are expanded with hide sets (the           *)
(* committee's algorithm).  Nothing here is taken from the code.           *)
(*                                                                         *)
(* Programs and tokens are those of Macros and Cpp; a token carries its    *)
(* hide set.                                                               *)
(***************************************************************************)
EXTENDS Naturals, Sequences, SequencesExt

CONSTANTS NoParams, QuoteMark

HTok(text) == [text |-> text, hide |-> {}]
Lone(x, lexeme) == x.text = <<lexeme>>
HideAll(toks, hs) == [k \in 1 .. Len(toks) |-> [toks[k] EXCEPT !.hide = @ \cup hs]]
TextOf(toks) == FlattenSeq([k \in 1 .. Len(toks) |-> toks[k].text])

\* The position of the parenthesis that closes the one at position i, or 0.
Closing(toks, i) ==
    LET depth(j) == Cardinality({k \in i .. j : Lone(toks[k], "(")})
                    - Cardinality({k \in i .. j : Lone(toks[k], ")")})
        ends == {j \in i .. Len(toks) : depth(j) = 0}
    IN  IF ends = {} THEN 0 ELSE CHOOSE j \in ends : \A k \in ends : j <= k

\* The arguments between positions i and j: split at the commas of depth 0.
Arguments(toks, i, j) ==
    LET commas == {k \in i+1 .. j-1 : /\ Lone(toks[k], ",")
                                      /\ Cardinality({m \in i+1 .. k : Lone(toks[m], "(")})
                                         = Cardinality({m \in i+1 .. k : Lone(toks[m], ")")})}
        cuts == SetToSortSeq(commas \cup {i, j}, <)
    IN  [n \in 1 .. Len(cuts) - 1 |-> SubSeq(toks, cuts[n] + 1, cuts[n+1] - 1)]

ArgOf(params, x) == IF Contains(params, x.text)
                    THEN CHOOSE k \in DOMAIN params : params[k] = x.text ELSE 0

RECURSIVE Expansion(_, _), Substitution(_, _, _, _)

\* 6.10.3.1 to 6.10.3.3: # and ## see the argument as it is written, all other places
\* see it expanded.
Substitution(D, body, params, args) ==
    LET x == Head(body)
        a == ArgOf(params, x)
    IN
    IF body = <<>> THEN <<>>
    ELSE IF Lone(x, "#") /\ Len(body) > 1 /\ ArgOf(params, body[2]) # 0
    THEN <<HTok(<<QuoteMark>> \o TextOf(args[ArgOf(params, body[2])]))>>
         \o Substitution(D, SubSeq(body, 3, Len(body)), params, args)
    ELSE IF Len(body) > 2 /\ Lone(body[2], "##")
    THEN LET left == IF a = 0 THEN <<x>> ELSE args[a]
             b == ArgOf(params, body[3])
             right == IF b = 0 THEN <<body[3]>> ELSE args[b]
             glue == IF left = <<>> \/ right = <<>> THEN left \o right
                     ELSE Front(left) \o <<HTok(Last(left).text \o right[1].text)>> \o Tail(right)
         IN  glue \o Substitution(D, SubSeq(body, 4, Len(body)), params, args)
    ELSE IF Lone(x, "__VA_ARGS__")
    THEN FlattenSeq([k \in 1 .. Len(args) - Len(params) |->
                        (IF k = 1 THEN <<>> ELSE <<HTok(<<",">>)>>) \o Expansion(D, args[Len(params) + k])])
         \o Substitution(D, Tail(body), params, args)
    ELSE (IF a = 0 THEN <<x>> ELSE Expansion(D, args[a]))
         \o Substitution(D, Tail(body), params, args)

\* 6.10.3.4: a replacement is scanned again with the tokens that follow it, and a name
\* is not replaced where it comes from its own replacement.
Expansion(D, toks) ==
    IF toks = <<>> THEN <<>>
    ELSE LET x == Head(toks)
             name == x.text
             stay == <<x>> \o Expansion(D, Tail(toks))
         IN
         IF name \notin DOMAIN D \/ name \in x.hide THEN stay
         ELSE LET body == [k \in 1 .. Len(D[name].body) |-> HTok(D[name].body[k].text)] IN
         IF D[name].params = NoParams
         THEN Expansion(D, HideAll(Substitution(D, body, <<>>, <<>>), x.hide \cup {name}) \o Tail(toks))
         ELSE IF Len(toks) = 1 \/ ~Lone(toks[2], "(") THEN stay
         ELSE LET j == Closing(toks, 2)
                  sub == Substitution(D, body, D[name].params, Arguments(toks, 2, j))
              IN  Expansion(D, HideAll(sub, (x.hide \cap toks[j].hide) \cup {name})
                               \o SubSeq(toks, j + 1, Len(toks)))

Expanded(D, toks) == Expansion(D, [k \in 1 .. Len(toks) |-> HTok(toks[k].text)])

\* A condition is true if a disjunct is, a disjunct if all its conjuncts are.  The text
\* has no parentheses left that would hide an operator.
RECURSIVE Truth(_)
Truth(toks) ==
    LET open(k) == Cardinality({m \in 1 .. k : Lone(toks[m], "(")})
                   - Cardinality({m \in 1 .. k : Lone(toks[m], ")")})
        ops(s) == {k \in DOMAIN toks : Lone(toks[k], s) /\ open(k) = 0}
        split(S) == LET k == CHOOSE k \in S : TRUE
                    IN  <<SubSeq(toks, 1, k-1), SubSeq(toks, k+1, Len(toks))>>
    IN
    CASE ops("||") # {} -> LET p == split(ops("||")) IN Truth(p[1]) \/ Truth(p[2])
      [] ops("||") = {} /\ ops("&&") # {} -> LET p == split(ops("&&")) IN Truth(p[1]) /\ Truth(p[2])
      [] OTHER -> IF Lone(toks[1], "!") THEN ~Truth(Tail(toks))
                  ELSE IF Lone(toks[1], "(") THEN Truth(SubSeq(toks, 2, Len(toks) - 1))
                  ELSE Lone(toks[1], "1")

RECURSIVE Resolved(_, _)
Resolved(D, toks) ==
    IF toks = <<>> THEN <<>>
    ELSE IF Lone(toks[1], "defined")
    THEN LET p == IF Lone(toks[2], "(") THEN 3 ELSE 2
         IN  <<HTok(IF toks[p].text \in DOMAIN D THEN <<"1">> ELSE <<"0">>)>>
             \o Resolved(D, SubSeq(toks, IF p = 3 THEN 5 ELSE 3, Len(toks)))
    ELSE <<HTok(toks[1].text)>> \o Resolved(D, Tail(toks))

Holds(D, toks) == Truth(Expansion(D, Resolved(D, toks)))

-----------------------------------------------------------------------------
\* A run over the lines of a file.  st has the macros D, the output, the files marked
\* `once`, and for each open #if whether its lines are active now and whether one of
\* its groups has been.
Active(st) == \A k \in DOMAIN st.ifs : st.ifs[k].on
Open(st, on) == [st EXCEPT !.ifs = Append(@, [on |-> on, done |-> on])]
Turn(st, on) == [st EXCEPT !.ifs[Len(st.ifs)] = [on |-> on /\ ~@.done, done |-> on \/ @.done]]
\* The condition of an #elif matters only if the groups around it are active.
Outer(st) == [st EXCEPT !.ifs = Front(@)]

RECURSIVE RunFile(_, _, _)
RunFile(files, f, st) ==
    LET line(s, x) ==
          CASE x.op = "if"    -> Open(s, Active(s) /\ Holds(s.D, x.toks))
            [] x.op = "ifdef" -> Open(s, x.name \in DOMAIN s.D)
            [] x.op = "ifndef" -> Open(s, x.name \notin DOMAIN s.D)
            [] x.op = "elif"  -> Turn(s, Active(Outer(s)) /\ ~Last(s.ifs).done /\ Holds(s.D, x.toks))
            [] x.op = "else"  -> Turn(s, TRUE)
            [] x.op = "endif" -> Outer(s)
            [] ~Active(s)     -> s
            [] x.op = "text"  -> [s EXCEPT !.out = @ \o [k \in 1 .. Len(Expanded(s.D, x.toks)) |->
                                                            Expanded(s.D, x.toks)[k].text]]
            [] x.op = "define" -> [s EXCEPT !.D = [n \in DOMAIN @ \cup {x.name} |->
                                                      IF n = x.name THEN x.def ELSE @[n]]]
            [] x.op = "undef" -> [s EXCEPT !.D = [n \in DOMAIN @ \ {x.name} |-> @[n]]]
            [] x.op = "once"  -> [s EXCEPT !.once = @ \cup {f}]
            [] x.op = "include" -> IF x.file \in s.once THEN s ELSE RunFile(files, x.file, s)
    IN  FoldLeft(line, st, files[f])

Preprocessed(files) ==
    RunFile(files, "main", [D |-> [n \in {} |-> 0], out |-> <<>>, once |-> {}, ifs |-> <<>>]).out
===============================================================================

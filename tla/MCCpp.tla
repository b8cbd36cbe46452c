-------------------------------- MODULE MCCpp ---------------------------------
(***************************************************************************)
(* Programs for Cpp: all short ones over a set of lines, and longer ones   *)
(* made of a pattern with choices.                                         *)
(***************************************************************************)
EXTENDS Cpp

L(strs) == [k \in 1 .. Len(strs) |-> Tok(<<strs[k]>>)]
N(s) == <<s>>
TextLine(strs) == [op |-> "text", toks |-> L(strs)]
Object(n, body) == [op |-> "define", name |-> N(n), def |-> [params |-> None, body |-> L(body)]]
Function(n, params, body) ==
    [op |-> "define", name |-> N(n),
     def |-> [params |-> [k \in 1 .. Len(params) |-> N(params[k])], body |-> L(body)]]
UndefLine(n) == [op |-> "undef", name |-> N(n)]
If(strs) == [op |-> "if", toks |-> L(strs)]
Ifdef(n) == [op |-> "ifdef", name |-> N(n)]
Ifndef(n) == [op |-> "ifndef", name |-> N(n)]
Elif(strs) == [op |-> "elif", toks |-> L(strs)]
ElseLine == [op |-> "else"]
EndifLine == [op |-> "endif"]
Once == [op |-> "once"]
Include(f) == [op |-> "include", file |-> f]

MCNames == {N("A"), N("B"), N("F"), N("G"), N("H")}
MCSlots == 1 .. 6
MCNoIdentifiers == {"(", ")", "[", "]", ",", "+", "#", "##", "!", "&&", "||", "0", "1"}
Nth == [n \in MCNames |-> CASE n = N("A") -> 1 [] n = N("B") -> 2 [] n = N("F") -> 3
                            [] n = N("G") -> 4 [] n = N("H") -> 5]
\* Each name has a slot of its own.
Apart == [n \in MCNames |-> [k \in MCSlots |-> 1 + ((Nth[n] + k - 2) % 6)]]
\* A and B have the same hash.
Collide == [n \in MCNames |-> IF n = N("B") THEN Apart[N("A")] ELSE Apart[n]]

-----------------------------------------------------------------------------
\* Headers: guarded, guarded with an inner #if, unguarded after all, marked once, read
\* each time, and one that includes itself inside its guard.
Guarded == <<Ifndef("G"), Object("G", <<>>), TextLine(<<"A", "g">>), EndifLine>>
Inner == <<Ifndef("G"), Object("G", <<>>), Ifdef("A"), EndifLine, TextLine(<<"g">>), EndifLine>>
Unguarded == <<Ifndef("G"), Object("G", <<>>), TextLine(<<"g">>), UndefLine("G"), EndifLine>>
Trailing == <<Ifndef("G"), Object("G", <<>>), EndifLine, TextLine(<<"A">>)>>
Other == <<Ifndef("G"), Object("H", <<>>), TextLine(<<"g">>), EndifLine>>
Pragma == <<Once, TextLine(<<"A">>)>>
Each == <<TextLine(<<"F", "(", "A", ")">>)>>
Self == <<Ifndef("G"), Object("G", <<>>), Include("h"), TextLine(<<"s">>), EndifLine>>
Headers == {Guarded, Inner, Unguarded, Trailing, Other, Pragma, Each, Self}

\* All programs of up to three lines before two fixed ones.
Lines1 == {TextLine(<<"A", "F", "(", "B", ")">>), Object("A", <<"B">>), Object("B", <<"A", "x">>),
           Function("F", <<"p">>, <<"A", "p">>), UndefLine("A"), Include("h"), Include("none"),
           Ifdef("A"), Ifndef("A"), If(<<"A">>), ElseLine, Elif(<<"1">>), EndifLine}
Short == {ls \o <<Include("h"), TextLine(<<"A">>)>> : ls \in BoundedSeq(Lines1, 3)}

\* Nested conditionals.
Conds == {<<"1">>, <<"A">>, <<"!", "defined", "(", "A", ")", "||", "B", "&&", "0">>,
          <<"(", "A", "||", "defined", "B", ")", "&&", "1">>}
Mids == {TextLine(<<"m">>), Object("B", <<"1">>), UndefLine("A")}
Nested == {<<Object("A", <<d>>), If(c1), m, Ifdef("B"), TextLine(<<"i">>), ElseLine, TextLine(<<"e">>), EndifLine,
             Elif(c2), m, Elif(<<"1">>), TextLine(<<"l">>), ElseLine, TextLine(<<"z">>), EndifLine, TextLine(<<"A">>)>> :
           c1, c2 \in Conds, m \in Mids, d \in {"0", "1"}}

\* Macros that use each other, and uses of them.
Bodies == {<<"B">>, <<"F", "(", "B", ")">>, <<"A", "+">>, <<"#", "B">>, <<>>}
Uses == {<<"A">>, <<"F", "(", "A", ")">>, <<"F", "(", "F", "(", "A", ")", ")">>, <<"F", "x">>,
         <<"H", "(", "A", ",", "(", "B", ",", "y", ")", ")">>, <<"H", "(", "B", ",", "F", ")", "(", "A", ")", "F">>}
Expansions == {<<Object("A", a), Object("B", b), Function("F", <<"p">>, f),
                 h, TextLine(u)>> :
               a \in Bodies, b \in {<<"y">>, <<"A", "x">>},
               f \in {<<"p">>, <<"[", "p", "p", "]">>, <<"#", "p">>},
               h \in {Function("H", <<"p", "q">>, <<"q", "p">>), Function("H", <<"p">>, <<"p", "__VA_ARGS__">>),
                       Function("H", <<"p", "q">>, <<"x", "##", "q", "p">>)}, u \in Uses}

With(mains, headers) == {[f \in {"main", "h"} |-> IF f = "main" THEN m ELSE h] : m \in mains, h \in headers}
MCPrograms == With(Short, Headers) \cup With(Nested \cup Expansions, {Each})
===============================================================================

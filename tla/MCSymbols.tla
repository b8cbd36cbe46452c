------------------------------ MODULE MCSymbols -------------------------------
(***************************************************************************)
(* Builds of two and three units for Symbols.                              *)
(***************************************************************************)
EXTENDS Symbols

CONSTANTS T1, T2

S(op, name, static, inline, refs) ==
    [op |-> op, name |-> name, static |-> static, inline |-> inline, refs |-> refs]
Fn(name, refs) == S("func", name, FALSE, FALSE, refs)
Own(name, refs) == S("func", name, TRUE, FALSE, refs)
Inl(name, refs) == S("func", name, FALSE, TRUE, refs)
Var(name) == S("global", name, FALSE, FALSE, <<>>)
Decl(name) == S("decl", name, FALSE, FALSE, <<>>)

\* main calls foo, foo uses the variable x of the first unit and a missing name; both
\* units have a static function of the same name, one of which is not used.
Across == << <<Var("x"), Decl("foo"), Own("s", <<>>), Fn("main", <<2, 3, 2>>)>>,
             <<Decl("x"), Decl("puts"), Own("s", <<>>), Fn("foo", <<1, 2>>)>> >>

\* Both units include the same inline function.
Header == << <<Inl("h", <<>>), Decl("foo"), Fn("main", <<1, 2>>)>>,
             <<Inl("h", <<>>), Fn("foo", <<1>>)>> >>

\* Three units: one only declares what the other two define.
Three == << <<Decl("g"), Decl("x"), Fn("main", <<1, 2>>)>>,
            <<Decl("x"), Fn("g", <<1>>)>>,
            <<Var("x"), Decl("g"), Fn("k", <<2>>)>> >>

MCBuilds == {[units |-> u, threads |-> th, format |-> "coff"] :
                u \in {Across, Header, Three}, th \in {{T1}, {T1, T2}}}

\* A build for Linux on one thread.
MCElf == {[units |-> Across, threads |-> {T1}, format |-> "elf"]}
===============================================================================

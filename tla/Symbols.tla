------------------------------- MODULE Symbols --------------------------------
(***************************************************************************)
(* How a name in one source file comes to be a symbol in the object file:  *)
(* libCuik/lib/back/ir_gen.c (ir_alloc_task, get_external), the symbols of *)
(* a TB module (tb/src/symbols.c, tb.c), their layout (tb/src/exporter.c)  *)
(* and the relocations the object writers emit (tb/src/objects).           *)
(*                                                                         *)
(* The compile steps of a build run this side by side, one per translation *)
(* unit, over one export table guarded by the compilation unit's lock and  *)
(* one TB module, whose symbols live in a list per thread.  A critical     *)
(* section of that lock is one step; what is done outside it is steps of   *)
(* its own.  BuildSteps covers when units are added and destroyed; here a  *)
(* unit's statements are generated by the thread that allocated them.      *)
(***************************************************************************)
EXTENDS Naturals, Sequences, FiniteSets, SequencesExt

CONSTANTS
    Threads,     \* the threads that run compile steps
    Builds,      \* the builds to consider: [units, threads, format]
    None         \* NULL

\* A build has its units, each the sequence of its top-level statements, and the
\* format of the object file.  A statement is a function or variable definition
\* ("func", "global") or a declaration ("decl"); `refs` are the statements of the
\* unit that its body names, in order.
Statement(s) ==
    /\ s.op \in {"func", "global", "decl"}
    /\ {s.static, s.inline} \subseteq BOOLEAN /\ (s.inline => s.op = "func")
    /\ (s.op # "func" => s.refs = <<>>)

\* The symbol ir_alloc_task makes for statement i of unit t, and what stands for a name
\* that no unit has defined so far (TB_External).
SymbolOf(s, t, i) == [kind |-> s.op, name |-> s.name, at |-> <<t, i>>]
Ext(n) == [kind |-> "external", name |-> n, at |-> <<0, 0>>]

ASSUME SymbolsAssumption ==
    /\ IsFiniteSet(Threads) /\ None \notin Threads
    /\ \A b \in Builds :
         /\ b.threads \subseteq Threads /\ b.threads # {}
         /\ b.format \in {"coff", "elf"}
         /\ \A t \in DOMAIN b.units : b.units[t] \in Seq(ToSet(b.units[t]))
         /\ \A t \in DOMAIN b.units : \A i \in DOMAIN b.units[t] :
              /\ Statement(b.units[t][i])
              /\ b.units[t][i].refs \in Seq(DOMAIN b.units[t])
              /\ None \notin {SymbolOf(b.units[t][i], t, i), Ext(b.units[t][i].name)}

VARIABLES
    build,       \* the build at hand
    unit,        \* each unit's step: where it is, its thread, its loop counters
    backed,      \* the statements flagged STMT_FLAGS_HAS_IR_BACKING
    backing,     \* stmt->backing.s
    table,       \* cu->export_table
    resolved,    \* TB_External.resolved
    first,       \* the list at module->first_info_in_module: the threads, newest first
    symbols,     \* TB_ThreadInfo.symbols
    count,       \* module->symbol_count, all kinds together
    patches,     \* the symbol patches of the compiled functions
    built,       \* the functions that have been generated (cu->worklist)
    object       \* the object file, once written

vars == <<build, unit, backed, backing, table, resolved, first, symbols,
          count, patches, built, object>>

-----------------------------------------------------------------------------
(* The statements and what sema finds out about them.                        *)

Units == DOMAIN build.units
Stmt(t, i) == build.units[t][i]
Stmts == UNION {{t} \X DOMAIN build.units[t] : t \in Units}
Names == {Stmt(p[1], p[2]).name : p \in Stmts}

Root(s) == (s.op = "func" /\ ~(s.static \/ s.inline)) \/ (s.op = "global" /\ ~s.static)

\* sema_mark_decl: what the roots of a unit with statements ss reach through references.
Reached(ss) ==
    LET reach[n \in 0 .. Len(ss)] ==
            IF n = 0 THEN {i \in DOMAIN ss : Root(ss[i])}
            ELSE reach[n-1] \cup UNION {ToSet(ss[i].refs) : i \in reach[n-1]}
    IN  reach[Len(ss)]
Used(t) == Reached(build.units[t])

\* cuiksema_run: the flags.  A variable is exported even if it is static.
Exported(s) == s.op = "global" \/ (s.op = "func" /\ ~s.static /\ ~s.inline)
Backed(t) == {i \in DOMAIN build.units[t] :
                \/ Stmt(t, i).op = "global"
                \/ Stmt(t, i).op = "func" /\ i \in Used(t)}

\* The symbol ir_alloc_task makes for a statement.
Def(t, i) == SymbolOf(Stmt(t, i), t, i)
AllSymbols == {Def(p[1], p[2]) : p \in Stmts} \cup {Ext(n) : n \in Names}
Defined(s) == s.kind # "external"
Private(s) == Defined(s) /\ Stmt(s.at[1], s.at[2]).static

\* The next statement of S after i, or 0.
After(S, i) == IF \E k \in S : k > i
               THEN CHOOSE k \in S : k > i /\ \A m \in S : m > i => k <= m
               ELSE 0

Init ==
    /\ build \in Builds
    /\ unit = [t \in Units |-> [pc |-> "new", thread |-> None, i |-> 0, j |-> 1, top |-> <<>>]]
    /\ backed = {p \in Stmts : p[2] \in Backed(p[1])}
    /\ backing = [p \in Stmts |-> None]
    /\ table = [n \in Names |-> None]
    /\ resolved = [n \in Names |-> None]
    /\ first = <<>>
    /\ symbols = [th \in Threads |-> <<>>]
    /\ count = 0
    /\ patches = {}
    /\ built = {}
    /\ object = None

-----------------------------------------------------------------------------
(* ir_alloc_task, run by cuikcg_allocate_ir2.                                *)

Allocated(t) == Backed(t) \cap Used(t)

\* Go on to the next statement to allocate; after the last one comes irgen.
NextAlloc(u, t, i) ==
    IF After(Allocated(t), i) # 0
    THEN [u EXCEPT !.pc = "check", !.i = After(Allocated(t), i)]
    ELSE [u EXCEPT !.pc = "gen", !.i = 0, !.j = 1]

\* A thread takes up a unit when it is at no other.
StartUnit(t, th) ==
    /\ unit[t].pc = "new" /\ th \in build.threads
    /\ \A o \in Units : unit[o].thread = th => unit[o].pc = "done"
    /\ unit' = [unit EXCEPT ![t] = NextAlloc([@ EXCEPT !.thread = th], t, 0)]
    /\ UNCHANGED <<build, backed, backing, table, resolved, first, symbols,
                   count, patches, built, object>>

\* An inline function that another unit has already exported gets no backing
\* (under the lock, which is released again before the symbol is made).
CheckInline(t) ==
    LET i == unit[t].i
        s == Stmt(t, i)
        taken == s.inline /\ table[s.name] # None /\ table[s.name].kind = "func"
    IN
    /\ unit[t].pc = "check"
    /\ IF taken THEN /\ backed' = backed \ {<<t, i>>}
                     /\ unit' = [unit EXCEPT ![t] = NextAlloc(@, t, i)]
                ELSE /\ unit' = [unit EXCEPT ![t].pc = "create"]
                     /\ UNCHANGED backed
    /\ UNCHANGED <<build, backing, table, resolved, first, symbols,
                   count, patches, built, object>>

\* tb_thread_info: a thread's first symbol links the thread to the module, by a
\* load of the list's head and a CAS, again and again until the CAS succeeds.
LoadFirst(t) ==
    /\ unit[t].pc = "create" /\ ~Contains(first, unit[t].thread)
    /\ unit' = [unit EXCEPT ![t].pc = "link", ![t].top = first]
    /\ UNCHANGED <<build, backed, backing, table, resolved, first, symbols,
                   count, patches, built, object>>

\* A mutation: the head of the list is stored without a CAS.
MutLinkThread(t) ==
    /\ unit[t].pc = "link"
    /\ first' = <<unit[t].thread>> \o unit[t].top
    /\ unit' = [unit EXCEPT ![t].pc = "create", ![t].top = <<>>]
    /\ UNCHANGED <<build, backed, backing, table, resolved, symbols,
                   count, patches, built, object>>

LinkThread(t) ==
    /\ unit[t].pc = "link"
    /\ first' = IF first = unit[t].top THEN <<unit[t].thread>> \o first ELSE first
    /\ unit' = [unit EXCEPT ![t].pc = "create", ![t].top = <<>>]
    /\ UNCHANGED <<build, backed, backing, table, resolved, symbols,
                   count, patches, built, object>>

\* tb_function_create or tb_global_create, and tb_symbol_append.
CreateSymbol(t) ==
    LET i == unit[t].i
        th == unit[t].thread
    IN
    /\ unit[t].pc = "create" /\ Contains(first, th)
    /\ symbols' = [symbols EXCEPT ![th] = Append(@, Def(t, i))]
    /\ count' = count + 1
    /\ backing' = [backing EXCEPT ![<<t, i>>] = Def(t, i)]
    /\ unit' = [unit EXCEPT ![t].pc = "export"]
    /\ UNCHANGED <<build, backed, table, resolved, first, patches, built, object>>

\* A mutation: the table takes the last definition, a used external included.
MutEnter(e, d) == d

\* A mutation: the second check of an inline function forgets to drop the body.
MutKeepsBody(s, e) == TRUE

\* What the table holds for a name once d is defined: the first entry stays.
Enter(e, d) == IF e = None THEN d ELSE e

\* An inline function whose name has been defined meanwhile loses its body.
KeepsBody(s, e) == s.inline => e \in {None, Ext(s.name)}

\* Under the lock: resolve the external that uses have made of the name, or be what
\* later uses find, or give up the backing of an inline function that lost.
ExportSymbol(t) ==
    LET i == unit[t].i
        s == Stmt(t, i)
        e == table[s.name]
        exports == s.inline \/ Exported(s)
    IN
    /\ unit[t].pc = "export"
    /\ table' = IF exports THEN [table EXCEPT ![s.name] = Enter(e, Def(t, i))] ELSE table
    /\ resolved' = IF exports /\ e = Ext(s.name) /\ resolved[s.name] = None
                   THEN [resolved EXCEPT ![s.name] = Def(t, i)] ELSE resolved
    /\ backed' = IF KeepsBody(s, e) THEN backed ELSE backed \ {<<t, i>>}
    /\ unit' = [unit EXCEPT ![t] = NextAlloc(@, t, i)]
    /\ UNCHANGED <<build, backing, first, symbols, count, patches, built, object>>

-----------------------------------------------------------------------------
(* irgen_job and cuikcg_top_level: the bodies and the names in them.         *)

Bodies(t) == {i \in DOMAIN build.units[t] : <<t, i>> \in backed /\ Stmt(t, i).op = "func"}

\* EXPR_SYMBOL: a statement without a symbol gets what get_external finds or makes
\* for its name, under the lock.  The compiled code patches in the symbol.
Reference(t) ==
    LET i == unit[t].i
        j == unit[t].j
        k == Stmt(t, i).refs[j]
        n == Stmt(t, k).name
        th == unit[t].thread
        sym == IF backing[<<t, k>>] # None THEN backing[<<t, k>>]
               ELSE IF table[n] # None THEN table[n] ELSE Ext(n)
        fresh == backing[<<t, k>>] = None /\ table[n] = None
    IN
    /\ unit[t].pc = "gen" /\ i # 0 /\ j <= Len(Stmt(t, i).refs)
    /\ backing' = [backing EXCEPT ![<<t, k>>] = sym]
    /\ table' = IF fresh THEN [table EXCEPT ![n] = sym] ELSE table
    /\ symbols' = IF fresh THEN [symbols EXCEPT ![th] = Append(@, sym)] ELSE symbols
    /\ count' = IF fresh THEN count + 1 ELSE count
    /\ patches' = patches \cup {[from |-> <<t, i>>, ref |-> <<t, k>>, target |-> sym]}
    /\ unit' = [unit EXCEPT ![t].j = j + 1]
    /\ UNCHANGED <<build, backed, resolved, first, built, object>>

\* The end of a body, and on to the next one; after the last the unit is done.
NextBody(t) ==
    LET i == unit[t].i
        k == After(Bodies(t), i)
    IN
    /\ unit[t].pc = "gen" /\ (i # 0 => unit[t].j > Len(Stmt(t, i).refs))
    /\ built' = IF i # 0 THEN built \cup {backing[<<t, i>>]} ELSE built
    /\ unit' = [unit EXCEPT ![t].i = k, ![t].j = 1, ![t].pc = IF k = 0 THEN "done" ELSE "gen"]
    /\ UNCHANGED <<build, backed, backing, table, resolved, first, symbols,
                   count, patches, object>>

-----------------------------------------------------------------------------
(* tb_module_layout_sections and the object writers, once every unit is done. *)

\* The symbols in the order the export walks them: thread by thread.
Walk == FoldRight(LAMBDA th, rest : symbols[th] \o rest, first, <<>>)

\* The section of a function: an inline one has a comdat section of its own.
Section(s) == IF Stmt(s.at[1], s.at[2]).inline THEN s.at ELSE <<0, 0>>

\* get_ir_ordinal orders a section by unit, then by place in the unit.
Before(a, b) == a.at[1] < b.at[1] \/ (a.at[1] = b.at[1] /\ a.at[2] < b.at[2])
InOrder(S) == [n \in 1 .. Cardinality(S) |->
                 CHOOSE s \in S : Cardinality({r \in S : Before(r, s)}) = n - 1]

\* The compiled functions that go to the text section; the walk meets each of them once
\* (EverySymbolWalked).
Text == {s \in ToSet(Walk) : s \in built /\ Section(s) = <<0, 0>>}

\* What gets an entry in the symbol table: compiled functions, variables, and the
\* externals nobody resolved.
Listed == {s \in ToSet(Walk) : CASE s.kind = "func" -> s \in built
                                 [] s.kind = "global" -> TRUE
                                 [] s.kind = "external" -> resolved[s.name] = None}

\* A mutation: a relocation names its target as it is, resolved or not.
MutNamed(s) == IF s \in Listed THEN s ELSE None

\* The symbol a relocation comes to name.  COFF follows `resolved`; ELF does not, and
\* numbers each function last as a global symbol, which is_nonlocal takes a private
\* one not to be.
Named(s) ==
    LET r == IF build.format = "coff" /\ ~Defined(s) /\ resolved[s.name] # None
             THEN resolved[s.name] ELSE s
    IN  IF r \notin Listed \/ (build.format = "elf" /\ r.kind = "func" /\ Private(r))
        THEN None ELSE r

\* emit_call_patches: a call inside a section is patched in place; all else becomes
\* a relocation.
Linked(p) ==
    IF p.target.kind = "func" /\ Section(p.target) = Section(Def(p.from[1], p.from[2]))
    THEN IF p.target \in built THEN p.target ELSE None
    ELSE Named(p.target)

\* A mutation: the functions are laid out in the order of the walk.
MutWriteObject ==
    /\ \A t \in Units : unit[t].pc = "done"
    /\ object = None
    /\ object' = [table |-> Listed,
                  text  |-> SelectSeq(Walk, LAMBDA s : s \in built /\ Section(s) = <<0, 0>>),
                  links |-> {[ref |-> p.ref, to |-> Linked(p)] : p \in patches}]
    /\ UNCHANGED <<build, unit, backed, backing, table, resolved, first, symbols,
                   count, patches, built>>

WriteObject ==
    /\ \A t \in Units : unit[t].pc = "done"
    /\ object = None
    /\ object' = [table |-> Listed,
                  text  |-> InOrder(Text),
                  links |-> {[ref |-> p.ref, to |-> Linked(p)] : p \in patches}]
    /\ UNCHANGED <<build, unit, backed, backing, table, resolved, first, symbols,
                   count, patches, built>>

-----------------------------------------------------------------------------
Compile(t) ==
    \/ \E th \in Threads : StartUnit(t, th)
    \/ CheckInline(t) \/ LoadFirst(t) \/ LinkThread(t) \/ CreateSymbol(t) \/ ExportSymbol(t)
    \/ Reference(t) \/ NextBody(t)

Next == (\E t \in Units : Compile(t)) \/ WriteObject

Spec == Init /\ [][Next]_vars

-----------------------------------------------------------------------------
TypeOK ==
    /\ build \in Builds
    /\ \A t \in Units : /\ unit[t].pc \in {"new", "check", "link", "create", "export", "gen", "done"}
                        /\ unit[t].i \in {0} \cup DOMAIN build.units[t]
                        /\ unit[t].pc # "new" => unit[t].thread \in build.threads
    /\ backed \subseteq Stmts
    /\ backing \in [Stmts -> AllSymbols \cup {None}]
    /\ table \in [Names -> AllSymbols \cup {None}]
    /\ resolved \in [Names -> AllSymbols \cup {None}]
    /\ first \in Seq(Threads)
    /\ \A th \in Threads : symbols[th] \in Seq(AllSymbols)
    /\ built \subseteq AllSymbols

\* No symbol is lost on its way to the object file, or listed twice: the walk over the
\* module's threads meets as many symbols as were made, each once.  (It looks at the
\* list as the writer does, after the last unit.)
EverySymbolWalked ==
    object # None => Len(Walk) = count /\ IsInjective(Walk)

\* The definitions of name n that C lets other units link to.
Exports(n) == {p \in Stmts : Stmt(p[1], p[2]).name = n /\ Root(Stmt(p[1], p[2]))}

\* A unit whose inline function lost the race between CheckInline and ExportSymbol: its
\* own calls keep the symbol that will have no body (see the README).
LostRace(p) == Stmt(p[1], p[2]).inline /\ p \notin backed /\ backing[p] = Def(p[1], p[2])

\* Every use of a name in the object leads to the right symbol, whatever the order in
\* which the units met the name: to the unit's own definition if it has one that
\* is not inline, else to an exported or inline definition of that name, with a
\* body if it is a function; only a name nobody defines stays external.
UsesLink ==
    object # None => \A l \in object.links :
        LET s == Stmt(l.ref[1], l.ref[2])
            own == Def(l.ref[1], l.ref[2])
        IN  LostRace(l.ref) \/
            /\ l.to # None /\ l.to.name = s.name
            /\ l.to.kind = "func" => l.to \in built
            /\ s.op # "decl" /\ ~s.inline => l.to = own
            /\ s.op = "decl" /\ Exports(s.name) # {} => l.to.at \in Exports(s.name)

\* A name has one public function with a body in the object, although every unit that
\* includes a header defines its inline functions.
OneBody ==
    object # None => \A a, b \in built :
        a.name = b.name /\ ~Private(a) /\ ~Private(b) => a = b

\* The text section depends on the build alone, and not on which thread compiled what
\* when: it is the used functions of the units, in the order of the source.
SameText ==
    object # None => object.text =
        InOrder({Def(p[1], p[2]) : p \in {q \in Stmts : /\ q[2] \in Used(q[1])
                                                       /\ Stmt(q[1], q[2]).op = "func"
                                                       /\ ~Stmt(q[1], q[2]).inline}})

\* What a name means is decided once: a use that took the symbol from the table never
\* has it changed under it.
NamesSettle ==
    [][\A n \in Names : /\ table[n] # None => table'[n] = table[n]
                        /\ resolved[n] # None => resolved'[n] = resolved[n]]_vars
===============================================================================

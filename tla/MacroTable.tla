------------------------------ MODULE MacroTable ------------------------------
(***************************************************************************)
(* The preprocessor's macro table, libCuik/lib/preproc/cpp_symtab.h: open  *)
(* addressing over slots that are free, hold a name, or are tombstones.    *)
(* A name being expanded is hidden by turning its slot into a tombstone    *)
(* for the time.                                                           *)
(***************************************************************************)
EXTENDS Naturals, Sequences

CONSTANTS
    Names,       \* the names that programs define
    Slots,       \* the slots of the table
    Probe,       \* the order in which a name's hash visits the slots
    Free,        \* keys[i].length = 0
    Tombstone    \* keys[i].length = MACRO_DEF_TOMBSTONE

\* The table is larger than the number of names, so a probe always meets a free slot.
ASSUME MacroTableAssumption ==
    /\ Free # Tombstone /\ {Free, Tombstone} \cap Names = {}
    /\ Probe \in [Names -> Seq(Slots)]
    /\ \A n \in Names : \A i \in Slots : \E k \in DOMAIN Probe[n] : Probe[n][k] = i

EmptyTable == [keys |-> [i \in Slots |-> Free], vals |-> [i \in Slots |-> <<>>]]

\* The first slot of n's probe whose key is one of `keys`.
FirstSlot(T, n, keys) ==
    LET k == CHOOSE k \in DOMAIN Probe[n] :
                 /\ T.keys[Probe[n][k]] \in keys
                 /\ \A m \in 1 .. k-1 : T.keys[Probe[n][m]] \notin keys
    IN  Probe[n][k]

\* find_define: up to the name or a free slot; a tombstone is neither.
Found(T, n) == FirstSlot(T, n, {n, Free})
Defined(T, n) == n \in Names /\ T.keys[Found(T, n)] = n
Value(T, n) == T.vals[Found(T, n)]

\* insert_symtab, which takes the first tombstone it meets, and cpp__define.
Define(T, n, def) ==
    LET i == FirstSlot(T, n, {n, Free, Tombstone})
    IN  [keys |-> [T.keys EXCEPT ![i] = n], vals |-> [T.vals EXCEPT ![i] = def]]

\* cuikpp_undef.
Undef(T, n) == IF Defined(T, n) THEN [T EXCEPT !.keys[Found(T, n)] = Tombstone] ELSE T

\* hide_macro; unhide_macro is the return to the table before.
Hide(T, n) == [T EXCEPT !.keys[Found(T, n)] = Tombstone]
===============================================================================

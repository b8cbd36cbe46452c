--------------------------------- MODULE Nbhs ---------------------------------
(***************************************************************************)
(* common/nbhs.h, the "non-blocking hashset" that the backend interns its  *)
(* lattice elements in (tb/src/opt/lattice.h), so that two elements are    *)
(* equal exactly when their pointers are.                                  *)
(*                                                                         *)
(* A table is an open-addressed array of pointers.  A table that is half   *)
(* full gets a successor of twice its size; the calls that follow move the *)
(* old entries up, a batch each, and the call that moves the last of them  *)
(* detaches the old table, waits until no thread's hazard pointers name it *)
(* and frees it.                                                           *)
(*                                                                         *)
(* A step of a thread is one access to shared memory.  Tables are numbered *)
(* in the order they become `latest`, which fixes their size; a freed      *)
(* table's address is never reused.                                        *)
(***************************************************************************)
EXTENDS Naturals, Sequences, FiniteSets, SequencesExt

CONSTANTS
    Threads,
    Vals,        \* the pointers that are interned
    Nil,         \* NULL, as an entry
    Key,         \* what a pointer points to: compare() is equality of keys
    Hash,        \* hs->hash, of a key
    Preloaded,   \* the pointers nbhs_raw_insert puts in before threads start
    Calls,       \* the pointers each thread allocates and interns, in order
    InitExp,     \* log2 of the capacity nbhs_alloc is asked for
    Batch,       \* how many entries a call moves up (32 in the code)
    MaxTables    \* bound: how many tables there can be

Tables == 0 .. MaxTables - 1
NoTable == MaxTables             \* NULL, as a table
Cap(n) == 2 ^ (InitExp + n)
Slots == 0 .. 4                  \* the hazard pointers of a thread

\* A word of a table: a pointer, and NBHS_RESERVE_BIT.
Entry == [p : Vals \cup {Nil}, reserved : BOOLEAN]
Empty == [p |-> Nil, reserved |-> FALSE]
Final(v) == [p |-> v, reserved |-> FALSE]
Reserved(v) == [p |-> v, reserved |-> TRUE]

Interned == {Preloaded[n] : n \in DOMAIN Preloaded}

ASSUME NbhsAssumption ==
    /\ IsFiniteSet(Threads) /\ Nil \notin Vals
    /\ DOMAIN Key = Vals /\ \A v \in Vals : Hash[Key[v]] \in Nat
    /\ Preloaded \in Seq(Vals)     \* each with a key of its own, as nbhs_raw_insert asserts
    /\ \A m, n \in DOMAIN Preloaded : Key[Preloaded[m]] = Key[Preloaded[n]] => m = n
    /\ Calls \in [Threads -> Seq(Vals \ Interned)]
    /\ InitExp \in Nat \ {0} /\ Batch \in Nat \ {0} /\ MaxTables \in Nat \ {0}
    /\ Len(Preloaded) < Cap(0)

VARIABLES
    latest,      \* hs->latest
    table,       \* the tables: data, prev, moved, move_done, count
    freed,       \* the tables given back by free_mem
    hazards,     \* nbhs_hazard_list, the newest entry first
    hazard,      \* nbhs_hazard.ptr of each thread
    th,          \* each thread's place in the code and its locals
    got          \* what nbhs_intern returned for each pointer

vars == <<latest, table, freed, hazards, hazard, th, got>>

-----------------------------------------------------------------------------
\* The j-th place a probe for key k visits in table n.
Place(n, k, j) == (Hash[k] + j) % Cap(n)

\* nbhs_raw_insert into a table's data: the first empty place of the probe.
RawInsert(data, v) ==
    LET free == {j \in 0 .. Cap(0) - 1 : data[Place(0, Key[v], j)] = Empty}
        j == CHOOSE j \in free : \A m \in free : j <= m
    IN  [data EXCEPT ![Place(0, Key[v], j)] = Final(v)]

Blank(n) == [data |-> [i \in 0 .. Cap(n) - 1 |-> Empty],
             prev |-> NoTable, moved |-> 0, move_done |-> 0, count |-> 0]

\* The data after the first n raw inserts.
Inserts[n \in 0 .. Len(Preloaded)] ==
    IF n = 0 THEN Blank(0).data ELSE RawInsert(Inserts[n - 1], Preloaded[n])

\* The table nbhs_alloc makes, after the raw inserts.
Loaded == [Blank(0) EXCEPT !.data = Inserts[Len(Preloaded)], !.count = Len(Preloaded)]

\* A thread outside nbhs_intern.  The locals of nbhs_intern: val, latest,
\* prev, the batch lo .. hi-1, its entry at.  Of nbhs_raw_intern: v (its val), cur (its
\* latest), slot, i (how far its probe is), result.  Of the look-up in the
\* previous table: curr, j, old.  Of nbhs_hazard_access: ha (its step), seen.
Outside == [pc |-> "outside", val |-> Nil, latest |-> NoTable, prev |-> NoTable,
            lo |-> 0, hi |-> 0, at |-> 0, left |-> <<>>,
            v |-> Nil, cur |-> NoTable, slot |-> 0, i |-> 0,
            result |-> Nil, curr |-> NoTable, j |-> 0, old |-> Nil,
            ha |-> "load", seen |-> NoTable]

Init ==
    /\ latest = 0
    /\ table = [n \in Tables |-> IF n = 0 THEN Loaded ELSE Blank(n)]
    /\ freed = {}
    /\ hazards = <<>>
    /\ hazard = [t \in Threads |-> [s \in Slots |-> NoTable]]
    /\ th = [t \in Threads |-> Outside]
    /\ got = [v \in Vals |-> IF v \in Interned THEN v ELSE Nil]

-----------------------------------------------------------------------------
(* nbhs_hazard_access: load the reference, publish what was loaded, load again *)
(* and go round until both loads agree.                                        *)

HazardAccess(t, ref, slot, var, next) ==
    /\ \/ /\ th[t].ha = "load"
          /\ th' = [th EXCEPT ![t].ha = "mark", ![t].seen = ref]
          /\ UNCHANGED hazard
       \/ /\ th[t].ha = "mark"
          /\ hazard' = [hazard EXCEPT ![t][slot] = th[t].seen]
          /\ th' = [th EXCEPT ![t].ha = "check"]
       \/ /\ th[t].ha = "check" /\ th[t].seen # ref
          /\ th' = [th EXCEPT ![t].ha = "mark", ![t].seen = ref]
          /\ UNCHANGED hazard
       \/ /\ th[t].ha = "check" /\ th[t].seen = ref
          /\ th' = [th EXCEPT ![t].ha = "load", ![t].seen = NoTable,
                              ![t][var] = ref, ![t].pc = next]
          /\ UNCHANGED hazard
    /\ UNCHANGED <<latest, table, freed, hazards, got>>

-----------------------------------------------------------------------------
(* nbhs_intern: the call, its share of a migration, and the detach.            *)

Begin(t) ==
    /\ th[t].pc = "outside"
    /\ \E n \in DOMAIN Calls[t] :
         /\ got[Calls[t][n]] = Nil /\ \A m \in 1 .. n - 1 : got[Calls[t][m]] # Nil
         /\ th' = [th EXCEPT ![t].val = Calls[t][n], ![t].pc =
                       IF Contains(hazards, t) THEN "latest" ELSE "register"]
    /\ UNCHANGED <<latest, table, freed, hazards, hazard, got>>

\* A thread's first call pushes its hazard entry on the list.
Register(t) ==
    /\ th[t].pc = "register"
    /\ hazards' = <<t>> \o hazards
    /\ th' = [th EXCEPT ![t].pc = "latest"]
    /\ UNCHANGED <<latest, table, freed, hazard, got>>

AccessLatest(t) ==
    /\ th[t].pc = "latest"
    /\ HazardAccess(t, latest, 0, "latest", "prev")

AccessPrev(t) ==
    /\ th[t].pc = "prev"
    /\ HazardAccess(t, table[th[t].latest].prev, 1, "prev", "look")

\* Load prev->moved; all of it claimed already means there is nothing to do.
LookMoved(t) ==
    LET p == th[t].prev IN
    /\ th[t].pc = "look"
    /\ th' = IF p = NoTable \/ table[p].moved = Cap(p)
             THEN [th EXCEPT ![t].pc = "skip"]
             ELSE [th EXCEPT ![t].pc = "claim", ![t].lo = table[p].moved]
    /\ UNCHANGED <<latest, table, freed, hazards, hazard, got>>

\* Mutant of ClaimBatch: a CAS that failed is tried again without loading the counter.
MutClaimStale(t) ==
    LET p == th[t].prev
        lo == th[t].lo
        hi == IF lo + Batch > Cap(p) THEN Cap(p) ELSE lo + Batch
    IN
    /\ th[t].pc = "claim" /\ table[p].moved = lo
    /\ table' = [table EXCEPT ![p].moved = hi]
    /\ th' = [th EXCEPT ![t].pc = "copy", ![t].hi = hi, ![t].at = lo]
    /\ UNCHANGED <<latest, freed, hazards, hazard, got>>

\* CAS moved from lo to the end of the batch, or load it again.
ClaimBatch(t) ==
    LET p == th[t].prev
        lo == th[t].lo
        hi == IF lo + Batch > Cap(p) THEN Cap(p) ELSE lo + Batch
    IN
    /\ th[t].pc = "claim"
    /\ IF table[p].moved = lo
       THEN /\ table' = [table EXCEPT ![p].moved = hi]
            /\ th' = [th EXCEPT ![t].pc = "copy", ![t].hi = hi, ![t].at = lo]
       ELSE /\ th' = [th EXCEPT ![t].pc = "look"]
            /\ UNCHANGED table
    /\ UNCHANGED <<latest, freed, hazards, hazard, got>>
\* The record of a thread that enters nbhs_raw_intern(cur, v, slot).
Enter(r, cur, v, slot) ==
    [r EXCEPT !.pc = "grow", !.cur = cur, !.v = v, !.slot = slot,
              !.i = 0, !.result = Nil]

\* Copy one entry of the batch up, once it is not reserved.
CopyEntry(t) ==
    LET r == th[t]
        e == table[r.prev].data[r.at]
    IN
    /\ r.pc = "copy" /\ r.at < r.hi /\ ~e.reserved
    /\ th' = [th EXCEPT ![t] = IF e = Empty THEN [r EXCEPT !.at = r.at + 1]
                               ELSE Enter(r, r.latest, e.p, 2)]
    /\ UNCHANGED <<latest, table, freed, hazards, hazard, got>>

\* Mutant of CountMoved: the table is detached when all of it is claimed.
MutCountMoved(t) ==
    LET r == th[t] IN
    /\ r.pc = "copy" /\ r.at = r.hi
    /\ table' = [table EXCEPT ![r.prev].move_done = @ + (r.hi - r.lo)]
    /\ th' = [th EXCEPT ![t].pc = IF table[r.prev].moved = Cap(r.prev)
                                  THEN "detach" ELSE "skip"]
    /\ UNCHANGED <<latest, freed, hazards, hazard, got>>

\* Batch done: whoever completes the count detaches the table.
CountMoved(t) ==
    LET r == th[t] IN
    /\ r.pc = "copy" /\ r.at = r.hi
    /\ table' = [table EXCEPT ![r.prev].move_done = @ + (r.hi - r.lo)]
    /\ th' = [th EXCEPT ![t].pc = IF table'[r.prev].move_done = Cap(r.prev)
                                  THEN "detach" ELSE "skip"]
    /\ UNCHANGED <<latest, freed, hazards, hazard, got>>

\* latest->prev = NULL.
Detach(t) ==
    /\ th[t].pc = "detach"
    /\ table' = [table EXCEPT ![th[t].latest].prev = NoTable]
    /\ th' = [th EXCEPT ![t].pc = "scan"]
    /\ UNCHANGED <<latest, freed, hazards, hazard, got>>

\* Walk the hazard list as it was when its head was read (`left`), slot by slot (`at`)
\* but for this thread's own entry: stay on a hazard that names prev.
LoadList(t) ==
    /\ th[t].pc = "scan"
    /\ th' = [th EXCEPT ![t].pc = "wait_hazards", ![t].at = 0, ![t].left = hazards]
    /\ UNCHANGED <<latest, table, freed, hazards, hazard, got>>

\* Mutant of WaitHazard: the hazards are passed without waiting.
MutNoWait(t) ==
    LET r == th[t] IN
    /\ r.pc = "wait_hazards" /\ r.left # <<>>
    /\ th' = [th EXCEPT ![t].left = Tail(@)]
    /\ UNCHANGED <<latest, table, freed, hazards, hazard, got>>

WaitHazard(t) ==
    LET r == th[t]
        u == Head(r.left)
    IN
    /\ r.pc = "wait_hazards" /\ r.left # <<>>
    /\ u = t \/ hazard[u][r.at] # r.prev
    /\ th' = [th EXCEPT ![t] = IF u = t \/ r.at = 4 THEN [r EXCEPT !.left = Tail(@), !.at = 0]
                                                    ELSE [r EXCEPT !.at = @ + 1]]
    /\ UNCHANGED <<latest, table, freed, hazards, hazard, got>>

FreePrev(t) ==
    /\ th[t].pc = "wait_hazards" /\ th[t].left = <<>>
    /\ freed' = freed \cup {th[t].prev}
    /\ th' = [th EXCEPT ![t].pc = "skip"]
    /\ UNCHANGED <<latest, table, hazards, hazard, got>>

\* skip: the hazard on prev goes, and the value itself is interned.
Skip(t) ==
    LET r == [th[t] EXCEPT !.prev = NoTable, !.lo = 0, !.hi = 0, !.at = 0] IN
    /\ th[t].pc = "skip"
    /\ hazard' = [hazard EXCEPT ![t][1] = NoTable]
    /\ th' = [th EXCEPT ![t] = Enter(r, r.latest, r.val, 0)]
    /\ UNCHANGED <<latest, table, freed, hazards, got>>

-----------------------------------------------------------------------------
(* nbhs_raw_intern: resize, probe, reserve, look in the previous table, commit, *)
(* and start again if `latest` has moved on.                                    *)

\* Leaving with w: the copying loop goes on, or nbhs_intern returns w.
Leave(t, w) ==
    IF th[t].slot = 2
    THEN /\ th' = [th EXCEPT ![t] = [Enter(th[t], NoTable, Nil, 0) EXCEPT
                                         !.pc = "copy", !.at = @ + 1, !.curr = NoTable]]
         /\ UNCHANGED got
    ELSE /\ got' = [got EXCEPT ![th[t].val] = w]
         /\ th' = [th EXCEPT ![t] = Outside]

\* Mutant of Grow: a table is resized even while its own migration goes on.
MutGrow(t) ==
    LET r == th[t] IN
    /\ r.pc = "grow"
    /\ th' = [th EXCEPT ![t].pc =
                  IF table[r.cur].count >= Cap(r.cur) \div 2 THEN "swap" ELSE "probe"]
    /\ UNCHANGED <<latest, table, freed, hazards, hazard, got>>

\* At 50% load, if no migration is going on.  (The count only grows and prev
\* only becomes NULL, so reading both at once decides as reading them in turn.)
Grow(t) ==
    LET r == th[t] IN
    /\ r.pc = "grow"
    /\ th' = [th EXCEPT ![t].pc =
                  IF /\ table[r.cur].count >= Cap(r.cur) \div 2
                     /\ table[r.cur].prev = NoTable
                  THEN "swap" ELSE "probe"]
    /\ UNCHANGED <<latest, table, freed, hazards, hazard, got>>

\* The CAS of hs->latest: the new table, or on failure whatever was there.  (Here the
\* bound MaxTables is.)
SwapLatest(t) ==
    LET c == th[t].cur IN
    /\ th[t].pc = "swap" /\ (latest = c => c + 1 \in Tables)
    /\ IF latest = c
       THEN /\ latest' = c + 1
            /\ table' = [table EXCEPT ![c + 1] = [Blank(c + 1) EXCEPT !.prev = c]]
       ELSE UNCHANGED <<latest, table>>
    /\ th' = [th EXCEPT ![t].cur = latest', ![t].pc = "hold"]
    /\ UNCHANGED <<freed, hazards, hazard, got>>

Hold(t) ==
    LET r == th[t] IN
    /\ r.pc = "hold"
    /\ hazard' = [hazard EXCEPT ![t][r.slot] = r.cur]
    /\ th' = [th EXCEPT ![t].pc = "probe"]
    /\ UNCHANGED <<latest, table, freed, hazards, got>>

\* The word this thread's probe is at.
Here(t) == table[th[t].cur].data[Place(th[t].cur, Key[th[t].v], th[t].i)]

\* nbhs_try_entry on e, not empty: a match returns at once, or once it is no
\* longer reserved; anything else moves the probe on, to the end of the round.
TryEntry(t, e) ==
    IF Key[e.p] # Key[th[t].v]
    THEN /\ UNCHANGED got
         /\ th' = IF th[t].i + 1 = Cap(th[t].cur)
                  THEN [th EXCEPT ![t].pc = "again"]
                  ELSE [th EXCEPT ![t].pc = "probe", ![t].i = @ + 1]
    ELSE IF e.reserved
         THEN th' = [th EXCEPT ![t].pc = "wait"] /\ UNCHANGED got
         ELSE Leave(t, e.p)

Probe(t) ==
    /\ th[t].pc = "probe"
    /\ IF Here(t) = Empty
       THEN th' = [th EXCEPT ![t].pc = "reserve"] /\ UNCHANGED got
       ELSE TryEntry(t, Here(t))
    /\ UNCHANGED <<latest, table, freed, hazards, hazard>>

\* The CAS of an empty word to the reserved form; on failure, try what is there.
Reserve(t) ==
    LET r == th[t] IN
    /\ r.pc = "reserve"
    /\ IF Here(t) = Empty
       THEN /\ table' = [table EXCEPT ![r.cur].data[Place(r.cur, Key[r.v], r.i)]
                                          = Reserved(r.v)]
            /\ th' = [th EXCEPT ![t].pc = "older"]
            /\ UNCHANGED got
       ELSE TryEntry(t, Here(t)) /\ UNCHANGED table
    /\ UNCHANGED <<latest, freed, hazards, hazard>>

WaitEntry(t) ==
    /\ th[t].pc = "wait" /\ ~Here(t).reserved
    /\ Leave(t, Here(t).p)
    /\ UNCHANGED <<latest, table, freed, hazards, hazard>>

AccessOlder(t) ==
    LET r == th[t] IN
    /\ r.pc = "older"
    /\ HazardAccess(t, table[r.cur].prev, r.slot + 1, "curr", "lookup")

\* Mutant of Lookup: the previous table is never searched.
MutLookup(t) ==
    /\ th[t].pc = "lookup"
    /\ th' = [th EXCEPT ![t].pc = IF th[t].curr = NoTable THEN "count" ELSE "unhold"]
    /\ UNCHANGED <<latest, table, freed, hazards, hazard, got>>

\* nbhs_raw_lookup in the previous table, if there is one.  It waits on a
\* reserved match as the probe does, and an empty word ends it.
Lookup(t) ==
    LET r == th[t]
        e == table[r.curr].data[Place(r.curr, Key[r.v], r.j)]
    IN
    /\ r.pc = "lookup"
    /\ \/ /\ r.curr = NoTable
          /\ th' = [th EXCEPT ![t].pc = "count"]
       \/ /\ r.curr # NoTable /\ (e = Empty \/ r.j = Cap(r.curr))
          /\ th' = [th EXCEPT ![t].pc = "unhold"]
       \/ /\ r.curr # NoTable /\ e # Empty /\ r.j < Cap(r.curr)
          /\ IF Key[e.p] # Key[r.v]
             THEN th' = [th EXCEPT ![t].j = @ + 1]
             ELSE /\ ~e.reserved
                  /\ th' = [th EXCEPT ![t].old = e.p, ![t].pc = "unhold"]
    /\ UNCHANGED <<latest, table, freed, hazards, hazard, got>>

Unhold(t) ==
    /\ th[t].pc = "unhold"
    /\ hazard' = [hazard EXCEPT ![t][th[t].slot + 1] = NoTable]
    /\ th' = [th EXCEPT ![t].pc = "count", ![t].curr = NoTable, ![t].j = 0]
    /\ UNCHANGED <<latest, table, freed, hazards, got>>

Count(t) ==
    /\ th[t].pc = "count"
    /\ table' = [table EXCEPT ![th[t].cur].count = @ + 1]
    /\ th' = [th EXCEPT ![t].pc = "commit"]
    /\ UNCHANGED <<latest, freed, hazards, hazard, got>>

\* The reservation becomes the old pointer for the value, or the value.
Commit(t) ==
    LET r == th[t]
        w == IF r.old # Nil THEN r.old ELSE r.v
    IN
    /\ r.pc = "commit"
    /\ table' = [table EXCEPT ![r.cur].data[Place(r.cur, Key[r.v], r.i)] = Final(w)]
    /\ th' = [th EXCEPT ![t].result = w, ![t].old = Nil, ![t].pc = "again"]
    /\ UNCHANGED <<latest, freed, hazards, hazard, got>>

AccessAgain(t) ==
    /\ th[t].pc = "again"
    /\ HazardAccess(t, latest, 4, "curr", "settle")

\* Return if the table is still the latest one, else move the hazard over to
\* the one that is (in two stores, this slot first) and go round again.
Settle(t) ==
    LET r == th[t] IN
    /\ r.pc = "settle"
    /\ IF r.cur = r.curr /\ r.result # Nil
       THEN /\ hazard' = [hazard EXCEPT ![t][r.slot] = NoTable, ![t][4] = NoTable]
            /\ Leave(t, r.result)
       ELSE /\ hazard' = [hazard EXCEPT ![t][r.slot] = r.curr, ![t][4] = NoTable]
            /\ th' = [th EXCEPT ![t].cur = r.curr, ![t].curr = NoTable,
                                ![t].i = 0, ![t].pc = "probe"]
            /\ UNCHANGED got
    /\ UNCHANGED <<latest, table, freed, hazards>>

-----------------------------------------------------------------------------
Step(t) ==
    \/ Register(t) \/ AccessLatest(t) \/ AccessPrev(t)
    \/ LookMoved(t) \/ ClaimBatch(t) \/ CopyEntry(t) \/ CountMoved(t)
    \/ Detach(t) \/ LoadList(t) \/ WaitHazard(t) \/ FreePrev(t) \/ Skip(t)
    \/ Grow(t) \/ SwapLatest(t) \/ Hold(t) \/ Probe(t) \/ Reserve(t)
    \/ WaitEntry(t) \/ AccessOlder(t) \/ Lookup(t) \/ Unhold(t)
    \/ Count(t) \/ Commit(t) \/ AccessAgain(t) \/ Settle(t)

Next == \E t \in Threads : Begin(t) \/ Step(t)

Spec == Init /\ [][Next]_vars

\* The operating system runs every thread that is inside a call; nothing makes
\* a thread call again.
FairSpec == Spec /\ \A t \in Threads : WF_vars(Step(t))

-----------------------------------------------------------------------------
TypeOK ==
    /\ latest \in Tables /\ freed \subseteq Tables
    /\ \A n \in Tables :
         /\ table[n].data \in [0 .. Cap(n) - 1 -> Entry]
         /\ table[n].prev \in Tables \cup {NoTable}
         /\ {table[n].moved, table[n].move_done, table[n].count} \subseteq 0 .. Cap(n)
    /\ hazards \in Seq(Threads)
    /\ hazard \in [Threads -> [Slots -> Tables \cup {NoTable}]]
    /\ got \in [Vals -> Vals \cup {Nil}]
    /\ \A t \in Threads :
         /\ {th[t].val, th[t].v, th[t].result, th[t].old} \subseteq Vals \cup {Nil}
         /\ {th[t].latest, th[t].prev, th[t].cur, th[t].curr, th[t].seen}
                \subseteq Tables \cup {NoTable}

\* Interning is canonical: two calls with equal keys return the same pointer,
\* one with that key, whatever tables they found it in.
OneRepresentative ==
    \A v, w \in Vals : got[v] # Nil /\ got[w] # Nil =>
        (got[v] = got[w] <=> Key[v] = Key[w])

\* The table a thread's next access is to (a hazard access of `prev` reads the
\* table that holds the reference).
Touched(t) ==
    LET r == th[t] IN
    CASE r.pc = "prev" -> {r.latest}
      [] r.pc \in {"look", "claim", "copy"} -> {r.prev} \ {NoTable}
      [] r.pc \in {"grow", "probe", "reserve", "wait", "older", "count", "commit"} -> {r.cur}
      [] r.pc = "lookup" -> {r.curr} \ {NoTable}
      [] OTHER -> {}

\* The hazard pointers do their work: no thread is about to read or write a
\* table that has been freed.
NoUseAfterFree == \A t \in Threads : Touched(t) \cap freed = {}

\* A probe for k in table n meets this entry, or none.
Found(n, k) ==
    LET stop == {j \in 0 .. Cap(n) - 1 :
                   LET e == table[n].data[Place(n, k, j)]
                   IN  e = Empty \/ Key[e.p] = k}
    IN  IF stop = {} THEN Empty
        ELSE table[n].data[Place(n, k, CHOOSE j \in stop : \A m \in stop : j <= m)]

\* Migration loses nothing: what a call has returned for a key is found by a probe
\* of the latest table, or else of the table before it (also when the latest one
\* holds a reservation for that key, whose owner looks there).
NothingLost ==
    \A v \in Vals : got[v] # Nil =>
        LET e == Found(latest, Key[v])
            p == table[latest].prev
        IN  e = Final(got[v]) \/ (/\ e = Empty \/ e.reserved
                                  /\ p # NoTable /\ Found(p, Key[v]) = Final(got[v]))

\* The code's own assertions: a table being migrated has no older one, and no more
\* entries are moved than the table has.
AssertionsHold ==
    \A t \in Threads :
        /\ th[t].pc = "lookup" /\ th[t].curr # NoTable => table[th[t].curr].prev = NoTable
        /\ th[t].pc = "detach" => table[th[t].prev].prev = NoTable
        /\ \A n \in Tables : table[n].move_done <= Cap(n)

\* The detacher t waits for a hazard pointer that a thread left behind when it
\* returned: `return k` does not clear the slot.
WaitsForIdle(t) ==
    /\ th[t].pc = "wait_hazards" /\ th[t].left # <<>>
    /\ LET u == Head(th[t].left)
       IN  th[u].pc = "outside" /\ hazard[u][th[t].at] = th[t].prev

\* Every call returns, or comes to wait for the hazard pointer of a thread that is
\* outside any call (and may stay there).
CallsProgress ==
    \A t \in Threads : (th[t].pc # "outside") ~> (th[t].pc = "outside" \/ WaitsForIdle(t))
===============================================================================

------------------------------ MODULE NbhsProofs ------------------------------
(***************************************************************************)
(* Theorems about Nbhs, for any threads, pointers, keys and hashes, any    *)
(* first table and any size of the batches:                                *)
(*   - the assertions of nbhs.h hold,                                      *)
(*   - who detaches a table is alone with it, and frees it once,           *)
(*   - two threads never use a table that has been freed, and              *)
(*   - while no table fills up under a call that probes again, two threads *)
(*     get one pointer for a key, and migration loses none.                *)
(* A table is migrated at a time: only the latest one has one before it.   *)
(* The batches claimed from that one lie apart, so that what has been      *)
(* counted and what is being copied add up to what has been claimed.  For  *)
(* the pointers: a table that another has replaced is one thread's only,   *)
(* and what has been returned, or may yet be found there, is in the latest *)
(* table or waits to be copied into it (CInv).                             *)
(***************************************************************************)
EXTENDS Nbhs, FiniteSetTheorems, TLAPS

-----------------------------------------------------------------------------
(* The invariant                                                            *)

\* The labels of nbhs_raw_intern, called by the copying loop (slot 2) or for the
\* value of the call (slot 0), and those of the detach.
RawIntern == {"grow", "swap", "hold", "probe", "reserve", "wait", "older", "lookup",
              "unhold", "count", "commit", "again", "settle"}
Detaching == {"detach", "scan", "wait_hazards"}

\* A thread that has a batch of its table `prev` to copy.
Holding(r) == r.pc = "copy" \/ r.slot = 2

IsThread(r) ==
    r = [pc |-> r.pc, val |-> r.val, latest |-> r.latest, prev |-> r.prev, lo |-> r.lo,
         hi |-> r.hi, at |-> r.at, left |-> r.left, v |-> r.v, cur |-> r.cur,
         slot |-> r.slot, i |-> r.i, result |-> r.result, curr |-> r.curr, j |-> r.j,
         old |-> r.old, ha |-> r.ha, seen |-> r.seen]

IsTable(b, n) ==
    /\ b = [data |-> b.data, prev |-> b.prev, moved |-> b.moved,
            move_done |-> b.move_done, count |-> b.count]
    /\ b.moved \in Nat /\ b.move_done \in Nat /\ b.moved <= Cap(n)

\* Only the latest table has one before it, the one it replaced.
Chained(l, tb) == \A n \in Tables : tb[n].prev # NoTable =>
    tb[n].prev \in Tables /\ n = l /\ n = tb[n].prev + 1

\* A thread's tables, when l is the latest one: prev comes before its latest, cur
\* and curr are tables that have been the latest one.
Placed(r, l, tb) ==
    /\ IsThread(r)
    /\ r.slot \in {0, 2} /\ (r.slot = 2 => r.pc \in RawIntern)
    /\ r.pc \in {"outside", "register", "latest", "prev"} => r.prev = NoTable
    /\ r.pc \notin {"outside", "register", "latest"} => r.latest \in Tables /\ r.latest <= l
    /\ r.prev # NoTable => r.prev \in Tables /\ r.latest = r.prev + 1 /\ r.latest <= l
    /\ r.pc \in Detaching \cup {"claim"} \/ Holding(r) => r.prev # NoTable
    /\ r.pc = "claim" => r.lo \in Nat /\ r.lo < Cap(r.prev)
    /\ Holding(r) => r.lo \in Nat /\ r.hi \in Nat /\ r.lo < r.hi /\ r.hi <= tb[r.prev].moved
    /\ r.pc \in RawIntern => r.cur \in Tables /\ r.cur <= l
    /\ r.pc = "swap" => tb[r.cur].prev = NoTable
    /\ r.pc = "lookup" /\ r.curr # NoTable => r.curr \in Tables /\ r.curr < l
    /\ r.pc = "settle" => r.curr \in Tables /\ r.curr <= l

\* Two threads of q do not hold the same entries.
Apart(q) == \A t, u \in Threads :
    t # u /\ Holding(q[t]) /\ Holding(q[u]) /\ q[t].prev = q[u].prev =>
        q[t].hi <= q[u].lo \/ q[u].hi <= q[t].lo

\* The entries of table n that threads of q are copying, and those claimed.
InFlight(q, n) ==
    UNION {q[t].lo .. q[t].hi - 1 : t \in {u \in Threads : Holding(q[u]) /\ q[u].prev = n}}
Counted(q, tb) == \A n \in Tables :
    tb[n].move_done + Cardinality(InFlight(q, n)) = tb[n].moved

\* Who detaches a table is alone with it, after all of it has been moved up.
Alone(q, tb, f) == \A t \in Threads : q[t].pc \in Detaching =>
    /\ tb[q[t].prev].move_done = Cap(q[t].prev) /\ q[t].prev \notin f
    /\ \A u \in Threads : u # t /\ q[u].pc \in Detaching => q[u].prev # q[t].prev

Gone(l, tb, f) == \A n \in f : n \in Tables /\ n < l /\ tb[n].move_done = Cap(n)

IInv ==
    /\ latest \in Tables
    /\ table = [n \in Tables |-> table[n]] /\ \A n \in Tables : IsTable(table[n], n)
    /\ th = [t \in Threads |-> th[t]] /\ \A t \in Threads : Placed(th[t], latest, table)
    /\ Chained(latest, table) /\ Apart(th) /\ Counted(th, table)
    /\ Alone(th, table, freed) /\ Gone(latest, table, freed)

\* A table is detached and freed by one thread, which no other is with: all its
\* entries have been counted as moved, nobody copies from it, nobody else detaches it.
OneDetacher ==
    \A t \in Threads : th[t].pc \in Detaching =>
        /\ th[t].prev \notin freed
        /\ table[th[t].prev].move_done = Cap(th[t].prev)
        /\ \A u \in Threads : u # t /\ th[u].prev = th[t].prev =>
             th[u].pc \notin Detaching /\ ~Holding(th[u])

-----------------------------------------------------------------------------
(* Sizes and entries                                                        *)

LEMMA TableNumbers ==
    /\ MaxTables \in Nat \ {0} /\ NoTable \notin Tables
    /\ \A n \in Tables : n \in Nat /\ n < MaxTables
  BY NbhsAssumption DEF Tables, NoTable

\* A power of two is the number of subsets of a set.
LEMMA CapIsNat ==
    ASSUME NEW n \in Tables
    PROVE  Cap(n) \in Nat /\ Cap(n) > 0
  <1>1. InitExp + n \in Nat
    BY NbhsAssumption, TableNumbers
  <1> DEFINE m == InitExp + n
             S == SUBSET (1 .. m)
  <1>2. IsFiniteSet(S) /\ Cardinality(S) = 2 ^ m
    <2>1. IsFiniteSet(1 .. m) /\ Cardinality(1 .. m) = m
      BY <1>1, FS_Interval
    <2> QED
      BY <2>1, FS_SUBSET
  <1>3. Cardinality(S) \in Nat
    BY <1>2, FS_CardinalityType
  <1>4. Cardinality(S) # 0
    <2>1. {} \in S
      OBVIOUS
    <2> QED
      BY <1>2, <2>1, FS_EmptySet
  <1> QED
    BY <1>2, <1>3, <1>4 DEF Cap

\* A thread's place does not get worse when tables come and entries are claimed.
LEMMA StaysPlaced ==
    ASSUME NEW l \in Nat, NEW l2 \in Nat, l <= l2, NEW tb, NEW tb2, NEW r, Placed(r, l, tb),
           \A n \in Tables : n <= l =>
              /\ tb[n].moved \in Nat /\ tb2[n].moved \in Nat /\ tb[n].moved <= tb2[n].moved
              /\ tb2[n].prev \in {tb[n].prev, NoTable}
    PROVE  Placed(r, l2, tb2)
  <1>1. \A n \in Tables : n \in Nat
    BY TableNumbers
  <1>2. Holding(r) => r.prev \in Tables /\ r.prev <= l
    BY <1>1 DEF Placed
  <1>3. Holding(r) => r.hi <= tb2[r.prev].moved
    BY <1>2 DEF Placed
  <1>4. r.pc = "swap" => tb2[r.cur].prev = NoTable
    BY DEF Placed, RawIntern
  <1> QED
    BY <1>1, <1>3, <1>4 DEF Placed

LEMMA SameHolders ==
    ASSUME NEW q, NEW q2,
           \A t \in Threads : Holding(q2[t]) <=> Holding(q[t]),
           \A t \in Threads : Holding(q[t]) =>
              q2[t].prev = q[t].prev /\ q2[t].lo = q[t].lo /\ q2[t].hi = q[t].hi
    PROVE  /\ \A n : InFlight(q2, n) = InFlight(q, n)
           /\ Apart(q) => Apart(q2)
  <1>1. \A n : {u \in Threads : Holding(q2[u]) /\ q2[u].prev = n}
               = {u \in Threads : Holding(q[u]) /\ q[u].prev = n}
    OBVIOUS
  <1>2. ASSUME NEW n PROVE InFlight(q2, n) = InFlight(q, n)
    <2> DEFINE U == {u \in Threads : Holding(q[u]) /\ q[u].prev = n}
    <2>1. {q2[t].lo .. q2[t].hi - 1 : t \in U} = {q[t].lo .. q[t].hi - 1 : t \in U}
      OBVIOUS
    <2> QED
      BY <1>1, <2>1 DEF InFlight
  <1>3. Apart(q) => Apart(q2)
    BY DEF Apart
  <1> QED
    BY <1>2, <1>3

\* A step that claims and counts no entries; a table may lose the one before it.
SameClaims ==
    /\ table' = [n \in Tables |-> table'[n]]
    /\ \A n \in Tables :
         /\ IsTable(table'[n], n) /\ table'[n].prev \in {table[n].prev, NoTable}
         /\ table'[n].moved = table[n].moved /\ table'[n].move_done = table[n].move_done

\* A step of a thread that leaves the batches alone, and what is claimed and counted.
LEMMA QuietStep ==
    ASSUME IInv, NEW t \in Threads, NEW r, th' = [th EXCEPT ![t] = r],
           UNCHANGED <<latest, freed>>, SameClaims,
           Placed(r, latest, table),
           Holding(r) <=> Holding(th[t]),
           Holding(r) => r.prev = th[t].prev /\ r.lo = th[t].lo /\ r.hi = th[t].hi,
           r.pc \in Detaching => th[t].pc \in Detaching /\ r.prev = th[t].prev
    PROVE  IInv'
  <1> USE DEF SameClaims
  <1>1. latest \in Nat
    BY TableNumbers DEF IInv
  <1>2. th' = [u \in Threads |-> th'[u]] /\ th'[t] = r
        /\ \A u \in Threads : u # t => th'[u] = th[u]
    BY DEF IInv
  <1>3. ASSUME NEW u \in Threads PROVE Placed(th'[u], latest', table')
    <2>1. Placed(th'[u], latest, table)
      BY <1>2 DEF IInv
    <2>2. \A n \in Tables : table[n].moved \in Nat
      BY DEF IInv, IsTable
    <2>3. PICK a, b : a = table' /\ b = th'[u]
      OBVIOUS
    <2>4. Placed(b, latest, a)
      BY <1>1, <2>1, <2>2, <2>3, StaysPlaced
    <2> QED
      BY <2>3, <2>4
  <1>4. Chained(latest', table')
    BY DEF IInv, Chained
  <1>5. /\ \A n : InFlight(th', n) = InFlight(th, n)
        /\ Apart(th')
    <2>1. PICK q2 : q2 = th'
      OBVIOUS
    <2>2. \A u \in Threads : Holding(q2[u]) <=> Holding(th[u])
      BY <1>2, <2>1
    <2>3. \A u \in Threads : Holding(th[u]) =>
             q2[u].prev = th[u].prev /\ q2[u].lo = th[u].lo /\ q2[u].hi = th[u].hi
      BY <1>2, <2>1
    <2>4. /\ \A n : InFlight(q2, n) = InFlight(th, n)
          /\ Apart(th) => Apart(q2)
      BY <2>2, <2>3, SameHolders
    <2> QED
      BY <2>1, <2>4 DEF IInv
  <1>6. Counted(th', table')
    BY <1>5 DEF Counted, IInv
  <1>7. Alone(th', table', freed')
    BY <1>2, <1>3 DEF Alone, IInv, Placed
  <1>8. Gone(latest', table', freed')
    BY DEF IInv, Gone
  <1> QED
    BY <1>2, <1>3, <1>4, <1>5, <1>6, <1>7, <1>8 DEF IInv

-----------------------------------------------------------------------------
(* The steps of a thread that neither claim nor count entries               *)

LEMMA NoClaims ==
    ASSUME IInv, UNCHANGED table
    PROVE  SameClaims
  BY DEF IInv, SameClaims

\* Loads and stores of a hazard access, up to the last load.
LEMMA AccessGoesOn ==
    ASSUME IInv, NEW t \in Threads, NEW a, NEW b,
           th' = [th EXCEPT ![t] = [th[t] EXCEPT !.ha = a, !.seen = b]],
           UNCHANGED <<latest, freed>>, SameClaims
    PROVE  IInv'
  <1>1. Placed(th[t], latest, table)
    BY DEF IInv
  <1>2. PICK r : r = [th[t] EXCEPT !.ha = a, !.seen = b]
    OBVIOUS
  <1>3. /\ IsThread(r) /\ r.pc = th[t].pc /\ r.slot = th[t].slot /\ r.latest = th[t].latest
        /\ r.prev = th[t].prev /\ r.lo = th[t].lo /\ r.hi = th[t].hi /\ r.cur = th[t].cur
        /\ r.curr = th[t].curr
    BY <1>1, <1>2 DEF Placed, IsThread
  <1>4. Placed(r, latest, table)
    BY <1>1, <1>3 DEF Placed, Holding
  <1> QED
    BY <1>2, <1>3, <1>4, QuietStep DEF Holding

\* A call returns, or its copy of an entry does.
LEMMA LeaveKeeps ==
    ASSUME IInv, NEW t \in Threads, NEW w, Leave(t, w), th[t].pc \in RawIntern,
           UNCHANGED <<latest, freed>>, SameClaims
    PROVE  IInv'
  <1>1. Placed(th[t], latest, table)
    BY DEF IInv
  <1>2. CASE th[t].slot = 2
    <2>1. PICK r : r = [Enter(th[t], NoTable, Nil, 0)
                          EXCEPT !.pc = "copy", !.at = @ + 1, !.curr = NoTable]
      OBVIOUS
    <2>2. th' = [th EXCEPT ![t] = r]
      BY <1>2, <2>1 DEF Leave
    <2>3. /\ IsThread(r) /\ r.pc = "copy" /\ r.slot = 0 /\ r.latest = th[t].latest
          /\ r.prev = th[t].prev /\ r.lo = th[t].lo /\ r.hi = th[t].hi
      BY <1>1, <2>1 DEF Placed, IsThread, Enter
    <2>4. Holding(r) /\ Holding(th[t])
      BY <1>2, <2>3 DEF Holding
    <2>5. Placed(r, latest, table)
      BY <1>1, <2>3, <2>4 DEF Placed, RawIntern, Detaching
    <2> QED
      BY <2>2, <2>3, <2>4, <2>5, QuietStep DEF Detaching
  <1>3. CASE th[t].slot # 2
    <2>1. th' = [th EXCEPT ![t] = Outside]
      BY <1>3 DEF Leave
    <2>2. PICK r : r = Outside
      OBVIOUS
    <2>3. IsThread(r) /\ r.pc = "outside" /\ r.slot = 0 /\ r.prev = NoTable
      BY <2>2 DEF Outside, IsThread
    <2>4. ~Holding(r) /\ ~Holding(th[t])
      BY <1>1, <1>3, <2>3 DEF Holding, RawIntern
    <2>5. Placed(r, latest, table)
      BY <2>3, <2>4 DEF Placed, RawIntern, Detaching
    <2> QED
      BY <2>1, <2>2, <2>3, <2>4, <2>5, QuietStep DEF Detaching
  <1> QED
    BY <1>2, <1>3

\* Within nbhs_raw_intern a thread goes from one label to another.
LEMMA RawGoesOn ==
    ASSUME IInv, NEW t \in Threads, NEW r, th' = [th EXCEPT ![t] = r], IsThread(r),
           UNCHANGED <<latest, freed>>, SameClaims,
           th[t].pc \in RawIntern, r.pc \in RawIntern, r.slot = th[t].slot,
           r.latest = th[t].latest, r.prev = th[t].prev, r.lo = th[t].lo, r.hi = th[t].hi,
           r.cur \in Tables, r.cur <= latest,
           r.pc = "swap" => table[r.cur].prev = NoTable,
           r.pc = "lookup" /\ r.curr # NoTable => r.curr \in Tables /\ r.curr < latest,
           r.pc = "settle" => r.curr \in Tables /\ r.curr <= latest
    PROVE  IInv'
  <1>1. Placed(th[t], latest, table)
    BY DEF IInv
  <1>2. /\ r.pc \notin Detaching \cup {"copy", "claim"} /\ th[t].pc # "copy"
        /\ r.pc \notin {"outside", "register", "latest", "prev"}
    BY DEF RawIntern, Detaching
  <1>3. Holding(r) <=> Holding(th[t])
    BY <1>2 DEF Holding
  <1>4. th[t].pc \notin {"outside", "register", "latest"}
    BY DEF RawIntern
  <1>5. Placed(r, latest, table)
    BY <1>1, <1>2, <1>3, <1>4 DEF Placed
  <1> QED
    BY <1>2, <1>3, <1>5, QuietStep

LEMMA TryEntryKeeps ==
    ASSUME IInv, NEW t \in Threads, NEW e, TryEntry(t, e), th[t].pc \in {"probe", "reserve"},
           UNCHANGED <<latest, freed>>, SameClaims
    PROVE  IInv'
  <1>1. /\ IsThread(th[t]) /\ th[t].pc \in RawIntern
        /\ th[t].cur \in Tables /\ th[t].cur <= latest
    BY DEF IInv, Placed, RawIntern
  <1>2. CASE Leave(t, e.p)
    BY <1>1, <1>2, LeaveKeeps
  <1>3. CASE ~Leave(t, e.p)
    <2>1. PICK r : r = th'[t]
      OBVIOUS
    <2>2. /\ th' = [th EXCEPT ![t] = r]
          /\ \/ r = [th[t] EXCEPT !.pc = "again"] \/ r = [th[t] EXCEPT !.pc = "wait"]
             \/ r = [th[t] EXCEPT !.pc = "probe", !.i = @ + 1]
      BY <1>1, <1>3, <2>1 DEF TryEntry, IInv, IsThread
    <2>3. /\ IsThread(r) /\ r.pc \in {"again", "probe", "wait"} /\ r.slot = th[t].slot
          /\ r.latest = th[t].latest
          /\ r.prev = th[t].prev /\ r.lo = th[t].lo /\ r.hi = th[t].hi /\ r.cur = th[t].cur
      <3>1. CASE r = [th[t] EXCEPT !.pc = "again"]
        BY <1>1, <3>1 DEF IsThread
      <3>2. CASE r = [th[t] EXCEPT !.pc = "wait"]
        BY <1>1, <3>2 DEF IsThread
      <3>3. CASE r = [th[t] EXCEPT !.pc = "probe", !.i = @ + 1]
        BY <1>1, <3>3 DEF IsThread
      <3> QED
        BY <2>2, <3>1, <3>2, <3>3
    <2>4. r.pc \in RawIntern /\ r.pc \notin {"swap", "lookup", "settle"}
      BY <2>3 DEF RawIntern
    <2> QED
      BY <1>1, <2>2, <2>3, <2>4, RawGoesOn
  <1> QED
    BY <1>2, <1>3

\* nbhs_intern up to its batch, the copying loop between two entries, the scan.
LEMMA OutsideSteps ==
    ASSUME IInv, NEW t \in Threads,
           \/ Begin(t) \/ Register(t) \/ LookMoved(t) \/ CopyEntry(t)
           \/ LoadList(t) \/ WaitHazard(t) \/ Skip(t)
    PROVE  IInv'
  <1> USE DEF RawIntern, Detaching, Holding
  <1>1. /\ Placed(th[t], latest, table) /\ IsThread(th[t])
        /\ th = [u \in Threads |-> th[u]]
    BY DEF IInv, Placed
  <1>2. PICK r : r = th'[t]
    OBVIOUS
  <1>3. CASE Begin(t)
    <2>1. /\ th[t].pc = "outside" /\ UNCHANGED <<latest, table, freed>>
          /\ \E x : \E p \in {"latest", "register"} :
               th' = [th EXCEPT ![t].val = x, ![t].pc = p]
      BY <1>3 DEF Begin
    <2>2. PICK x, p : p \in {"latest", "register"} /\ th' = [th EXCEPT ![t].val = x, ![t].pc = p]
      BY <2>1
    <2>3. th' = [th EXCEPT ![t] = r] /\ r = [th[t] EXCEPT !.val = x, !.pc = p]
      BY <1>1, <1>2, <2>2
    <2>4. /\ IsThread(r) /\ r.pc = p /\ r.slot = th[t].slot /\ r.prev = th[t].prev
          /\ r.latest = th[t].latest
      BY <1>1, <2>3 DEF IsThread
    <2>5. Placed(r, latest, table)
      BY <1>1, <2>1, <2>2, <2>4 DEF Placed
    <2> QED
      BY <1>1, <2>1, <2>2, <2>3, <2>4, <2>5, QuietStep, NoClaims DEF Placed
  <1>4. CASE Register(t)
    <2>1. /\ th[t].pc = "register" /\ UNCHANGED <<latest, table, freed>>
          /\ th' = [th EXCEPT ![t] = r] /\ r = [th[t] EXCEPT !.pc = "latest"]
      BY <1>1, <1>2, <1>4 DEF Register
    <2>2. /\ IsThread(r) /\ r.pc = "latest" /\ r.slot = th[t].slot /\ r.prev = th[t].prev
          /\ r.latest = th[t].latest
      BY <1>1, <2>1 DEF IsThread
    <2>3. Placed(r, latest, table)
      BY <1>1, <2>1, <2>2 DEF Placed
    <2> QED
      BY <1>1, <2>1, <2>2, <2>3, QuietStep, NoClaims DEF Placed
  <1>5. CASE LookMoved(t)
    <2>0. PICK p, m : p = th[t].prev /\ m = table[p].moved
      OBVIOUS
    <2>1. /\ th[t].pc = "look" /\ UNCHANGED <<latest, table, freed>> /\ th' = [th EXCEPT ![t] = r]
          /\ \/ r = [th[t] EXCEPT !.pc = "skip"]
             \/ r = [th[t] EXCEPT !.pc = "claim", !.lo = m] /\ p # NoTable /\ m # Cap(p)
      BY <2>0, <1>1, <1>2, <1>5 DEF LookMoved
    <2>2. /\ IsThread(r) /\ r.slot = th[t].slot /\ r.prev = th[t].prev /\ r.latest = th[t].latest
          /\ \/ r.pc = "skip"
             \/ r.pc = "claim" /\ r.lo = m /\ p # NoTable /\ m # Cap(p)
      <3>1. CASE r = [th[t] EXCEPT !.pc = "skip"]
        BY <1>1, <3>1 DEF IsThread
      <3>2. CASE r = [th[t] EXCEPT !.pc = "claim", !.lo = m] /\ p # NoTable /\ m # Cap(p)
        BY <1>1, <3>2 DEF IsThread
      <3> QED
        BY <2>1, <3>1, <3>2
    <2>3. r.pc = "claim" => r.lo \in Nat /\ r.lo < Cap(r.prev)
      <3>1. r.prev # NoTable => r.prev \in Tables
        BY <1>1, <2>2 DEF Placed
      <3>2. r.prev \in Tables =>
              /\ table[r.prev].moved \in Nat /\ table[r.prev].moved <= Cap(r.prev)
              /\ Cap(r.prev) \in Nat
        BY CapIsNat DEF IInv, IsTable
      <3> QED
        BY <2>0, <2>2, <3>1, <3>2
    <2>4. Placed(r, latest, table)
      <3>1. /\ th[t].slot = 0 /\ r.latest \in Tables /\ r.latest <= latest
            /\ r.prev # NoTable => r.prev \in Tables /\ r.latest = r.prev + 1
        BY <1>1, <2>1, <2>2 DEF Placed
      <3> QED
        BY <2>0, <2>2, <2>3, <3>1 DEF Placed
    <2> QED
      BY <1>1, <2>1, <2>2, <2>4, QuietStep, NoClaims DEF Placed
  <1>6. CASE CopyEntry(t)
    <2>1. PICK x : /\ th[t].pc = "copy" /\ UNCHANGED <<latest, table, freed>>
                   /\ th' = [th EXCEPT ![t] = r]
                   /\ r = [th[t] EXCEPT !.at = @ + 1] \/ r = Enter(th[t], th[t].latest, x, 2)
      BY <1>1, <1>2, <1>6 DEF CopyEntry
    <2>2. /\ IsThread(r) /\ r.prev = th[t].prev /\ r.latest = th[t].latest
          /\ r.lo = th[t].lo /\ r.hi = th[t].hi
          /\ \/ r.pc = "copy" /\ r.slot = th[t].slot
             \/ r.pc = "grow" /\ r.slot = 2 /\ r.cur = th[t].latest
      <3>1. CASE r = [th[t] EXCEPT !.at = @ + 1]
        BY <1>1, <2>1, <3>1 DEF IsThread
      <3>2. CASE r = Enter(th[t], th[t].latest, x, 2)
        BY <1>1, <3>2 DEF IsThread, Enter
      <3> QED
        BY <2>1, <3>1, <3>2
    <2>3. /\ th[t].slot = 0 /\ r.prev \in Tables /\ r.latest = r.prev + 1
          /\ r.latest \in Tables /\ r.latest <= latest /\ r.prev # NoTable
          /\ r.lo \in Nat /\ r.hi \in Nat /\ r.lo < r.hi /\ r.hi <= table[r.prev].moved
      BY <1>1, <2>1, <2>2 DEF Placed
    <2>4. Placed(r, latest, table)
      BY <2>2, <2>3 DEF Placed
    <2> QED
      BY <1>1, <2>1, <2>2, <2>4, QuietStep, NoClaims DEF Placed
  <1>7. CASE LoadList(t) \/ WaitHazard(t)
    <2>1. PICK left, at :
            /\ th[t].pc \in {"scan", "wait_hazards"} /\ UNCHANGED <<latest, table, freed>>
            /\ th' = [th EXCEPT ![t] = r]
            /\ r = [th[t] EXCEPT !.pc = "wait_hazards", !.left = left, !.at = at]
      <3>1. CASE LoadList(t)
        <4>1. PICK left : left = hazards
          OBVIOUS
        <4>2. r = [th[t] EXCEPT !.pc = "wait_hazards", !.left = left, !.at = 0]
          BY <1>1, <1>2, <3>1, <4>1 DEF LoadList, IsThread
        <4>3. /\ th[t].pc = "scan" /\ UNCHANGED <<latest, table, freed>>
              /\ th' = [th EXCEPT ![t] = r]
          BY <1>1, <1>2, <3>1 DEF LoadList
        <4> QED
          BY <4>2, <4>3
      <3>2. CASE WaitHazard(t)
        <4>1. CASE r = [th[t] EXCEPT !.left = Tail(@), !.at = 0]
          <5>1. r = [th[t] EXCEPT !.pc = "wait_hazards", !.left = Tail(th[t].left), !.at = 0]
            BY <1>1, <3>2, <4>1 DEF WaitHazard, IsThread
          <5> QED
            BY <1>1, <1>2, <3>2, <5>1, ZenonT(60) DEF WaitHazard
        <4>2. CASE r = [th[t] EXCEPT !.at = @ + 1]
          <5>1. r = [th[t] EXCEPT !.pc = "wait_hazards", !.left = th[t].left, !.at = th[t].at + 1]
            BY <1>1, <3>2, <4>2 DEF WaitHazard, IsThread
          <5> QED
            BY <1>1, <1>2, <3>2, <5>1, ZenonT(60) DEF WaitHazard
        <4> QED
          BY <1>1, <1>2, <3>2, <4>1, <4>2 DEF WaitHazard
      <3> QED
        BY <1>7, <3>1, <3>2
    <2>2. /\ IsThread(r) /\ r.pc = "wait_hazards" /\ r.slot = th[t].slot /\ r.prev = th[t].prev
          /\ r.latest = th[t].latest
      BY <1>1, <2>1 DEF IsThread
    <2>3. Placed(r, latest, table)
      BY <1>1, <2>1, <2>2 DEF Placed
    <2> QED
      BY <1>1, <2>1, <2>2, <2>3, QuietStep, NoClaims DEF Placed
  <1>8. CASE Skip(t)
    <2>0. PICK q : q = [th[t] EXCEPT !.prev = NoTable, !.lo = 0, !.hi = 0, !.at = 0]
      OBVIOUS
    <2>1. /\ th[t].pc = "skip" /\ UNCHANGED <<latest, table, freed>>
          /\ th' = [th EXCEPT ![t] = r] /\ r = Enter(q, q.latest, q.val, 0)
      BY <2>0, <1>1, <1>2, <1>8 DEF Skip
    <2>2. IsThread(q) /\ q.prev = NoTable /\ q.latest = th[t].latest
      BY <1>1, <2>0 DEF IsThread
    <2>3. /\ IsThread(r) /\ r.prev = NoTable /\ r.latest = th[t].latest /\ r.slot = 0
          /\ r.pc = "grow" /\ r.cur = th[t].latest
      BY <2>1, <2>2 DEF IsThread, Enter
    <2>4. Placed(r, latest, table)
      BY <1>1, <2>1, <2>3 DEF Placed
    <2> QED
      BY <1>1, <2>1, <2>3, <2>4, QuietStep, NoClaims DEF Placed
  <1> QED
    BY <1>3, <1>4, <1>5, <1>6, <1>7, <1>8

\* The hazard accesses: what they leave with is what they load last.
LEMMA AccessSteps ==
    ASSUME IInv, NEW t \in Threads,
           AccessLatest(t) \/ AccessPrev(t) \/ AccessOlder(t) \/ AccessAgain(t)
    PROVE  IInv'
  <1> USE DEF RawIntern, Detaching, Holding
  <1>1. /\ Placed(th[t], latest, table) /\ IsThread(th[t])
        /\ th = [u \in Threads |-> th[u]] /\ UNCHANGED <<latest, table, freed>> /\ SameClaims
    BY NoClaims DEF IInv, Placed, AccessLatest, AccessPrev, AccessOlder, AccessAgain, HazardAccess
  <1>2. PICK r, l : r = th'[t] /\ l = latest
    OBVIOUS
  <1>3. SUFFICES ASSUME ~\E a, b : th' = [th EXCEPT ![t] = [th[t] EXCEPT !.ha = a, !.seen = b]]
                 PROVE  IInv'
    BY <1>1, AccessGoesOn
  <1> DEFINE Leaves(var, ref, next) ==
        r = [th[t] EXCEPT !.ha = "load", !.seen = NoTable, ![var] = ref, !.pc = next]
  <1>4. ASSUME NEW ref, NEW slot, NEW var, NEW next, HazardAccess(t, ref, slot, var, next)
        PROVE  \/ \E a, b : th' = [th EXCEPT ![t] = [th[t] EXCEPT !.ha = a, !.seen = b]]
               \/ th' = [th EXCEPT ![t] = r] /\ Leaves(var, ref, next)
    <2>1. CASE th' = [th EXCEPT ![t].ha = "mark", ![t].seen = ref]
      <3>1. th' = [th EXCEPT ![t] = [th[t] EXCEPT !.ha = "mark", !.seen = ref]]
        BY <1>1, <2>1
      <3> QED
        BY <3>1
    <2>2. CASE th' = [th EXCEPT ![t].ha = "check"]
      <3>1. th' = [th EXCEPT ![t] = [th[t] EXCEPT !.ha = "check", !.seen = th[t].seen]]
        BY <1>1, <2>2 DEF IsThread
      <3> QED
        BY <3>1
    <2>3. CASE th' = [th EXCEPT ![t].ha = "load", ![t].seen = NoTable,
                                ![t][var] = ref, ![t].pc = next]
      BY <1>1, <1>2, <2>3
    <2> QED
      BY <1>4, <2>1, <2>2, <2>3 DEF HazardAccess
  <1> HIDE DEF Leaves
  <1>5. CASE AccessLatest(t)
    <2>8. HazardAccess(t, l, 0, "latest", "prev")
      BY <1>2, <1>5 DEF AccessLatest, HazardAccess
    <2>1. /\ th[t].pc = "latest"
          /\ th' = [th EXCEPT ![t] = r] /\ Leaves("latest", l, "prev")
      BY <2>8, <1>3, <1>4, <1>5 DEF AccessLatest
    <2>2. /\ IsThread(r) /\ r.pc = "prev" /\ r.slot = th[t].slot /\ r.prev = th[t].prev
          /\ r.latest = l
      BY <1>1, <2>1 DEF IsThread, Leaves
    <2>3. l \in Tables /\ l <= latest /\ th[t].slot = 0 /\ r.prev = NoTable
      BY <1>1, <1>2, <2>1, <2>2, TableNumbers DEF Placed, IInv
    <2>4. Placed(r, latest, table)
      BY <2>2, <2>3 DEF Placed
    <2> QED
      BY <1>1, <2>1, <2>2, <2>3, <2>4, QuietStep
  <1>6. CASE AccessPrev(t)
    <2>0. PICK p : p = table[th[t].latest].prev
      OBVIOUS
    <2>8. HazardAccess(t, p, 1, "prev", "look")
      BY <2>0, <1>6 DEF AccessPrev, HazardAccess
    <2>1. /\ th[t].pc = "prev"
          /\ th' = [th EXCEPT ![t] = r] /\ Leaves("prev", p, "look")
      BY <2>8, <1>3, <1>4, <1>6 DEF AccessPrev
    <2>2. /\ IsThread(r) /\ r.pc = "look" /\ r.slot = th[t].slot /\ r.prev = p
          /\ r.latest = th[t].latest
      BY <1>1, <2>1 DEF IsThread, Leaves
    <2>3. r.latest \in Tables /\ r.latest <= latest /\ th[t].slot = 0
      BY <1>1, <2>1, <2>2 DEF Placed
    <2>4. p # NoTable => p \in Tables /\ r.latest = p + 1
      BY <2>0, <2>2, <2>3 DEF IInv, Chained
    <2>5. Placed(r, latest, table)
      BY <2>2, <2>3, <2>4 DEF Placed
    <2> QED
      BY <1>1, <2>1, <2>2, <2>3, <2>5, QuietStep
  <1>7. CASE AccessOlder(t)
    <2>0. PICK p : p = table[th[t].cur].prev
      OBVIOUS
    <2>9. PICK x : x = th[t].slot + 1
      OBVIOUS
    <2>8. HazardAccess(t, p, x, "curr", "lookup")
      BY <2>0, <2>9, <1>7 DEF AccessOlder, HazardAccess
    <2>1. /\ th[t].pc = "older"
          /\ th' = [th EXCEPT ![t] = r] /\ Leaves("curr", p, "lookup")
      BY <2>8, <1>3, <1>4, <1>7 DEF AccessOlder
    <2>2. /\ IsThread(r) /\ r.pc = "lookup" /\ r.slot = th[t].slot /\ r.prev = th[t].prev
          /\ r.latest = th[t].latest /\ r.lo = th[t].lo /\ r.hi = th[t].hi
          /\ r.cur = th[t].cur /\ r.curr = p
      BY <1>1, <2>1 DEF IsThread, Leaves
    <2>3. r.cur \in Tables /\ r.cur <= latest
      BY <1>1, <2>1, <2>2 DEF Placed
    <2>4. p # NoTable => p \in Tables /\ p < latest
      BY <2>0, <2>2, <2>3, TableNumbers DEF IInv, Chained
    <2> QED
      BY <1>1, <2>1, <2>2, <2>3, <2>4, RawGoesOn
  <1>8. CASE AccessAgain(t)
    <2>8. HazardAccess(t, l, 4, "curr", "settle")
      BY <1>2, <1>8 DEF AccessAgain, HazardAccess
    <2>1. /\ th[t].pc = "again"
          /\ th' = [th EXCEPT ![t] = r] /\ Leaves("curr", l, "settle")
      BY <2>8, <1>3, <1>4, <1>8 DEF AccessAgain
    <2>2. /\ IsThread(r) /\ r.pc = "settle" /\ r.slot = th[t].slot /\ r.prev = th[t].prev
          /\ r.latest = th[t].latest /\ r.lo = th[t].lo /\ r.hi = th[t].hi
          /\ r.cur = th[t].cur /\ r.curr = l
      BY <1>1, <2>1 DEF IsThread, Leaves
    <2>3. r.cur \in Tables /\ r.cur <= latest
      BY <1>1, <2>1, <2>2 DEF Placed
    <2>4. l \in Tables /\ l <= latest
      BY <1>2, TableNumbers DEF IInv
    <2> QED
      BY <1>1, <2>1, <2>2, <2>3, <2>4, RawGoesOn
  <1> QED
    BY <1>5, <1>6, <1>7, <1>8

\* Words and counts of a table are not what its batches are counted with.
LEMMA WordsAreOther ==
    ASSUME IInv, NEW n \in Tables, NEW d, NEW c,
           table' = [table EXCEPT ![n] = [table[n] EXCEPT !.data = d, !.count = c]]
    PROVE  SameClaims
  <1>1. IsTable(table[n], n)
    BY DEF IInv
  <1>2. PICK b : b = [table[n] EXCEPT !.data = d, !.count = c]
    OBVIOUS
  <1>3. /\ b.prev = table[n].prev /\ b.moved = table[n].moved /\ b.move_done = table[n].move_done
        /\ IsTable(b, n)
    BY <1>1, <1>2 DEF IsTable
  <1> QED
    BY <1>2, <1>3 DEF IInv, SameClaims

\* nbhs_raw_intern, but for its hazard accesses and the CAS of latest.
LEMMA RawSteps ==
    ASSUME IInv, NEW t \in Threads,
           \/ Grow(t) \/ Hold(t) \/ Probe(t) \/ Reserve(t) \/ WaitEntry(t) \/ Lookup(t)
           \/ Unhold(t) \/ Count(t) \/ Commit(t) \/ Settle(t)
    PROVE  IInv'
  <1>1. /\ Placed(th[t], latest, table) /\ IsThread(th[t]) /\ th = [u \in Threads |-> th[u]]
        /\ table = [n \in Tables |-> table[n]] /\ \A n \in Tables : IsTable(table[n], n)
        /\ UNCHANGED <<latest, freed>>
    BY DEF IInv, Placed, Grow, Hold, Probe, Reserve, WaitEntry, Lookup, Unhold, Count, Commit,
           Settle
  <1>2. PICK r, n : r = th'[t] /\ n = th[t].cur
    OBVIOUS
  <1>3. th[t].pc \in RawIntern => n \in Tables /\ n <= latest
    BY <1>1, <1>2 DEF Placed
  <1> DEFINE Same == /\ IsThread(r) /\ r.slot = th[t].slot /\ r.latest = th[t].latest
                     /\ r.prev = th[t].prev /\ r.lo = th[t].lo /\ r.hi = th[t].hi
  <1>4. ASSUME th[t].pc \in RawIntern, th' = [th EXCEPT ![t] = r], Same, SameClaims, r.cur = n,
               r.pc \in RawIntern \ {"swap", "lookup", "settle"}
        PROVE  IInv'
    BY <1>1, <1>3, <1>4, RawGoesOn
  <1> USE DEF RawIntern
  <1>5. CASE Grow(t)
    <2>1. /\ th[t].pc = "grow" /\ UNCHANGED table /\ th' = [th EXCEPT ![t] = r]
          /\ \/ r = [th[t] EXCEPT !.pc = "probe"]
             \/ r = [th[t] EXCEPT !.pc = "swap"] /\ table[n].prev = NoTable
      BY <1>1, <1>2, <1>5 DEF Grow
    <2>2. /\ Same /\ r.cur = n
          /\ r.pc = "probe" \/ (r.pc = "swap" /\ table[n].prev = NoTable)
      <3>1. CASE r = [th[t] EXCEPT !.pc = "probe"]
        BY <1>1, <1>2, <3>1 DEF IsThread
      <3>2. CASE r = [th[t] EXCEPT !.pc = "swap"] /\ table[n].prev = NoTable
        BY <1>1, <1>2, <3>2 DEF IsThread
      <3> QED
        BY <2>1, <3>1, <3>2
    <2> QED
      BY <1>1, <1>3, <2>1, <2>2, RawGoesOn, NoClaims
  <1>6. CASE Hold(t)
    <2>1. /\ th[t].pc = "hold" /\ UNCHANGED table /\ th' = [th EXCEPT ![t] = r]
          /\ r = [th[t] EXCEPT !.pc = "probe"]
      BY <1>1, <1>2, <1>6 DEF Hold
    <2>2. Same /\ r.cur = n /\ r.pc = "probe"
      BY <1>1, <1>2, <2>1 DEF IsThread
    <2> QED
      BY <1>4, <2>1, <2>2, NoClaims
  <1>7. CASE Probe(t)
    <2>1. CASE th' = [th EXCEPT ![t].pc = "reserve"]
      <3>1. /\ th[t].pc = "probe" /\ UNCHANGED table /\ th' = [th EXCEPT ![t] = r]
            /\ r = [th[t] EXCEPT !.pc = "reserve"]
        BY <1>1, <1>2, <1>7, <2>1 DEF Probe
      <3>2. Same /\ r.cur = n /\ r.pc = "reserve"
        BY <1>1, <1>2, <3>1 DEF IsThread
      <3> QED
        BY <1>4, <3>1, <3>2, NoClaims
    <2>2. CASE th' # [th EXCEPT ![t].pc = "reserve"]
      <3>1. PICK e : e = Here(t)
        OBVIOUS
      <3>2. TryEntry(t, e)
        BY <1>7, <2>2, <3>1 DEF Probe, TryEntry, Leave
      <3>3. th[t].pc = "probe" /\ SameClaims
        BY <1>7, NoClaims DEF Probe
      <3> QED
        BY <1>1, <3>2, <3>3, TryEntryKeeps
    <2> QED
      BY <2>1, <2>2
  <1>8. CASE Reserve(t)
    <2>1. CASE UNCHANGED table /\ TryEntry(t, Here(t))
      <3>1. PICK e : e = Here(t)
        OBVIOUS
      <3>2. TryEntry(t, e)
        BY <2>1, <3>1 DEF TryEntry, Leave
      <3>3. th[t].pc = "reserve" /\ SameClaims
        BY <1>8, <2>1, NoClaims DEF Reserve
      <3> QED
        BY <1>1, <3>2, <3>3, TryEntryKeeps
    <2>2. CASE ~(UNCHANGED table /\ TryEntry(t, Here(t)))
      <3>1. PICK p : p = Place(n, Key[th[t].v], th[t].i)
        OBVIOUS
      <3>2. PICK w : w = Reserved(th[t].v)
        OBVIOUS
      <3>3. /\ th[t].pc = "reserve" /\ th' = [th EXCEPT ![t] = r]
            /\ r = [th[t] EXCEPT !.pc = "older"]
            /\ table' = [table EXCEPT ![n].data[p] = w]
        BY <1>1, <1>2, <1>8, <2>2, <3>1, <3>2 DEF Reserve
      <3>4. PICK d, c : d = [table[n].data EXCEPT ![p] = w] /\ c = table[n].count
        OBVIOUS
      <3>5. table' = [table EXCEPT ![n] = [table[n] EXCEPT !.data = d, !.count = c]]
        BY <1>1, <1>3, <3>3, <3>4 DEF IsTable
      <3>6. Same /\ r.cur = n /\ r.pc = "older"
        BY <1>1, <1>2, <3>3 DEF IsThread
      <3>7. SameClaims
        <4>1. n \in Tables
          BY <1>3, <3>3
        <4> QED
          BY <4>1, <3>5, WordsAreOther
      <3> QED
        BY <1>4, <3>3, <3>6, <3>7
    <2> QED
      BY <2>1, <2>2
  <1>9. CASE WaitEntry(t)
    <2>1. PICK w : w = Here(t).p
      OBVIOUS
    <2>2. /\ Leave(t, w) /\ th[t].pc = "wait" /\ UNCHANGED table
      BY <1>9, <2>1 DEF WaitEntry, Leave
    <2> QED
      BY <1>1, <2>2, LeaveKeeps, NoClaims
  <1>10. CASE Unhold(t)
    <2>1. /\ th[t].pc = "unhold" /\ UNCHANGED table /\ th' = [th EXCEPT ![t] = r]
          /\ r = [th[t] EXCEPT !.pc = "count", !.curr = NoTable, !.j = 0]
      BY <1>1, <1>2, <1>10 DEF Unhold
    <2>2. Same /\ r.cur = n /\ r.pc = "count"
      BY <1>1, <1>2, <2>1, ZenonT(60) DEF IsThread
    <2> QED
      BY <1>4, <2>1, <2>2, NoClaims
  <1>11. CASE Count(t)
    <2>1. /\ th[t].pc = "count" /\ th' = [th EXCEPT ![t] = r]
          /\ r = [th[t] EXCEPT !.pc = "commit"]
          /\ table' = [table EXCEPT ![n].count = @ + 1]
      BY <1>1, <1>2, <1>11 DEF Count
    <2>2. PICK d, c : d = table[n].data /\ c = table[n].count + 1
      OBVIOUS
    <2>3. table' = [table EXCEPT ![n] = [table[n] EXCEPT !.data = d, !.count = c]]
      BY <1>1, <1>3, <2>1, <2>2 DEF IsTable
    <2>4. Same /\ r.cur = n /\ r.pc = "commit"
      BY <1>1, <1>2, <2>1 DEF IsThread
    <2>5. SameClaims
      <3>1. n \in Tables
        BY <1>3, <2>1
      <3> QED
        BY <3>1, <2>3, WordsAreOther
    <2> QED
      BY <1>4, <2>1, <2>4, <2>5
  <1>12. CASE Commit(t)
    <2>1. PICK p, w, x :
            /\ p = Place(n, Key[th[t].v], th[t].i)
            /\ w = (IF th[t].old # Nil THEN th[t].old ELSE th[t].v) /\ x = Final(w)
      OBVIOUS
    <2>2. /\ th[t].pc = "commit" /\ th' = [th EXCEPT ![t] = r]
          /\ r = [th[t] EXCEPT !.result = w, !.old = Nil, !.pc = "again"]
          /\ table' = [table EXCEPT ![n].data[p] = x]
      BY <1>1, <1>2, <1>12, <2>1 DEF Commit
    <2>3. PICK d, c : d = [table[n].data EXCEPT ![p] = x] /\ c = table[n].count
      OBVIOUS
    <2>4. table' = [table EXCEPT ![n] = [table[n] EXCEPT !.data = d, !.count = c]]
      BY <1>1, <1>3, <2>2, <2>3 DEF IsTable
    <2>5. Same /\ r.cur = n /\ r.pc = "again"
      BY <1>1, <1>2, <2>2, ZenonT(60) DEF IsThread
    <2>6. SameClaims
      <3>1. n \in Tables
        BY <1>3, <2>2
      <3> QED
        BY <3>1, <2>4, WordsAreOther
    <2> QED
      BY <1>4, <2>2, <2>5, <2>6
  <1>13. CASE Lookup(t)
    <2>1. PICK o : o = table[th[t].curr].data[Place(th[t].curr, Key[th[t].v], th[t].j)].p
      OBVIOUS
    <2>2. /\ th[t].pc = "lookup" /\ UNCHANGED table /\ th' = [th EXCEPT ![t] = r]
          /\ \/ r = [th[t] EXCEPT !.pc = "count"] \/ r = [th[t] EXCEPT !.pc = "unhold"]
             \/ r = [th[t] EXCEPT !.j = @ + 1] \/ r = [th[t] EXCEPT !.old = o, !.pc = "unhold"]
      BY <1>1, <1>2, <1>13, <2>1 DEF Lookup
    <2>3. /\ Same /\ r.cur = n
          /\ r.pc \in {"count", "unhold"} \/ (r.pc = "lookup" /\ r.curr = th[t].curr)
      <3>1. CASE r = [th[t] EXCEPT !.pc = "count"]
        BY <1>1, <1>2, <3>1 DEF IsThread
      <3>2. CASE r = [th[t] EXCEPT !.pc = "unhold"]
        BY <1>1, <1>2, <3>2 DEF IsThread
      <3>3. CASE r = [th[t] EXCEPT !.j = @ + 1]
        BY <1>1, <1>2, <2>2, <3>3 DEF IsThread
      <3>4. CASE r = [th[t] EXCEPT !.old = o, !.pc = "unhold"]
        BY <1>1, <1>2, <3>4 DEF IsThread
      <3> QED
        BY <2>2, <3>1, <3>2, <3>3, <3>4
    <2>4. th[t].curr # NoTable => th[t].curr \in Tables /\ th[t].curr < latest
      BY <1>1, <2>2 DEF Placed
    <2> QED
      BY <1>1, <1>3, <2>2, <2>3, <2>4, RawGoesOn, NoClaims
  <1>14. CASE Settle(t)
    <2>1. PICK w : w = th[t].result
      OBVIOUS
    <2>2. th[t].pc = "settle" /\ UNCHANGED table
      BY <1>14 DEF Settle
    <2>3. CASE Leave(t, w)
      BY <1>1, <2>2, <2>3, LeaveKeeps, NoClaims
    <2>4. CASE ~Leave(t, w)
      <3>1. /\ th' = [th EXCEPT ![t] = r]
            /\ r = [th[t] EXCEPT !.cur = th[t].curr, !.curr = NoTable, !.i = 0, !.pc = "probe"]
        BY <1>1, <1>2, <1>14, <2>1, <2>4 DEF Settle, Leave
      <3>2. Same /\ r.cur = th[t].curr /\ r.pc = "probe"
        BY <1>1, <3>1 DEF IsThread
      <3>3. r.cur \in Tables /\ r.cur <= latest
        BY <1>1, <2>2, <3>2 DEF Placed
      <3> QED
        BY <1>1, <2>2, <3>1, <3>2, <3>3, RawGoesOn, NoClaims
    <2> QED
      BY <2>3, <2>4
  <1> QED
    BY <1>5, <1>6, <1>7, <1>8, <1>9, <1>10, <1>11, <1>12, <1>13, <1>14

LEMMA DetachKeeps ==
    ASSUME IInv, NEW t \in Threads, Detach(t)
    PROVE  IInv'
  <1> USE DEF RawIntern, Detaching, Holding
  <1>1. /\ Placed(th[t], latest, table) /\ IsThread(th[t]) /\ th = [u \in Threads |-> th[u]]
        /\ table = [n \in Tables |-> table[n]] /\ \A n \in Tables : IsTable(table[n], n)
    BY DEF IInv, Placed
  <1>2. PICK r, n : r = th'[t] /\ n = th[t].latest
    OBVIOUS
  <1>3. /\ th[t].pc = "detach" /\ UNCHANGED <<latest, freed>>
        /\ th' = [th EXCEPT ![t] = r] /\ r = [th[t] EXCEPT !.pc = "scan"]
        /\ table' = [table EXCEPT ![n].prev = NoTable]
    BY <1>1, <1>2 DEF Detach
  <1>4. SameClaims
    <2>1. n \in Tables /\ IsTable(table[n], n)
      BY <1>1, <1>2, <1>3 DEF Placed
    <2>2. PICK b : b = [table[n] EXCEPT !.prev = NoTable]
      OBVIOUS
    <2>3. /\ b.prev = NoTable /\ b.moved = table[n].moved /\ b.move_done = table[n].move_done
          /\ IsTable(b, n)
      BY <2>1, <2>2 DEF IsTable
    <2>4. table' = [table EXCEPT ![n] = b]
      BY <1>1, <1>3, <2>1, <2>2
    <2> QED
      BY <1>1, <2>3, <2>4 DEF SameClaims
  <1>5. /\ IsThread(r) /\ r.pc = "scan" /\ r.slot = th[t].slot /\ r.prev = th[t].prev
        /\ r.latest = th[t].latest
    BY <1>1, <1>3 DEF IsThread
  <1>6. /\ th[t].slot = 0 /\ r.latest \in Tables /\ r.latest <= latest
        /\ r.prev # NoTable /\ r.prev \in Tables /\ r.latest = r.prev + 1
    BY <1>1, <1>3, <1>5 DEF Placed
  <1>7. Placed(r, latest, table)
    BY <1>5, <1>6 DEF Placed
  <1>8. ~Holding(r) /\ ~Holding(th[t]) /\ th[t].pc \in Detaching
    BY <1>3, <1>5, <1>6
  <1> HIDE DEF Holding, Detaching
  <1> QED
    BY <1>3, <1>4, <1>5, <1>7, <1>8, QuietStep

LEMMA FreeKeeps ==
    ASSUME IInv, NEW t \in Threads, FreePrev(t)
    PROVE  IInv'
  <1> USE DEF RawIntern, Detaching, Holding
  <1>1. /\ Placed(th[t], latest, table) /\ IsThread(th[t]) /\ th = [u \in Threads |-> th[u]]
        /\ latest \in Nat
    BY TableNumbers DEF IInv, Placed
  <1>2. PICK r, n : r = th'[t] /\ n = th[t].prev
    OBVIOUS
  <1>3. /\ th[t].pc = "wait_hazards" /\ UNCHANGED <<latest, table>>
        /\ th' = [th EXCEPT ![t] = r] /\ r = [th[t] EXCEPT !.pc = "skip"]
        /\ freed' = freed \cup {n}
    BY <1>1, <1>2 DEF FreePrev
  <1>4. /\ IsThread(r) /\ r.pc = "skip" /\ r.slot = th[t].slot /\ r.prev = th[t].prev
        /\ r.latest = th[t].latest
    BY <1>1, <1>3 DEF IsThread
  <1>5. /\ th[t].slot = 0 /\ r.latest \in Tables /\ r.latest <= latest
        /\ n # NoTable /\ n \in Tables /\ r.latest = n + 1 /\ n < latest
    BY <1>1, <1>2, <1>3, <1>4, TableNumbers DEF Placed
  <1>6. Placed(r, latest, table)
    BY <1>2, <1>4, <1>5 DEF Placed
  <1>7. /\ th' = [u \in Threads |-> th'[u]] /\ th'[t] = r
        /\ \A u \in Threads : u # t => th'[u] = th[u]
    BY <1>1, <1>3
  <1>8. /\ \A m : InFlight(th', m) = InFlight(th, m)
        /\ Apart(th')
    <2>1. PICK q : q = th'
      OBVIOUS
    <2>2. \A u \in Threads : Holding(q[u]) <=> Holding(th[u])
      BY <1>3, <1>4, <1>5, <1>7, <2>1
    <2>3. \A u \in Threads : Holding(th[u]) =>
             q[u].prev = th[u].prev /\ q[u].lo = th[u].lo /\ q[u].hi = th[u].hi
      BY <1>3, <1>5, <1>7, <2>1
    <2>4. /\ \A m : InFlight(q, m) = InFlight(th, m)
          /\ Apart(th) => Apart(q)
      BY <2>2, <2>3, SameHolders
    <2> QED
      BY <2>1, <2>4 DEF IInv
  <1>9. Alone(th', table', freed')
    BY <1>2, <1>3, <1>4, <1>7 DEF IInv, Alone
  <1>10. Gone(latest', table', freed')
    BY <1>2, <1>3, <1>5 DEF IInv, Gone, Alone
  <1>11. \A u \in Threads : Placed(th'[u], latest', table')
    BY <1>3, <1>6, <1>7 DEF IInv
  <1>12. Counted(th', table')
    BY <1>3, <1>8 DEF Counted, IInv
  <1> QED
    BY <1>3, <1>7, <1>8, <1>9, <1>10, <1>11, <1>12 DEF IInv

LEMMA SwapKeeps ==
    ASSUME IInv, NEW t \in Threads, SwapLatest(t)
    PROVE  IInv'
  <1> USE DEF RawIntern, Detaching, Holding
  <1>1. /\ Placed(th[t], latest, table) /\ IsThread(th[t]) /\ th = [u \in Threads |-> th[u]]
        /\ table = [n \in Tables |-> table[n]] /\ \A n \in Tables : IsTable(table[n], n)
        /\ latest \in Tables /\ latest \in Nat
    BY TableNumbers DEF IInv, Placed
  <1>2. PICK r, c, l : r = th'[t] /\ c = th[t].cur /\ l = latest'
    OBVIOUS
  <1>3. /\ th[t].pc = "swap" /\ UNCHANGED freed
        /\ th' = [th EXCEPT ![t] = r] /\ r = [th[t] EXCEPT !.cur = l, !.pc = "hold"]
    BY <1>1, <1>2 DEF SwapLatest
  <1>4. /\ IsThread(r) /\ r.pc = "hold" /\ r.slot = th[t].slot /\ r.prev = th[t].prev
        /\ r.latest = th[t].latest /\ r.lo = th[t].lo /\ r.hi = th[t].hi /\ r.cur = l
    BY <1>1, <1>3 DEF IsThread
  <1>5. CASE latest # c
    <2>1. UNCHANGED <<latest, table>>
      BY <1>2, <1>5 DEF SwapLatest
    <2>2. r.cur \in Tables /\ r.cur <= latest
      BY <1>1, <1>2, <1>4, <2>1
    <2>3. th[t].pc \in RawIntern /\ r.pc \in RawIntern \ {"swap", "lookup", "settle"} /\ SameClaims
      BY <1>3, <1>4, <2>1, NoClaims
    <2> HIDE DEF RawIntern
    <2> QED
      BY <1>3, <1>4, <2>1, <2>2, <2>3, RawGoesOn
  <1>6. CASE latest = c
    <2>1. /\ l = latest + 1 /\ l \in Tables
          /\ table' = [table EXCEPT ![l] = [Blank(l) EXCEPT !.prev = latest]]
      BY <1>2, <1>6 DEF SwapLatest
    <2>2. PICK b : b = [Blank(l) EXCEPT !.prev = latest]
      OBVIOUS
    <2>3. b.prev = latest /\ b.moved = 0 /\ b.move_done = 0 /\ IsTable(b, l)
      <3>1. Cap(l) \in Nat
        BY <2>1, CapIsNat
      <3>2. PICK d : d = [i \in 0 .. Cap(l) - 1 |-> Empty]
        OBVIOUS
      <3>3. b = [data |-> d, prev |-> latest, moved |-> 0, move_done |-> 0, count |-> 0]
        BY <2>2, <3>2 DEF Blank
      <3> QED
        BY <3>1, <3>3 DEF IsTable
    <2>4. /\ table' = [n \in Tables |-> table'[n]] /\ table'[l] = b
          /\ \A n \in Tables : n # l => table'[n] = table[n]
      BY <1>1, <2>1, <2>2
    <2>5. \A n \in Tables : n <= latest => n # l
      BY <1>1, <2>1
    <2>6. \A u \in Threads : Placed(th'[u], latest', table')
      <3>1. PICK tb : tb = table'
        OBVIOUS
      <3>2. l \in Nat /\ latest <= l
        BY <1>1, <2>1
      <3>3. \A n \in Tables : n <= latest =>
              /\ table[n].moved \in Nat /\ tb[n].moved \in Nat /\ table[n].moved <= tb[n].moved
              /\ tb[n].prev \in {table[n].prev, NoTable}
        BY <1>1, <2>4, <2>5, <3>1 DEF IsTable
      <3>4. \A u \in Threads : Placed(th[u], l, tb)
        BY <1>1, <3>2, <3>3, StaysPlaced DEF IInv
      <3>5. Placed(r, l, tb)
        BY <1>3, <1>4, <2>1, <3>2, <3>4 DEF Placed
      <3> QED
        BY <1>1, <1>2, <1>3, <3>1, <3>4, <3>5
    <2>7. Chained(latest', table')
      <3>1. table[latest].prev = NoTable
        BY <1>1, <1>2, <1>3, <1>6 DEF Placed
      <3>2. \A n \in Tables : table[n].prev = NoTable
        BY <3>1 DEF IInv, Chained
      <3> QED
        BY <1>1, <1>2, <2>1, <2>3, <2>4, <3>2 DEF Chained
    <2>8. /\ \A m : InFlight(th', m) = InFlight(th, m)
          /\ Apart(th')
      <3>1. PICK q : q = th'
        OBVIOUS
      <3>2. \A u \in Threads : Holding(q[u]) <=> Holding(th[u])
        BY <1>1, <1>3, <1>4, <3>1
      <3>3. \A u \in Threads : Holding(th[u]) =>
               q[u].prev = th[u].prev /\ q[u].lo = th[u].lo /\ q[u].hi = th[u].hi
        BY <1>1, <1>3, <1>4, <3>1
      <3>4. /\ \A m : InFlight(q, m) = InFlight(th, m)
            /\ Apart(th) => Apart(q)
        BY <3>2, <3>3, SameHolders
      <3> QED
        BY <3>1, <3>4 DEF IInv
    <2>9. \A u \in Threads : th[u].prev # NoTable => th[u].prev \in Tables /\ th[u].prev # l
      BY <2>1, <1>1, TableNumbers DEF IInv, Placed
    <2>10. Counted(th', table')
      <3>1. InFlight(th, l) = {}
        <4>1. {u \in Threads : Holding(th[u]) /\ th[u].prev = l} = {}
          BY <2>9, <2>1, TableNumbers
        <4> QED
          BY <4>1 DEF InFlight
      <3>2. Cardinality(InFlight(th, l)) = 0
        BY <3>1, FS_EmptySet
      <3> QED
        BY <2>3, <2>4, <2>8, <3>2 DEF Counted, IInv
    <2>11. Alone(th', table', freed')
      BY <1>1, <1>3, <1>4, <2>4, <2>9 DEF Alone, IInv, Placed
    <2>12. Gone(latest', table', freed')
      <3>1. \A n \in freed : n \in Nat /\ n < latest /\ n # l
        <4>1. \A n \in freed : n \in Tables /\ n < latest
          BY DEF Gone, IInv
        <4> QED
          BY <4>1, <1>1, <2>1, TableNumbers
      <3> QED
        BY <1>1, <1>2, <1>3, <2>1, <2>4, <3>1 DEF Gone, IInv
    <2> QED
      BY <1>1, <1>2, <1>3, <2>1, <2>3, <2>4, <2>6, <2>7, <2>8, <2>10, <2>11, <2>12 DEF IInv
  <1> QED
    BY <1>5, <1>6

-----------------------------------------------------------------------------
(* Batches are claimed and counted                                          *)

Own(r, n) == IF Holding(r) /\ r.prev = n THEN r.lo .. r.hi - 1 ELSE {}
Others(q, t, n) == UNION {Own(q[u], n) : u \in Threads \ {t}}

LEMMA InFlightIs ==
    ASSUME NEW q, NEW t \in Threads, NEW n
    PROVE  InFlight(q, n) = Others(q, t, n) \cup Own(q[t], n)
  <1>1. ASSUME NEW x \in InFlight(q, n) PROVE x \in Others(q, t, n) \cup Own(q[t], n)
    BY DEF InFlight, Others, Own
  <1>2. ASSUME NEW x \in Others(q, t, n) \cup Own(q[t], n) PROVE x \in InFlight(q, n)
    <2>1. PICK u \in Threads : x \in Own(q[u], n)
      BY DEF Others
    <2>2. Holding(q[u]) /\ q[u].prev = n /\ x \in q[u].lo .. q[u].hi - 1
      BY <2>1 DEF Own
    <2> QED
      BY <2>2 DEF InFlight
  <1> QED
    BY <1>1, <1>2

\* What is in flight has been claimed; who has some of a table has not been counted.
LEMMA InFlightWithin ==
    ASSUME IInv, NEW n \in Tables
    PROVE  /\ InFlight(th, n) \subseteq 0 .. table[n].moved - 1
           /\ IsFiniteSet(InFlight(th, n)) /\ Cardinality(InFlight(th, n)) \in Nat
           /\ table[n].moved \in Nat /\ table[n].move_done \in Nat
           /\ table[n].moved <= Cap(n) /\ Cap(n) \in Nat
           /\ table[n].move_done + Cardinality(InFlight(th, n)) = table[n].moved
           /\ InFlight(th, n) # {} => table[n].move_done < Cap(n)
  <1>1. table[n].moved \in Nat /\ table[n].move_done \in Nat /\ table[n].moved <= Cap(n)
        /\ Cap(n) \in Nat
    BY CapIsNat DEF IInv, IsTable
  <1>2. ASSUME NEW x \in InFlight(th, n) PROVE x \in 0 .. table[n].moved - 1
    <2>1. PICK u \in Threads : Holding(th[u]) /\ th[u].prev = n /\ x \in th[u].lo .. th[u].hi - 1
      BY DEF InFlight
    <2>2. th[u].lo \in Nat /\ th[u].hi \in Nat /\ th[u].hi <= table[n].moved
      BY <2>1 DEF IInv, Placed
    <2> QED
      BY <1>1, <2>1, <2>2
  <1>3. IsFiniteSet(InFlight(th, n)) /\ Cardinality(InFlight(th, n)) \in Nat
    <2>1. PICK k : k = table[n].moved - 1
      OBVIOUS
    <2>2. k \in Int /\ 0 \in Int
      BY <1>1, <2>1
    <2>3. IsFiniteSet(0 .. k)
      BY <2>2, FS_Interval
    <2>4. InFlight(th, n) \subseteq 0 .. k
      BY <1>2, <2>1
    <2>5. IsFiniteSet(InFlight(th, n))
      BY <2>3, <2>4, FS_Subset
    <2> QED
      BY <2>5, FS_CardinalityType
  <1>4. table[n].move_done + Cardinality(InFlight(th, n)) = table[n].moved
    BY DEF IInv, Counted
  <1>5. InFlight(th, n) # {} => Cardinality(InFlight(th, n)) > 0
    BY <1>3, FS_EmptySet
  <1> QED
    BY <1>1, <1>2, <1>3, <1>4, <1>5

\* A batch apart from the entries in flight adds as many as it has.
LEMMA BatchAdds ==
    ASSUME NEW S, IsFiniteSet(S), NEW lo \in Nat, NEW hi \in Nat, lo <= hi,
           S \cap (lo .. hi - 1) = {}
    PROVE  Cardinality(S \cup (lo .. hi - 1)) = Cardinality(S) + (hi - lo)
  <1> DEFINE B == lo .. hi - 1
  <1>1. IsFiniteSet(B) /\ Cardinality(B) = hi - lo
    <2>1. PICK k : k = hi - 1
      OBVIOUS
    <2>2. k \in Int /\ lo \in Int
      BY <2>1
    <2>3. /\ IsFiniteSet(lo .. k)
          /\ Cardinality(lo .. k) = IF lo > k THEN 0 ELSE k - lo + 1
      BY <2>2, FS_Interval
    <2> QED
      BY <2>1, <2>2, <2>3
  <1>2. S \cap B = {} /\ Cardinality(S \cap B) = 0
    BY FS_EmptySet
  <1>3. Cardinality(S) \in Nat
    BY FS_CardinalityType
  <1> HIDE DEF B
  <1>4. Cardinality(S \cup B) = Cardinality(S) + Cardinality(B) - Cardinality(S \cap B)
    BY <1>1, FS_Union
  <1> QED
    BY <1>1, <1>2, <1>3, <1>4 DEF B

LEMMA ClaimKeeps ==
    ASSUME IInv, NEW t \in Threads, ClaimBatch(t)
    PROVE  IInv'
  <1> USE DEF RawIntern, Detaching, Holding
  <1>1. /\ Placed(th[t], latest, table) /\ IsThread(th[t]) /\ th = [u \in Threads |-> th[u]]
        /\ table = [n \in Tables |-> table[n]] /\ \A n \in Tables : IsTable(table[n], n)
        /\ latest \in Tables /\ latest \in Nat
    BY TableNumbers DEF IInv, Placed
  <1>2. PICK r, p, lo, hi : r = th'[t] /\ p = th[t].prev /\ lo = th[t].lo
                            /\ hi = IF lo + Batch > Cap(p) THEN Cap(p) ELSE lo + Batch
    OBVIOUS
  <1>3. th[t].pc = "claim" /\ UNCHANGED <<latest, freed>> /\ th' = [th EXCEPT ![t] = r]
    BY <1>1, <1>2 DEF ClaimBatch
  <1>4. /\ p # NoTable /\ p \in Tables /\ th[t].slot = 0 /\ th[t].latest = p + 1
        /\ th[t].latest \in Tables /\ th[t].latest <= latest /\ lo \in Nat /\ lo < Cap(p)
    BY <1>1, <1>2, <1>3 DEF Placed
  <1>5. CASE table[p].moved # lo
    <2>1. r = [th[t] EXCEPT !.pc = "look"] /\ UNCHANGED table
      BY <1>1, <1>2, <1>5 DEF ClaimBatch
    <2>2. /\ IsThread(r) /\ r.pc = "look" /\ r.slot = th[t].slot /\ r.prev = p
          /\ r.latest = th[t].latest
      BY <1>1, <1>2, <2>1 DEF IsThread
    <2>3. Placed(r, latest, table)
      BY <1>4, <2>2 DEF Placed
    <2>4. ~Holding(r) /\ ~Holding(th[t]) /\ r.pc \notin Detaching /\ SameClaims
      BY <1>3, <1>4, <2>1, <2>2, NoClaims
    <2> HIDE DEF Holding, Detaching
    <2> QED
      BY <1>3, <2>3, <2>4, QuietStep
  <1>6. CASE table[p].moved = lo
    <2>1. /\ r = [th[t] EXCEPT !.pc = "copy", !.hi = hi, !.at = lo]
          /\ table' = [table EXCEPT ![p].moved = hi]
      BY <1>1, <1>2, <1>6 DEF ClaimBatch
    <2>2. /\ IsThread(r) /\ r.pc = "copy" /\ r.slot = 0 /\ r.prev = p
          /\ r.latest = th[t].latest /\ r.lo = lo /\ r.hi = hi
      BY <1>1, <1>2, <1>4, <2>1 DEF IsThread
    <2>3. Cap(p) \in Nat /\ hi \in Nat /\ lo < hi /\ hi <= Cap(p)
      BY <1>2, <1>4, CapIsNat, NbhsAssumption
    <2>4. PICK b : b = [table[p] EXCEPT !.moved = hi]
      OBVIOUS
    <2>5. /\ b.prev = table[p].prev /\ b.moved = hi /\ b.move_done = table[p].move_done
          /\ IsTable(b, p)
      BY <1>1, <1>4, <2>3, <2>4 DEF IsTable
    <2>6. /\ table' = [n \in Tables |-> table'[n]] /\ table'[p] = b
          /\ \A n \in Tables : n # p => table'[n] = table[n]
      BY <1>1, <1>4, <2>1, <2>4
    <2>7. /\ th' = [u \in Threads |-> th'[u]] /\ th'[t] = r
          /\ \A u \in Threads : u # t => th'[u] = th[u]
      BY <1>1, <1>3
    <2>8. \A n \in Tables : /\ IsTable(table'[n], n) /\ table'[n].prev = table[n].prev
                            /\ table'[n].move_done = table[n].move_done
      BY <1>1, <2>5, <2>6
    <2>9. \A u \in Threads : Placed(th'[u], latest', table')
      <3>1. PICK tb : tb = table'
        OBVIOUS
      <3>2. \A n \in Tables :
              /\ table[n].moved \in Nat /\ tb[n].moved \in Nat /\ table[n].moved <= tb[n].moved
              /\ tb[n].prev \in {table[n].prev, NoTable}
        <4>1. ASSUME NEW n \in Tables
              PROVE  table[n].moved \in Nat /\ tb[n].moved \in Nat /\ table[n].moved <= tb[n].moved
          <5>1. CASE n = p
            BY <1>4, <1>6, <2>3, <2>5, <2>6, <3>1, <5>1
          <5>2. CASE n # p
            BY <1>1, <2>6, <3>1, <5>2 DEF IsTable
          <5> QED
            BY <5>1, <5>2
        <4> QED
          BY <2>8, <3>1, <4>1
      <3>3. \A u \in Threads : Placed(th[u], latest, tb)
        BY <1>1, <3>2, StaysPlaced DEF IInv
      <3>4. Placed(r, latest, tb)
        BY <1>4, <2>2, <2>3, <2>5, <2>6, <3>1 DEF Placed
      <3> QED
        BY <1>3, <2>7, <3>1, <3>3, <3>4
    <2>10. PICK q : q = th'
      OBVIOUS
    <2>11. ~Holding(th[t]) /\ Holding(r)
      BY <1>3, <1>4, <2>2
    <2> HIDE DEF Holding, Detaching, RawIntern
    <2>12. \A u \in Threads : Holding(th[u]) /\ th[u].prev = p =>
              th[u].lo \in Nat /\ th[u].hi \in Nat /\ th[u].hi <= lo
      BY <1>6 DEF IInv, Placed
    <2>13. Apart(q)
      <3>1. ASSUME NEW u \in Threads, NEW w \in Threads, u # w, Holding(q[u]), Holding(q[w]),
                   q[u].prev = q[w].prev
            PROVE  q[u].hi <= q[w].lo \/ q[w].hi <= q[u].lo
        <4>1. CASE u = t
          BY <2>2, <2>7, <2>10, <2>12, <3>1, <4>1
        <4>2. CASE w = t
          BY <2>2, <2>7, <2>10, <2>12, <3>1, <4>2
        <4>3. CASE u # t /\ w # t
          BY <2>7, <2>10, <3>1, <4>3 DEF IInv, Apart
        <4> QED
          BY <4>1, <4>2, <4>3
      <3> QED
        BY <3>1 DEF Apart
    <2>14. Counted(q, table')
      <3>1. ASSUME NEW n \in Tables
            PROVE  table'[n].move_done + Cardinality(InFlight(q, n)) = table'[n].moved
        <4>1. /\ Own(th[t], n) = {}
              /\ Own(q[t], n) = IF n = p THEN lo .. hi - 1 ELSE {}
          BY <2>2, <2>7, <2>10, <2>11 DEF Own
        <4>2. Others(q, t, n) = Others(th, t, n)
          BY <2>7, <2>10 DEF Others
        <4>3. InFlight(q, n) = InFlight(th, n) \cup Own(q[t], n)
          <5>1. /\ InFlight(q, n) = Others(q, t, n) \cup Own(q[t], n)
                /\ InFlight(th, n) = Others(th, t, n) \cup Own(th[t], n)
            BY InFlightIs
          <5> HIDE DEF Own
          <5> QED
            BY <4>1, <4>2, <5>1
        <4>4. CASE n # p
          BY <2>6, <4>1, <4>3, <4>4 DEF IInv, Counted
        <4>5. CASE n = p
          <5>1. PICK S : S = InFlight(th, n)
            OBVIOUS
          <5>2. /\ S \subseteq 0 .. lo - 1 /\ IsFiniteSet(S) /\ Cardinality(S) \in Nat
                /\ table[n].move_done \in Nat
                /\ table[n].move_done + Cardinality(S) = lo
            BY <1>6, <4>5, <5>1, InFlightWithin
          <5>3. S \cap (lo .. hi - 1) = {}
            BY <1>4, <2>3, <5>2
          <5>4. lo <= hi
            BY <1>4, <2>3
          <5>5. Cardinality(S \cup (lo .. hi - 1)) = Cardinality(S) + (hi - lo)
            BY <1>4, <2>3, <5>2, <5>3, <5>4, BatchAdds
          <5>6. Cardinality(InFlight(q, n)) = Cardinality(S) + (hi - lo)
            BY <4>1, <4>3, <4>5, <5>1, <5>5
          <5>7. table'[n].move_done = table[n].move_done /\ table'[n].moved = hi
            BY <2>5, <2>6, <4>5
          <5> QED
            BY <1>4, <2>3, <5>2, <5>6, <5>7
        <4> QED
          BY <4>4, <4>5
      <3> QED
        BY <3>1 DEF Counted
    <2>15. r.pc \notin Detaching
      BY <2>2 DEF Detaching
    <2>16. \A u \in Threads : th[u].pc \in Detaching => th[u].prev \in Tables
      BY DEF IInv, Placed
    <2>17. Alone(th', table', freed')
      BY <1>3, <2>7, <2>8, <2>15, <2>16 DEF IInv, Alone
    <2>18. Gone(latest', table', freed')
      BY <1>3, <2>8 DEF IInv, Gone
    <2>19. Chained(latest', table')
      BY <1>3, <2>8 DEF IInv, Chained
    <2> QED
      BY <1>1, <1>3, <2>6, <2>7, <2>8, <2>9, <2>10, <2>13, <2>14, <2>17, <2>18, <2>19 DEF IInv
  <1> QED
    BY <1>5, <1>6

LEMMA CountKeeps ==
    ASSUME IInv, NEW t \in Threads, CountMoved(t)
    PROVE  IInv'
  <1> USE DEF RawIntern, Detaching, Holding
  <1>1. /\ Placed(th[t], latest, table) /\ IsThread(th[t]) /\ th = [u \in Threads |-> th[u]]
        /\ table = [n \in Tables |-> table[n]] /\ \A n \in Tables : IsTable(table[n], n)
        /\ latest \in Tables /\ latest \in Nat
    BY TableNumbers DEF IInv, Placed
  <1>2. PICK r, p, lo, hi : r = th'[t] /\ p = th[t].prev /\ lo = th[t].lo /\ hi = th[t].hi
    OBVIOUS
  <1>3. /\ th[t].pc = "copy" /\ UNCHANGED <<latest, freed>> /\ th' = [th EXCEPT ![t] = r]
        /\ table' = [table EXCEPT ![p].move_done = @ + (hi - lo)]
        /\ \/ r = [th[t] EXCEPT !.pc = "skip"]
           \/ r = [th[t] EXCEPT !.pc = "detach"] /\ table'[p].move_done = Cap(p)
    BY <1>1, <1>2 DEF CountMoved
  <1>4. /\ p # NoTable /\ p \in Tables /\ th[t].slot = 0 /\ th[t].latest = p + 1
        /\ th[t].latest \in Tables /\ th[t].latest <= latest /\ lo \in Nat /\ hi \in Nat
        /\ lo < hi /\ hi <= table[p].moved
    BY <1>1, <1>2, <1>3 DEF Placed
  <1>5. /\ IsThread(r) /\ r.slot = 0 /\ r.prev = p /\ r.latest = th[t].latest
        /\ r.pc = "skip" \/ (r.pc = "detach" /\ table'[p].move_done = Cap(p))
    <2>1. CASE r = [th[t] EXCEPT !.pc = "skip"]
      BY <1>1, <1>2, <1>4, <2>1 DEF IsThread
    <2>2. CASE r = [th[t] EXCEPT !.pc = "detach"] /\ table'[p].move_done = Cap(p)
      BY <1>1, <1>2, <1>4, <2>2 DEF IsThread
    <2> QED
      BY <1>3, <2>1, <2>2
  <1>6. PICK b : b = [table[p] EXCEPT !.move_done = @ + (hi - lo)]
    OBVIOUS
  <1>7. /\ b.prev = table[p].prev /\ b.moved = table[p].moved /\ IsTable(b, p)
        /\ b.move_done = table[p].move_done + (hi - lo)
    BY <1>1, <1>4, <1>6 DEF IsTable
  <1>8. /\ table' = [n \in Tables |-> table'[n]] /\ table'[p] = b
        /\ \A n \in Tables : n # p => table'[n] = table[n]
    BY <1>1, <1>3, <1>4, <1>6
  <1>9. /\ th' = [u \in Threads |-> th'[u]] /\ th'[t] = r
        /\ \A u \in Threads : u # t => th'[u] = th[u]
    BY <1>1, <1>3
  <1>10. \A n \in Tables : /\ IsTable(table'[n], n) /\ table'[n].prev = table[n].prev
                           /\ table'[n].moved = table[n].moved
    BY <1>1, <1>7, <1>8
  <1>11. Placed(r, latest, table)
    BY <1>4, <1>5 DEF Placed
  <1>12. Holding(th[t]) /\ ~Holding(r)
    BY <1>3, <1>5
  <1> HIDE DEF Holding, Detaching, RawIntern
  <1>13. \A u \in Threads : Placed(th'[u], latest', table')
    <2>1. PICK tb : tb = table'
      OBVIOUS
    <2>2. \A n \in Tables :
            /\ table[n].moved \in Nat /\ tb[n].moved \in Nat /\ table[n].moved <= tb[n].moved
            /\ tb[n].prev \in {table[n].prev, NoTable}
      <3>1. ASSUME NEW n \in Tables
            PROVE  /\ table[n].moved \in Nat /\ tb[n].moved = table[n].moved
                   /\ tb[n].prev = table[n].prev
        BY <1>1, <1>10, <2>1 DEF IsTable
      <3>2. \A n \in Tables : tb[n].moved \in Nat /\ table[n].moved <= tb[n].moved
        BY <3>1
      <3> QED
        BY <3>1, <3>2
    <2>3. \A u \in Threads : Placed(th[u], latest, tb)
      BY <1>1, <2>2, StaysPlaced DEF IInv
    <2>4. Placed(r, latest, tb)
      BY <1>1, <1>11, <2>2, StaysPlaced
    <2> QED
      BY <1>3, <1>9, <2>1, <2>3, <2>4
  <1>14. PICK q : q = th'
    OBVIOUS
  <1>15. Apart(q)
    BY <1>9, <1>12, <1>14 DEF IInv, Apart
  <1>16. \A n : Others(q, t, n) = Others(th, t, n) /\ Own(q[t], n) = {}
    BY <1>9, <1>12, <1>14 DEF Others, Own
  <1>17. \A n : Own(th[t], n) = IF n = p THEN lo .. hi - 1 ELSE {}
    BY <1>2, <1>12 DEF Own
  <1>18. Counted(q, table')
    <2>1. ASSUME NEW n \in Tables
          PROVE  table'[n].move_done + Cardinality(InFlight(q, n)) = table'[n].moved
      <3>1. PICK S : S = Others(th, t, n)
        OBVIOUS
      <3>2. InFlight(q, n) = S
        BY <1>16, <3>1, InFlightIs
      <3>3. InFlight(th, n) = S \cup Own(th[t], n)
        BY <3>1, InFlightIs
      <3>4. CASE n # p
        BY <1>8, <1>17, <3>2, <3>3, <3>4 DEF IInv, Counted
      <3>5. CASE n = p
        <4>1. IsFiniteSet(S) /\ Cardinality(S) \in Nat
          BY <3>3, InFlightWithin, FS_Subset, FS_CardinalityType
        <4>2. S \cap (lo .. hi - 1) = {}
          <5>1. ASSUME NEW x \in S, x \in lo .. hi - 1
                PROVE  FALSE
            <6>1. PICK u \in Threads \ {t} : x \in Own(th[u], n)
              BY <3>1 DEF Others
            <6>2. Holding(th[u]) /\ th[u].prev = n /\ x \in th[u].lo .. th[u].hi - 1
              BY <6>1 DEF Own
            <6>3. th[u].lo \in Nat /\ th[u].hi \in Nat
              BY <6>1, <6>2 DEF IInv, Placed
            <6>4. hi <= th[u].lo \/ th[u].hi <= lo
              BY <1>2, <1>12, <3>5, <6>1, <6>2 DEF IInv, Apart
            <6> QED
              BY <1>4, <5>1, <6>2, <6>3, <6>4
          <5> QED
            BY <5>1
        <4>3. lo <= hi
          BY <1>4
        <4>4. Cardinality(InFlight(th, n)) = Cardinality(S) + (hi - lo)
          <5>1. InFlight(th, n) = S \cup (lo .. hi - 1)
            BY <1>17, <3>3, <3>5
          <5>2. Cardinality(S \cup (lo .. hi - 1)) = Cardinality(S) + (hi - lo)
            BY <1>4, <4>1, <4>2, <4>3, BatchAdds
          <5> QED
            BY <5>1, <5>2
        <4>5. /\ table[n].move_done \in Nat
              /\ table[n].move_done + Cardinality(InFlight(th, n)) = table[n].moved
          BY InFlightWithin
        <4>6. /\ table'[n].move_done = table[n].move_done + (hi - lo)
              /\ table'[n].moved = table[n].moved
          BY <1>7, <1>8, <3>5
        <4> QED
          BY <1>4, <3>2, <4>1, <4>4, <4>5, <4>6
      <3> QED
        BY <3>4, <3>5
    <2> QED
      BY <2>1 DEF Counted
  <1>19. table[p].move_done \in Nat /\ Cap(p) \in Nat /\ table[p].move_done < Cap(p)
    <2>1. lo \in InFlight(th, p)
      <3>1. lo \in Own(th[t], p)
        BY <1>4, <1>17
      <3> QED
        BY <3>1, InFlightIs
    <2> QED
      BY <1>4, <2>1, InFlightWithin
  <1>20. p \notin freed /\ \A u \in Threads : th[u].pc \in Detaching => th[u].prev # p
    BY <1>19 DEF IInv, Alone, Gone
  <1>21. \A u \in Threads : th[u].pc \in Detaching => th[u].prev \in Tables
    BY DEF IInv, Placed
  <1>22. r.pc \in Detaching => table'[p].move_done = Cap(p)
    BY <1>5 DEF Detaching
  <1>23. Alone(th', table', freed')
    BY <1>3, <1>5, <1>8, <1>9, <1>20, <1>21, <1>22 DEF IInv, Alone
  <1>24. Gone(latest', table', freed')
    BY <1>3, <1>8, <1>20 DEF IInv, Gone
  <1>25. Chained(latest', table')
    BY <1>3, <1>10 DEF IInv, Chained
  <1> QED
    BY <1>1, <1>3, <1>8, <1>9, <1>10, <1>13, <1>14, <1>15, <1>18, <1>23, <1>24, <1>25 DEF IInv

-----------------------------------------------------------------------------
(* The theorems                                                             *)

LEMMA InitIInv ==
    ASSUME Init
    PROVE  IInv
  <1>1. 0 \in Tables /\ latest = 0 /\ freed = {}
    BY NbhsAssumption DEF Init, Tables
  <1>2. \A n \in Tables : /\ IsTable(table[n], n) /\ table[n].prev = NoTable
                          /\ table[n].moved = 0 /\ table[n].move_done = 0
    <2>1. ASSUME NEW n \in Tables
          PROVE  /\ IsTable(table[n], n) /\ table[n].prev = NoTable
                 /\ table[n].moved = 0 /\ table[n].move_done = 0
      <3>1. PICK d, c : table[n] = [data |-> d, prev |-> NoTable, moved |-> 0,
                                    move_done |-> 0, count |-> c]
        <4>1. CASE n = 0
          <5>1. table[n] = Loaded
            BY <4>1, <1>1 DEF Init
          <5>2. PICK d, e, c : /\ e = [i \in 0 .. Cap(0) - 1 |-> Empty] /\ c = Len(Preloaded)
                               /\ d = Inserts[Len(Preloaded)]
            OBVIOUS
          <5>3. Blank(0) = [data |-> e, prev |-> NoTable, moved |-> 0, move_done |-> 0, count |-> 0]
            BY <5>2 DEF Blank
          <5>4. Loaded = [Blank(0) EXCEPT !.data = d, !.count = c]
            BY <5>2 DEF Loaded
          <5>5. Loaded = [data |-> d, prev |-> NoTable, moved |-> 0, move_done |-> 0, count |-> c]
            <6>1. PICK x : x = [data |-> e, prev |-> NoTable, moved |-> 0, move_done |-> 0,
                                count |-> 0]
              OBVIOUS
            <6>2. PICK y : y = [x EXCEPT !.data = d, !.count = c]
              OBVIOUS
            <6>3. x = [data |-> x.data, prev |-> x.prev, moved |-> x.moved,
                       move_done |-> x.move_done, count |-> x.count]
                  /\ x.prev = NoTable /\ x.moved = 0 /\ x.move_done = 0
              BY <6>1
            <6>4. y = [data |-> y.data, prev |-> y.prev, moved |-> y.moved,
                       move_done |-> y.move_done, count |-> y.count]
              BY <6>2, <6>3
            <6>5. y.data = d /\ y.count = c /\ y.prev = NoTable /\ y.moved = 0 /\ y.move_done = 0
              BY <6>2, <6>3
            <6> QED
              BY <5>3, <5>4, <6>1, <6>2, <6>4, <6>5
          <5> QED
            BY <5>1, <5>5
        <4>2. CASE n # 0
          BY <4>2 DEF Init, Blank
        <4> QED
          BY <4>1, <4>2
      <3> QED
        BY <3>1, CapIsNat DEF IsTable
    <2> QED
      BY <2>1
  <1>3. PICK r : r = Outside
    OBVIOUS
  <1>4. IsThread(r) /\ r.pc = "outside" /\ r.slot = 0 /\ r.prev = NoTable /\ ~Holding(r)
    BY <1>3 DEF Outside, IsThread, Holding
  <1>5. Placed(r, latest, table)
    BY <1>4 DEF Placed, Detaching, RawIntern
  <1>6. th = [t \in Threads |-> th[t]] /\ \A t \in Threads : th[t] = r
    BY <1>3 DEF Init
  <1>7. Counted(th, table)
    <2>1. \A n \in Tables : InFlight(th, n) = {}
      BY <1>4, <1>6 DEF InFlight
    <2> QED
      BY <1>2, <2>1, FS_EmptySet DEF Counted
  <1>8. table = [n \in Tables |-> table[n]]
    BY DEF Init
  <1> QED
    BY <1>1, <1>2, <1>4, <1>5, <1>6, <1>7, <1>8
    DEF IInv, Chained, Apart, Alone, Gone, Detaching

LEMMA StepKeeps ==
    ASSUME IInv, [Next]_vars
    PROVE  IInv'
  <1>1. CASE UNCHANGED vars
    BY <1>1 DEF IInv, vars
  <1>2. CASE Next
    BY <1>2, OutsideSteps, AccessSteps, RawSteps, ClaimKeeps, CountKeeps, DetachKeeps,
       FreeKeeps, SwapKeeps
    DEF Next, Step
  <1> QED
    BY <1>1, <1>2

LEMMA Inductive == Spec => []IInv
  <1> QED
    BY InitIInv, StepKeeps, PTL DEF Spec

\* The assertions of nbhs.h never fail: a table that is being migrated has none before
\* it (nbhs_raw_intern looks in it, nbhs_intern detaches it), and no more of its entries
\* are counted as moved than it has.
THEOREM AssertionsNeverFail == Spec => []AssertionsHold
  <1>1. IInv => AssertionsHold
    <2> SUFFICES ASSUME IInv PROVE AssertionsHold
      OBVIOUS
    <2>1. ASSUME NEW t \in Threads, th[t].pc = "lookup", th[t].curr # NoTable
          PROVE  table[th[t].curr].prev = NoTable
      <3>1. th[t].curr \in Tables /\ th[t].curr < latest
        BY <2>1 DEF IInv, Placed
      <3> QED
        BY <3>1, TableNumbers DEF IInv, Chained
    <2>2. ASSUME NEW t \in Threads, th[t].pc = "detach"
          PROVE  table[th[t].prev].prev = NoTable
      <3>1. /\ th[t].prev # NoTable /\ th[t].prev \in Tables
            /\ th[t].latest = th[t].prev + 1 /\ th[t].latest <= latest
        BY <2>2 DEF IInv, Placed, Detaching
      <3>2. latest \in Nat /\ th[t].prev \in Nat /\ th[t].prev # latest
        BY <3>1, TableNumbers DEF IInv
      <3> QED
        BY <3>1, <3>2 DEF IInv, Chained
    <2>3. ASSUME NEW n \in Tables
          PROVE  table[n].move_done <= Cap(n)
      BY InFlightWithin
    <2> QED
      BY <2>1, <2>2, <2>3 DEF AssertionsHold
  <1> QED
    BY <1>1, Inductive, PTL

\* Who completes the count of moved entries is the only one to detach the table and
\* to free it: the table is still there, and nobody copies from it.
THEOREM TablesFreedOnce == Spec => []OneDetacher
  <1>1. IInv => OneDetacher
    <2> SUFFICES ASSUME IInv, NEW t \in Threads, th[t].pc \in Detaching
                 PROVE  /\ th[t].prev \notin freed
                        /\ table[th[t].prev].move_done = Cap(th[t].prev)
                        /\ \A u \in Threads : u # t /\ th[u].prev = th[t].prev =>
                             th[u].pc \notin Detaching /\ ~Holding(th[u])
      BY DEF OneDetacher
    <2>1. PICK n : n = th[t].prev
      OBVIOUS
    <2>2. n \in Tables /\ n \notin freed /\ table[n].move_done = Cap(n)
      BY <2>1 DEF IInv, Placed, Alone
    <2>3. InFlight(th, n) = {}
      BY <2>2, InFlightWithin
    <2>4. ASSUME NEW u \in Threads, Holding(th[u]), th[u].prev = n
          PROVE  FALSE
      <3>1. th[u].lo \in Nat /\ th[u].hi \in Nat /\ th[u].lo < th[u].hi
        BY <2>4 DEF IInv, Placed
      <3>2. th[u].lo \in th[u].lo .. th[u].hi - 1
        BY <3>1
      <3>3. th[u].lo \in InFlight(th, n)
        BY <2>4, <3>2 DEF InFlight
      <3> QED
        BY <2>3, <3>3
    <2> QED
      BY <2>1, <2>2, <2>4 DEF IInv, Alone
  <1> QED
    BY <1>1, Inductive, PTL

-----------------------------------------------------------------------------
(* Hazard pointers                                                          *)

\* Where nbhs_hazard_access is called, and the hazard pointer it sets.
Accesses(r, s) ==
    \/ r.pc = "latest" /\ s = 0
    \/ r.pc = "prev" /\ s = 1
    \/ r.pc = "older" /\ s = r.slot + 1
    \/ r.pc = "again" /\ s = 4

\* In nbhs_intern until its last call of nbhs_raw_intern holds a table for itself.
Early == {"prev", "look", "claim", "copy", "skip", "grow", "swap", "hold"} \cup Detaching

\* Hazard pointer s of a thread is the one that is to keep table c for it.
Protects(r, s, c) ==
    \/ s = 0 /\ c = r.latest /\ (r.pc \in Early \/ r.slot = 2)
    \/ s = 0 /\ c = r.cur /\ r.slot = 0 /\ r.pc \in RawIntern \ {"hold"}
    \/ s = 1 /\ c = r.prev /\ (r.pc \in {"look", "claim"} \/ Holding(r))
    \/ s = r.slot + 1 /\ c = r.curr /\ r.pc = "lookup"
    \/ s = 4 /\ c = r.curr /\ r.pc = "settle"

\* A thread that waits for hazard pointers is still to come to pointer s of thread u.
Ahead(r, u, s) == \E i \in DOMAIN r.left : r.left[i] = u /\ (i = 1 => r.at <= s)

Awaits(r, c) == r.pc = "wait_hazards" /\ r.prev = c

\* The hazard pointers keep what they are to keep: they name it, and whoever waits for
\* it to be let go has not passed them.
Safe(q, hz, f) == \A u \in Threads, s \in Slots, c \in Tables :
    Protects(q[u], s, c) =>
        /\ hz[u][s] = c /\ c \notin f
        /\ \A t \in Threads : t # u /\ Awaits(q[t], c) => Ahead(q[t], u, s)

\* A thread's hazard access is between its loads; the tables of nbhs_raw_intern are
\* those of nbhs_intern until `latest` is seen to have moved on.
Local(r, h) ==
    /\ r.ha # "load" => \E s \in Slots : Accesses(r, s)
    /\ r.ha = "check" => \A s \in Slots : Accesses(r, s) => h[s] = r.seen
    /\ r.pc = "wait_hazards" => r.left \in Seq(Threads) /\ r.at \in Nat
    /\ r.pc \in {"grow", "swap"} \/ r.slot = 2 => r.cur = r.latest
    /\ r.pc = "settle" => r.cur <= r.curr /\ (r.slot = 2 => r.curr = r.latest)
    /\ r.pc = "hold" => r.slot = 0 /\ r.latest < r.cur

\* The table a failed CAS of `latest` has read is there before a hazard names it.
Held(q, f) == \A t \in Threads : q[t].pc = "hold" => q[t].cur \notin f

OnList(hs, t) == \E i \in DOMAIN hs : hs[i] = t
Registered(q, hs) ==
    \A t \in Threads : q[t].pc \notin {"outside", "register"} => OnList(hs, t)

\* A table that is not freed is the latest, the one before it, or being freed.
Live(q, l, tb, f) == \A c \in Tables : c < l =>
    \/ c \in f \/ tb[l].prev = c
    \/ \E t \in Threads : q[t].pc \in {"scan", "wait_hazards"} /\ q[t].prev = c

\* Nothing leads to a table that is freed or waits to be.
Off(q, tb, f) ==
    /\ \A c \in f : tb[c + 1].prev = NoTable
    /\ \A t \in Threads : q[t].pc \in {"scan", "wait_hazards"} =>
         tb[q[t].prev + 1].prev = NoTable

HInv ==
    /\ hazards \in Seq(Threads)
    /\ hazard = [t \in Threads |-> hazard[t]]
    /\ \A t \in Threads : hazard[t] = [s \in Slots |-> hazard[t][s]]
    /\ \A t \in Threads : Local(th[t], hazard[t])
    /\ Registered(th, hazards) /\ Held(th, freed) /\ Safe(th, hazard, freed)
    /\ Live(th, latest, table, freed) /\ Off(th, table, freed)

\* A table nobody is about to free: a thread that comes to hold it is not too late.
Fresh(t, c) == c \notin freed /\ \A w \in Threads : w # t => ~Awaits(th[w], c)

\* Thread t goes on as r with hazard pointers h: they keep what it keeps.
Covers(t, r, h) == \A s \in Slots, c \in Tables : Protects(r, s, c) =>
    h[s] = c /\ (Protects(th[t], s, c) \/ Fresh(t, c))

\* A step of a thread that does not wait for hazard pointers after it.
LEMMA ThreadMovesTo ==
    ASSUME IInv, HInv, NEW t \in Threads, NEW r, NEW h,
           th' = [th EXCEPT ![t] = r], hazard' = [hazard EXCEPT ![t] = h],
           h = [s \in Slots |-> h[s]],
           UNCHANGED freed, hazards' \in Seq(Threads),
           \A u \in Threads : OnList(hazards, u) => OnList(hazards', u),
           Live(th', latest', table', freed'), Off(th', table', freed'), r.pc # "wait_hazards",
           r.pc \in {"outside", "register"} \/ OnList(hazards', t),
           Local(r, h), r.pc = "hold" => r.cur \notin freed, Covers(t, r, h)
    PROVE  HInv'
  <1>1. /\ th' = [u \in Threads |-> th'[u]] /\ th'[t] = r
        /\ \A u \in Threads : u # t => th'[u] = th[u]
    BY DEF IInv
  <1>2. /\ hazard' = [u \in Threads |-> hazard'[u]] /\ hazard'[t] = h
        /\ \A u \in Threads : u # t => hazard'[u] = hazard[u]
    BY DEF HInv
  <1>3. \A u \in Threads : hazard'[u] = [s \in Slots |-> hazard'[u][s]]
    BY <1>2 DEF HInv
  <1>4. \A u \in Threads : Local(th'[u], hazard'[u])
    <2>1. PICK q, hz : q = th' /\ hz = hazard'
      OBVIOUS
    <2>2. \A u \in Threads : Local(q[u], hz[u])
      BY <1>1, <1>2, <2>1 DEF HInv
    <2> QED
      BY <2>1, <2>2
  <1>5. Registered(th', hazards')
    BY <1>1 DEF HInv, Registered
  <1>6. Held(th', freed')
    BY <1>1 DEF HInv, Held
  <1>7. Safe(th', hazard', freed')
    <2>1. PICK q, hz : q = th' /\ hz = hazard'
      OBVIOUS
    <2>2. \A c : \A w \in Threads : Awaits(q[w], c) => w # t /\ q[w] = th[w]
      BY <1>1, <2>1 DEF Awaits
    <2>3. ASSUME NEW u \in Threads, NEW s \in Slots, NEW c \in Tables, Protects(q[u], s, c)
          PROVE  /\ hz[u][s] = c /\ c \notin freed
                 /\ \A w \in Threads : w # u /\ Awaits(q[w], c) => Ahead(q[w], u, s)
      <3>1. CASE u # t
        <4>1. q[u] = th[u] /\ hz[u] = hazard[u]
          BY <1>1, <1>2, <2>1, <3>1
        <4>2. Safe(th, hazard, freed) /\ Protects(th[u], s, c)
          BY <2>3, <4>1 DEF HInv
        <4>3. /\ hazard[u][s] = c /\ c \notin freed
              /\ \A w \in Threads : w # u /\ Awaits(th[w], c) => Ahead(th[w], u, s)
          BY <4>2 DEF Safe
        <4> QED
          BY <2>2, <4>1, <4>3
      <3>2. CASE u = t
        <4>1. q[u] = r /\ hz[u] = h
          BY <1>1, <1>2, <2>1, <3>2
        <4>2. h[s] = c /\ (Protects(th[t], s, c) \/ Fresh(t, c))
          BY <2>3, <4>1 DEF Covers
        <4>3. CASE Protects(th[t], s, c)
          BY <2>2, <3>2, <4>1, <4>2, <4>3 DEF HInv, Safe
        <4>4. CASE Fresh(t, c)
          BY <2>2, <3>2, <4>1, <4>2, <4>4 DEF Fresh
        <4> QED
          BY <4>2, <4>3, <4>4
      <3> QED
        BY <3>1, <3>2
    <2>4. Safe(q, hz, freed)
      BY <2>3 DEF Safe
    <2> QED
      BY <2>1, <2>4
  <1> QED
    BY <1>2, <1>3, <1>4, <1>5, <1>6, <1>7 DEF HInv

\* A step of a thread that is not waiting for hazard pointers, before it or after it.
LEMMA ThreadMovesListed ==
    ASSUME IInv, HInv, NEW t \in Threads, NEW r, NEW h,
           th' = [th EXCEPT ![t] = r], hazard' = [hazard EXCEPT ![t] = h],
           h = [s \in Slots |-> h[s]],
           UNCHANGED <<latest, freed>>, hazards' \in Seq(Threads),
           \A u \in Threads : OnList(hazards, u) => OnList(hazards', u),
           \A n \in Tables : table'[n].prev = table[n].prev,
           th[t].pc \notin {"scan", "wait_hazards"}, r.pc \notin {"scan", "wait_hazards"},
           r.pc \in {"outside", "register"} \/ OnList(hazards', t),
           Local(r, h), r.pc = "hold" => r.cur \notin freed, Covers(t, r, h)
    PROVE  HInv'
  <1>1. /\ th'[t] = r
        /\ \A u \in Threads : u # t => th'[u] = th[u]
    BY DEF IInv
  <1>2. Live(th', latest', table', freed')
    <2>1. table'[latest].prev = table[latest].prev
      BY DEF IInv
    <2>2. ASSUME NEW c \in Tables, c < latest
          PROVE  \/ c \in freed \/ table'[latest].prev = c
                 \/ \E u \in Threads : th'[u].pc \in {"scan", "wait_hazards"} /\ th'[u].prev = c
      <3>1. \/ c \in freed \/ table[latest].prev = c
            \/ \E u \in Threads : th[u].pc \in {"scan", "wait_hazards"} /\ th[u].prev = c
        BY <2>2 DEF HInv, Live
      <3>2. ASSUME NEW u \in Threads, th[u].pc \in {"scan", "wait_hazards"}, th[u].prev = c
            PROVE  th'[u] = th[u]
        BY <1>1, <3>2
      <3> QED
        BY <2>1, <3>1, <3>2
    <2> QED
      BY <2>2 DEF Live
  <1>3. Off(th', table', freed')
    <2>1. \A n \in Tables : n \in Nat /\ n < MaxTables
      BY TableNumbers
    <2>2. \A c \in freed : c + 1 \in Tables
      <3>1. \A c \in freed : c \in Tables /\ c < latest /\ latest \in Tables
        BY DEF IInv, Gone
      <3>2. ASSUME NEW c \in freed PROVE c + 1 \in Tables
        <4>1. c \in Nat /\ latest \in Nat /\ c < latest /\ latest < MaxTables /\ MaxTables \in Nat
          BY <2>1, <3>1, TableNumbers
        <4> QED
          BY <4>1 DEF Tables
      <3> QED
        BY <3>2
    <2>3. \A u \in Threads : th[u].pc \in {"scan", "wait_hazards"} => th[u].prev + 1 \in Tables
      BY <2>1 DEF IInv, Placed, Tables, Detaching
    <2>4. \A c \in freed : table'[c + 1].prev = NoTable
      BY <2>2 DEF HInv, Off
    <2>5. \A u \in Threads : th'[u].pc \in {"scan", "wait_hazards"} =>
             table'[th'[u].prev + 1].prev = NoTable
      BY <1>1, <2>3 DEF HInv, Off
    <2> QED
      BY <2>4, <2>5 DEF Off
  <1>4. r.pc # "wait_hazards"
    OBVIOUS
  <1> QED
    BY <1>2, <1>3, <1>4, ThreadMovesTo

LEMMA ThreadMoves ==
    ASSUME IInv, HInv, NEW t \in Threads, NEW r, NEW h,
           th' = [th EXCEPT ![t] = r], hazard' = [hazard EXCEPT ![t] = h],
           h = [s \in Slots |-> h[s]],
           UNCHANGED <<latest, freed, hazards>>,
           \A n \in Tables : table'[n].prev = table[n].prev,
           th[t].pc \notin {"scan", "wait_hazards"}, r.pc \notin {"scan", "wait_hazards"},
           r.pc \in {"outside", "register"} \/ OnList(hazards, t),
           Local(r, h), r.pc = "hold" => r.cur \notin freed, Covers(t, r, h)
    PROVE  HInv'
  <1>1. hazards' \in Seq(Threads) /\ \A u \in Threads : OnList(hazards, u) => OnList(hazards', u)
    BY DEF HInv
  <1> QED
    BY <1>1, ThreadMovesListed

\* The table of a batch is the one before the latest table.
LEMMA HoldersAreLatest ==
    ASSUME IInv, HInv, NEW t \in Threads, Holding(th[t])
    PROVE  th[t].latest = latest /\ table[latest].prev = th[t].prev
  <1>1. PICK p : p = th[t].prev
    OBVIOUS
  <1>2. /\ p \in Tables /\ th[t].latest = p + 1 /\ p + 1 <= latest /\ p \in Nat /\ latest \in Nat
        /\ th[t].lo \in Nat /\ th[t].hi \in Nat /\ th[t].lo < th[t].hi
    BY <1>1, TableNumbers DEF IInv, Placed
  <1>3. table[p].move_done # Cap(p)
    <2>1. th[t].lo \in th[t].lo .. th[t].hi - 1
      BY <1>2
    <2>2. th[t].lo \in InFlight(th, p)
      BY <1>1, <2>1 DEF InFlight
    <2> QED
      BY <1>2, <2>2, InFlightWithin
  <1>4. p \notin freed
    BY <1>3 DEF IInv, Gone
  <1>5. \A u \in Threads : th[u].pc \in Detaching => th[u].prev # p
    BY <1>3 DEF IInv, Alone
  <1>6. p < latest
    BY <1>2
  <1>7. table[latest].prev = p
    BY <1>2, <1>4, <1>5, <1>6 DEF HInv, Live, Detaching
  <1>8. latest = p + 1
    BY <1>2, <1>7, TableNumbers DEF IInv, Chained
  <1> QED
    BY <1>1, <1>2, <1>7, <1>8

\* What a hazard access leaves with, nobody is about to free.
LEMMA LatestIsFresh ==
    ASSUME IInv, NEW t
    PROVE  Fresh(t, latest)
  <1>1. latest \in Nat
    BY TableNumbers DEF IInv
  <1>2. latest \notin freed
    BY <1>1 DEF IInv, Gone
  <1>3. ASSUME NEW w \in Threads, Awaits(th[w], latest)
        PROVE  FALSE
    <2>1. /\ th[w].prev = latest /\ th[w].prev # NoTable /\ th[w].latest = latest + 1
          /\ th[w].latest <= latest
      BY <1>3 DEF IInv, Placed, Awaits, Detaching
    <2> QED
      BY <1>1, <2>1
  <1> QED
    BY <1>2, <1>3 DEF Fresh

LEMMA PrevIsFresh ==
    ASSUME IInv, HInv, NEW t, NEW n \in Tables, table[n].prev # NoTable
    PROVE  Fresh(t, table[n].prev)
  <1>1. PICK c : c = table[n].prev
    OBVIOUS
  <1>2. c \in Tables /\ n = c + 1
    BY <1>1 DEF IInv, Chained
  <1>3. c \notin freed
    BY <1>1, <1>2 DEF HInv, Off
  <1>4. \A w \in Threads : ~Awaits(th[w], c)
    BY <1>1, <1>2 DEF HInv, Off, Awaits
  <1> QED
    BY <1>1, <1>3, <1>4 DEF Fresh

-----------------------------------------------------------------------------
(* Two threads                                                              *)

AtMostTwo == \A t, u, w \in Threads : t = u \/ u = w \/ t = w

LEMMA TwoThreads ==
    ASSUME Cardinality(Threads) <= 2
    PROVE  AtMostTwo
  <1> SUFFICES ASSUME NEW t \in Threads, NEW u \in Threads, NEW w \in Threads,
                      t # u, u # w, t # w
               PROVE  FALSE
    BY DEF AtMostTwo
  <1>1. IsFiniteSet({}) /\ Cardinality({}) = 0
    BY FS_EmptySet
  <1>2. IsFiniteSet({t}) /\ Cardinality({t}) = 1
    BY FS_Singleton
  <1>3. IsFiniteSet({t} \cup {u}) /\ Cardinality({t} \cup {u}) = 2
    BY <1>2, FS_AddElement
  <1>4. Cardinality({t} \cup {u} \cup {w}) = 3
    <2>1. PICK S : S = {t} \cup {u}
      OBVIOUS
    <2>2. IsFiniteSet(S) /\ Cardinality(S) = 2 /\ w \notin S
      BY <1>3, <2>1
    <2>3. Cardinality(S \cup {w}) = Cardinality(S) + 1
      BY <2>2, FS_AddElement
    <2> QED
      BY <2>1, <2>2, <2>3
  <1>5. Cardinality({t} \cup {u} \cup {w}) <= Cardinality(Threads)
    <2>1. PICK S : S = {t} \cup {u} \cup {w}
      OBVIOUS
    <2>2. IsFiniteSet(Threads) /\ S \subseteq Threads
      BY <2>1, NbhsAssumption
    <2> QED
      BY <2>1, <2>2, FS_Subset
  <1>6. Cardinality(Threads) \in Nat
    BY NbhsAssumption, FS_CardinalityType
  <1> QED
    BY <1>4, <1>5, <1>6

\* While one thread frees a table, the other has no older one that is not freed: the
\* thread that frees it would have had to free that one first.
LEMMA NoneIsOlder ==
    ASSUME IInv, HInv, AtMostTwo, NEW t \in Threads, NEW u \in Threads, t # u,
           th[t].pc \in {"scan", "wait_hazards"}, th[u].pc \notin Detaching,
           NEW b \in Tables, b < th[t].prev
    PROVE  b \in freed
  <1>1. PICK c : c = th[t].prev
    OBVIOUS
  <1>2. /\ c \in Tables /\ c \in Nat /\ b \in Nat /\ latest \in Nat /\ c + 1 <= latest /\ b < c
        /\ latest \in Tables
    BY <1>1, TableNumbers DEF IInv, Placed, Detaching
  <1>3. b < latest
    BY <1>2
  <1>4. table[latest].prev # b
    BY <1>2, TableNumbers DEF IInv, Chained
  <1>5. ~\E w \in Threads : th[w].pc \in {"scan", "wait_hazards"} /\ th[w].prev = b
    <2> SUFFICES ASSUME NEW w \in Threads, th[w].pc \in {"scan", "wait_hazards"}, th[w].prev = b
                 PROVE  FALSE
      OBVIOUS
    <2>1. w # u
      BY DEF Detaching
    <2>2. w # t
      BY <1>1, <1>2
    <2> QED
      BY <2>1, <2>2 DEF AtMostTwo
  <1> QED
    BY <1>3, <1>4, <1>5 DEF HInv, Live

-----------------------------------------------------------------------------
(* What a step leaves of the invariant of the hazard pointers               *)

LEMMA Rows ==
    ASSUME HInv, NEW t \in Threads
    PROVE  /\ Local(th[t], hazard[t]) /\ hazard[t] = [s \in Slots |-> hazard[t][s]]
           /\ hazard = [hazard EXCEPT ![t] = hazard[t]]
           /\ th[t].pc \notin {"outside", "register"} => OnList(hazards, t)
  <1>1. hazard = [hazard EXCEPT ![t] = hazard[t]]
    BY DEF HInv
  <1>2. Registered(th, hazards)
    BY DEF HInv
  <1> QED
    BY <1>1, <1>2 DEF HInv, Registered

Elsewhere(g, h, s) == \A n \in Slots : n # s => h[n] = g[n]

LEMMA RowSet ==
    ASSUME HInv, NEW t \in Threads, NEW s \in Slots, NEW x, NEW h,
           h = [hazard[t] EXCEPT ![s] = x]
    PROVE  /\ [hazard EXCEPT ![t][s] = x] = [hazard EXCEPT ![t] = h]
           /\ h = [n \in Slots |-> h[n]]
           /\ h[s] = x /\ Elsewhere(hazard[t], h, s)
  BY DEF HInv, Elsewhere

\* The two stores of nbhs_raw_intern when it settles.
Stores(t, s, x) == hazard' = [hazard EXCEPT ![t][s] = x, ![t][4] = NoTable]

LEMMA StoresSet ==
    ASSUME HInv, NEW t \in Threads, NEW s \in {0, 2}, NEW x, Stores(t, s, x)
    PROVE  \E h : /\ hazard' = [hazard EXCEPT ![t] = h]
                  /\ h = [n \in Slots |-> h[n]] /\ h[s] = x
                  /\ s = 2 => h[0] = hazard[t][0] /\ h[1] = hazard[t][1]
  <1>1. PICK g, z, h : g = hazard[t] /\ z = hazard /\ h = [g EXCEPT ![s] = x, ![4] = NoTable]
    OBVIOUS
  <1>2. g = [n \in Slots |-> g[n]] /\ z = [u \in Threads |-> z[u]] /\ z[t] = g
    BY <1>1 DEF HInv
  <1>3. 0 \in Slots /\ 1 \in Slots /\ 2 \in Slots /\ 4 \in Slots /\ s \in Slots
    BY DEF Slots
  <1>4. h = [n \in Slots |-> IF n = 4 THEN NoTable ELSE IF n = s THEN x ELSE g[n]]
    BY <1>1, <1>2, <1>3
  <1>5. h[s] = x
    <2>1. s # 4
      OBVIOUS
    <2> QED
      BY <1>3, <1>4, <2>1
  <1>6. h = [n \in Slots |-> h[n]]
    BY <1>4
  <1>7. s = 2 => h[0] = g[0] /\ h[1] = g[1]
    BY <1>3, <1>4
  <1>8. hazard' = [z EXCEPT ![t] = h]
    <2>1. PICK z1 : z1 = [z EXCEPT ![t][s] = x]
      OBVIOUS
    <2>2. z1 = [u \in Threads |-> z1[u]] /\ z1[t] = [g EXCEPT ![s] = x]
      BY <1>2, <2>1
    <2>3. [z1 EXCEPT ![t][4] = NoTable] = [z EXCEPT ![t] = h]
      BY <1>1, <1>2, <2>1, <2>2
    <2> QED
      BY <1>1, <2>1, <2>3 DEF Stores
  <1> QED
    BY <1>1, <1>5, <1>6, <1>7, <1>8

LEMMA Kept ==
    ASSUME HInv, NEW t \in Threads, NEW s \in Slots, NEW c \in Tables, Protects(th[t], s, c)
    PROVE  hazard[t][s] = c /\ c \notin freed
  BY DEF HInv, Safe

\* A thread in nbhs_raw_intern goes on with the same tables.
LEMMA RawMoves ==
    ASSUME IInv, HInv, NEW t \in Threads, NEW r, th' = [th EXCEPT ![t] = r],
           UNCHANGED <<latest, freed, hazards, hazard>>,
           \A n \in Tables : table'[n].prev = table[n].prev,
           th[t].pc \in RawIntern \ {"hold"},
           r.pc \in RawIntern \ {"grow", "swap", "hold", "lookup", "settle"}, r.ha = "load",
           r.slot = th[t].slot, r.latest = th[t].latest, r.prev = th[t].prev, r.cur = th[t].cur
    PROVE  HInv'
  <1>1. /\ r.pc \notin Early \cup {"look", "claim", "copy"}
        /\ th[t].pc \notin {"scan", "wait_hazards"} /\ r.pc \notin {"scan", "wait_hazards"}
        /\ th[t].pc \notin {"outside", "register"}
    BY DEF RawIntern, Early, Detaching
  <1>2. Local(r, hazard[t])
    <2>1. Local(th[t], hazard[t])
      BY Rows
    <2> QED
      BY <1>1, <2>1 DEF Local, RawIntern
  <1>3. \A s \in Slots, c \in Tables : Protects(r, s, c) => Protects(th[t], s, c)
    BY <1>1 DEF Protects, Holding
  <1>4. PICK h : h = hazard[t]
    OBVIOUS
  <1>5. /\ h = [s \in Slots |-> h[s]] /\ hazard' = [hazard EXCEPT ![t] = h] /\ Local(r, h)
        /\ r.pc \in {"outside", "register"} \/ OnList(hazards, t)
        /\ r.pc = "hold" => r.cur \notin freed
    BY <1>1, <1>2, <1>4, Rows
  <1>6. Covers(t, r, h)
    BY <1>3, <1>4, Kept DEF Covers
  <1>7. th[t].pc \notin {"scan", "wait_hazards"} /\ r.pc \notin {"scan", "wait_hazards"}
    BY <1>1
  <1> QED
    BY <1>5, <1>6, <1>7, ThreadMoves

\* A thread leaves nbhs_raw_intern, and may clear hazard pointers other than those of
\* nbhs_intern's own tables.
LEMMA LeaveMoves ==
    ASSUME IInv, HInv, NEW t \in Threads, NEW w, NEW h, Leave(t, w), th[t].pc \in RawIntern,
           th[t].ha = "load",
           UNCHANGED <<latest, freed, hazards>>,
           \A n \in Tables : table'[n].prev = table[n].prev,
           hazard' = [hazard EXCEPT ![t] = h], h = [s \in Slots |-> h[s]],
           th[t].slot = 2 => h[0] = hazard[t][0] /\ h[1] = hazard[t][1]
    PROVE  HInv'
  <1>0. Placed(th[t], latest, table)
    BY DEF IInv
  <1>1. /\ th[t].pc \notin {"scan", "wait_hazards"} /\ th[t].pc \notin {"outside", "register"}
    BY DEF RawIntern
  <1>2. CASE th[t].slot = 2
    <2>1. PICK r : r = [Enter(th[t], NoTable, Nil, 0)
                          EXCEPT !.pc = "copy", !.at = @ + 1, !.curr = NoTable]
      OBVIOUS
    <2>2. th' = [th EXCEPT ![t] = r]
      BY <1>2, <2>1 DEF Leave
    <2>3. /\ r.pc = "copy" /\ r.slot = 0 /\ r.latest = th[t].latest
          /\ r.prev = th[t].prev /\ r.ha = th[t].ha
      BY <1>0, <2>1 DEF Placed, IsThread, Enter
    <2>4. Local(r, h)
      BY <2>3 DEF Local
    <2>5. Covers(t, r, h)
      <3> SUFFICES ASSUME NEW s \in Slots, NEW c \in Tables, Protects(r, s, c)
                   PROVE  h[s] = c /\ Protects(th[t], s, c)
        BY DEF Covers
      <3>1. Protects(th[t], s, c) /\ s \in {0, 1}
        BY <1>2, <2>3 DEF Protects, Holding, RawIntern
      <3>2. hazard[t][s] = c
        BY <3>1, Kept
      <3> QED
        BY <1>2, <3>1, <3>2
    <2>6. r.pc \in {"outside", "register"} \/ OnList(hazards, t)
      BY <1>1, Rows
    <2>7. /\ th[t].pc \notin {"scan", "wait_hazards"} /\ r.pc \notin {"scan", "wait_hazards"}
          /\ r.pc = "hold" => r.cur \notin freed
      BY <1>1, <2>3
    <2> QED
      BY <2>2, <2>4, <2>5, <2>6, <2>7, ThreadMoves
  <1>3. CASE th[t].slot # 2
    <2>1. PICK r : r = Outside
      OBVIOUS
    <2>2. th' = [th EXCEPT ![t] = r]
      BY <1>3, <2>1 DEF Leave
    <2>3. r.pc = "outside" /\ r.slot = 0 /\ r.ha = "load"
      BY <2>1 DEF Outside
    <2>4. Local(r, h)
      BY <2>3 DEF Local
    <2>5. Covers(t, r, h)
      BY <2>3 DEF Covers, Protects, Holding, Early, RawIntern, Detaching
    <2>6. /\ r.pc \notin {"scan", "wait_hazards"} /\ (r.pc = "hold" => r.cur \notin freed)
          /\ r.pc \in {"outside", "register"}
      BY <2>3
    <2> QED
      BY <1>1, <2>2, <2>4, <2>5, <2>6, ThreadMoves
  <1> QED
    BY <1>2, <1>3

\* Outside a hazard access no load is under way.
LEMMA NotAccessing ==
    ASSUME HInv, NEW t \in Threads, th[t].pc \notin {"latest", "prev", "older", "again"}
    PROVE  th[t].ha = "load"
  BY Rows DEF Local, Accesses

LEMMA TryEntryMoves ==
    ASSUME IInv, HInv, NEW t \in Threads, NEW e, TryEntry(t, e),
           th[t].pc \in {"probe", "reserve"}, UNCHANGED <<latest, freed, hazards, hazard, table>>
    PROVE  HInv'
  <1>1. /\ IsThread(th[t]) /\ th[t].pc \in RawIntern /\ th[t].ha = "load"
    BY NotAccessing DEF IInv, Placed, RawIntern
  <1>2. CASE Leave(t, e.p)
    <2>1. PICK h, w : h = hazard[t] /\ w = e.p
      OBVIOUS
    <2>2. /\ h = [s \in Slots |-> h[s]] /\ hazard' = [hazard EXCEPT ![t] = h]
          /\ h[0] = hazard[t][0] /\ h[1] = hazard[t][1]
      BY <2>1, Rows
    <2>3. Leave(t, w)
      BY <1>2, <2>1
    <2> QED
      BY <1>1, <2>2, <2>3, LeaveMoves
  <1>3. CASE ~Leave(t, e.p)
    <2>1. PICK r : r = th'[t]
      OBVIOUS
    <2>2. /\ th' = [th EXCEPT ![t] = r]
          /\ \/ r = [th[t] EXCEPT !.pc = "again"] \/ r = [th[t] EXCEPT !.pc = "wait"]
             \/ r = [th[t] EXCEPT !.pc = "probe", !.i = @ + 1]
      BY <1>1, <1>3, <2>1 DEF TryEntry, IInv, IsThread
    <2>3. /\ r.pc \in {"again", "probe", "wait"} /\ r.slot = th[t].slot
          /\ r.latest = th[t].latest /\ r.prev = th[t].prev /\ r.cur = th[t].cur
          /\ r.ha = th[t].ha
      <3>1. CASE r = [th[t] EXCEPT !.pc = "again"]
        BY <1>1, <3>1 DEF IsThread
      <3>2. CASE r = [th[t] EXCEPT !.pc = "wait"]
        BY <1>1, <3>2 DEF IsThread
      <3>3. CASE r = [th[t] EXCEPT !.pc = "probe", !.i = @ + 1]
        BY <1>1, <3>3 DEF IsThread
      <3> QED
        BY <2>2, <3>1, <3>2, <3>3
    <2>4. th[t].pc \in RawIntern \ {"hold"}
          /\ r.pc \in RawIntern \ {"grow", "swap", "hold", "lookup", "settle"}
      BY <2>3 DEF RawIntern
    <2> QED
      BY <1>1, <2>2, <2>3, <2>4, RawMoves
  <1> QED
    BY <1>2, <1>3

-----------------------------------------------------------------------------
(* The steps of nbhs_intern                                                 *)

\* A thread whose hazard pointers stay as they are.
LEMMA SameHazards ==
    ASSUME IInv, HInv, NEW t \in Threads, NEW r, th' = [th EXCEPT ![t] = r],
           UNCHANGED <<latest, freed, hazards, hazard>>,
           \A n \in Tables : table'[n].prev = table[n].prev,
           th[t].pc \notin {"scan", "wait_hazards"}, r.pc \notin {"scan", "wait_hazards"},
           r.pc \in {"outside", "register"} \/ OnList(hazards, t),
           Local(r, hazard[t]), r.pc = "hold" => r.cur \notin freed, Covers(t, r, hazard[t])
    PROVE  HInv'
  <1>1. PICK h : h = hazard[t]
    OBVIOUS
  <1>2. /\ h = [s \in Slots |-> h[s]] /\ hazard' = [hazard EXCEPT ![t] = h]
        /\ Local(r, h) /\ Covers(t, r, h)
    BY <1>1, Rows
  <1> QED
    BY <1>2, ThreadMoves

\* ... and that protects no other table than before.
LEMMA NoneNew ==
    ASSUME HInv, NEW t \in Threads, NEW r,
           \A s \in Slots, c \in Tables : Protects(r, s, c) => Protects(th[t], s, c)
    PROVE  Covers(t, r, hazard[t])
  BY Kept DEF Covers

LEMMA OutsideMoves ==
    ASSUME IInv, HInv, NEW t \in Threads,
           \/ Begin(t) \/ Register(t) \/ LookMoved(t) \/ CopyEntry(t) \/ ClaimBatch(t)
           \/ CountMoved(t) \/ Skip(t)
    PROVE  HInv'
  <1>1. /\ Placed(th[t], latest, table) /\ IsThread(th[t])
        /\ th = [u \in Threads |-> th[u]]
        /\ table = [n \in Tables |-> table[n]] /\ \A n \in Tables : IsTable(table[n], n)
        /\ UNCHANGED <<latest, freed>>
    BY DEF IInv, Placed, Begin, Register, LookMoved, CopyEntry, ClaimBatch, CountMoved, Skip
  <1>2. PICK r : r = th'[t]
    OBVIOUS
  <1>3. CASE Begin(t)
    <2>1. /\ th[t].pc = "outside" /\ UNCHANGED <<table, hazards, hazard>>
          /\ \E x : \E p \in {"latest", "register"} :
               th' = [th EXCEPT ![t].val = x, ![t].pc = p] /\ (p = "latest" => Contains(hazards, t))
      BY <1>3 DEF Begin
    <2>2. PICK x, p : /\ p \in {"latest", "register"} /\ (p = "latest" => Contains(hazards, t))
                      /\ th' = [th EXCEPT ![t].val = x, ![t].pc = p]
      BY <2>1
    <2>3. th' = [th EXCEPT ![t] = r] /\ r = [th[t] EXCEPT !.val = x, !.pc = p]
      BY <1>1, <1>2, <2>2
    <2>4. /\ r.pc = p /\ r.slot = 0 /\ r.ha = "load"
      BY <1>1, <2>1, <2>3, NotAccessing DEF IsThread, Placed, RawIntern
    <2>5. r.pc \in {"outside", "register"} \/ OnList(hazards, t)
      BY <2>2, <2>4 DEF OnList, Contains, HInv
    <2>6. Local(r, hazard[t])
      BY <2>2, <2>4 DEF Local
    <2>7. Covers(t, r, hazard[t])
      BY <2>2, <2>4 DEF Covers, Protects, Early, RawIntern, Detaching, Holding
    <2>8. /\ th[t].pc \notin {"scan", "wait_hazards"} /\ r.pc \notin {"scan", "wait_hazards"}
          /\ r.pc = "hold" => r.cur \notin freed
      BY <2>1, <2>2, <2>4
    <2> QED
      BY <1>1, <2>1, <2>3, <2>5, <2>6, <2>7, <2>8, SameHazards
  <1>4. CASE Register(t)
    <2>1. /\ th[t].pc = "register" /\ UNCHANGED <<table, hazard>> /\ hazards' = <<t>> \o hazards
          /\ th' = [th EXCEPT ![t] = r] /\ r = [th[t] EXCEPT !.pc = "latest"]
      BY <1>1, <1>2, <1>4 DEF Register
    <2>2. r.pc = "latest" /\ r.slot = 0 /\ r.ha = "load"
      BY <1>1, <2>1, NotAccessing DEF IsThread, Placed, RawIntern
    <2>3. hazards' \in Seq(Threads)
      BY <2>1 DEF HInv
    <2>4. OnList(hazards', t)
      <3>1. 1 \in DOMAIN hazards' /\ hazards'[1] = t
        BY <2>1 DEF HInv
      <3> QED
        BY <3>1 DEF OnList
    <2>5. ASSUME NEW u \in Threads, OnList(hazards, u) PROVE OnList(hazards', u)
      <3>1. PICK i \in DOMAIN hazards : hazards[i] = u
        BY <2>5 DEF OnList
      <3>2. i + 1 \in DOMAIN hazards' /\ hazards'[i + 1] = u
        BY <2>1, <3>1 DEF HInv
      <3> QED
        BY <3>2 DEF OnList
    <2>6. PICK h : h = hazard[t]
      OBVIOUS
    <2>7. h = [s \in Slots |-> h[s]] /\ hazard' = [hazard EXCEPT ![t] = h]
      BY <2>1, <2>6, Rows
    <2>8. Local(r, h)
      BY <2>2 DEF Local
    <2>9. Covers(t, r, h)
      BY <2>2 DEF Covers, Protects, Early, RawIntern, Detaching, Holding
    <2>10. /\ th[t].pc \notin {"scan", "wait_hazards"} /\ r.pc \notin {"scan", "wait_hazards"}
           /\ r.pc = "hold" => r.cur \notin freed
      BY <2>1, <2>2
    <2>11. \A n \in Tables : table'[n].prev = table[n].prev
      BY <2>1
    <2>12. r.pc \in {"outside", "register"} \/ OnList(hazards', t)
      BY <2>4
    <2> QED
      BY <1>1, <2>1, <2>3, <2>5, <2>7, <2>8, <2>9, <2>10, <2>11, <2>12, ThreadMovesListed
  <1>5. CASE LookMoved(t)
    <2>0. PICK m : m = table[th[t].prev].moved
      OBVIOUS
    <2>1. /\ th[t].pc = "look" /\ UNCHANGED <<table, hazards, hazard>>
          /\ th' = [th EXCEPT ![t] = r]
          /\ \/ r = [th[t] EXCEPT !.pc = "skip"]
             \/ r = [th[t] EXCEPT !.pc = "claim", !.lo = m]
      BY <2>0, <1>1, <1>2, <1>5 DEF LookMoved
    <2>2. /\ r.pc \in {"skip", "claim"} /\ r.slot = 0 /\ r.ha = "load"
          /\ r.latest = th[t].latest /\ r.prev = th[t].prev
      <3>1. th[t].slot = 0 /\ th[t].ha = "load"
        BY <1>1, <2>1, NotAccessing DEF Placed, RawIntern
      <3>2. CASE r = [th[t] EXCEPT !.pc = "skip"]
        BY <1>1, <3>1, <3>2 DEF IsThread
      <3>3. CASE r = [th[t] EXCEPT !.pc = "claim", !.lo = m]
        BY <1>1, <3>1, <3>3 DEF IsThread
      <3> QED
        BY <2>1, <3>2, <3>3
    <2>3. Local(r, hazard[t])
      BY <2>2 DEF Local
    <2>4. \A s \in Slots, c \in Tables : Protects(r, s, c) => Protects(th[t], s, c)
      BY <2>1, <2>2 DEF Protects, Early, RawIntern, Detaching, Holding
    <2>5. r.pc \in {"outside", "register"} \/ OnList(hazards, t)
      BY <2>1, Rows
    <2>6. /\ th[t].pc \notin {"scan", "wait_hazards"} /\ r.pc \notin {"scan", "wait_hazards"}
          /\ r.pc = "hold" => r.cur \notin freed
      BY <2>1, <2>2
    <2> QED
      BY <1>1, <2>1, <2>3, <2>4, <2>5, <2>6, SameHazards, NoneNew
  <1>6. CASE CopyEntry(t)
    <2>1. PICK x : /\ th[t].pc = "copy" /\ UNCHANGED <<table, hazards, hazard>>
                   /\ th' = [th EXCEPT ![t] = r]
                   /\ r = [th[t] EXCEPT !.at = @ + 1] \/ r = Enter(th[t], th[t].latest, x, 2)
      BY <1>1, <1>2, <1>6 DEF CopyEntry
    <2>2. /\ r.prev = th[t].prev /\ r.latest = th[t].latest /\ r.ha = "load"
          /\ \/ r.pc = "copy" /\ r.slot = 0
             \/ r.pc = "grow" /\ r.slot = 2 /\ r.cur = th[t].latest
      <3>1. th[t].slot = 0 /\ th[t].ha = "load"
        BY <1>1, <2>1, NotAccessing DEF Placed, RawIntern
      <3>2. CASE r = [th[t] EXCEPT !.at = @ + 1]
        BY <1>1, <2>1, <3>1, <3>2 DEF IsThread
      <3>3. CASE r = Enter(th[t], th[t].latest, x, 2)
        BY <1>1, <3>1, <3>3 DEF IsThread, Enter
      <3> QED
        BY <2>1, <3>2, <3>3
    <2>3. Local(r, hazard[t])
      BY <2>2 DEF Local
    <2>4. \A s \in Slots, c \in Tables : Protects(r, s, c) => Protects(th[t], s, c)
      BY <2>1, <2>2 DEF Protects, Early, RawIntern, Detaching, Holding
    <2>5. r.pc \in {"outside", "register"} \/ OnList(hazards, t)
      BY <2>1, Rows
    <2>6. /\ th[t].pc \notin {"scan", "wait_hazards"} /\ r.pc \notin {"scan", "wait_hazards"}
          /\ r.pc = "hold" => r.cur \notin freed
      BY <2>1, <2>2
    <2> QED
      BY <1>1, <2>1, <2>3, <2>4, <2>5, <2>6, SameHazards, NoneNew
  <1>7. CASE ClaimBatch(t) \/ CountMoved(t)
    <2>1. PICK hi, at, p :
            /\ th[t].pc \in {"claim", "copy"} /\ UNCHANGED <<hazards, hazard>>
            /\ th' = [th EXCEPT ![t] = r]
            /\ r = [th[t] EXCEPT !.pc = p, !.hi = hi, !.at = at]
            /\ \/ th[t].pc = "claim" /\ p \in {"copy", "look"}
               \/ th[t].pc = "copy" /\ p \in {"detach", "skip"}
      <3>1. CASE ClaimBatch(t)
        <4>1. PICK hi : hi = IF th[t].lo + Batch > Cap(th[t].prev) THEN Cap(th[t].prev)
                             ELSE th[t].lo + Batch
          OBVIOUS
        <4>2. CASE th' = [th EXCEPT ![t].pc = "look"]
          <5>1. r = [th[t] EXCEPT !.pc = "look", !.hi = th[t].hi, !.at = th[t].at]
            BY <1>1, <1>2, <4>2 DEF IsThread
          <5>2. th' = [th EXCEPT ![t] = r]
            BY <1>1, <1>2, <4>2
          <5>3. th[t].pc = "claim" /\ UNCHANGED <<hazards, hazard>>
            BY <3>1 DEF ClaimBatch
          <5> QED
            BY <5>1, <5>2, <5>3
        <4>3. CASE th' = [th EXCEPT ![t].pc = "copy", ![t].hi = hi, ![t].at = th[t].lo]
          <5>1. r = [th[t] EXCEPT !.pc = "copy", !.hi = hi, !.at = th[t].lo]
            BY <1>1, <1>2, <4>3
          <5>2. th' = [th EXCEPT ![t] = r]
            BY <1>1, <1>2, <4>3
          <5>3. th[t].pc = "claim" /\ UNCHANGED <<hazards, hazard>>
            BY <3>1 DEF ClaimBatch
          <5> QED
            BY <5>1, <5>2, <5>3
        <4> QED
          BY <3>1, <4>1, <4>2, <4>3 DEF ClaimBatch
      <3>2. CASE CountMoved(t)
        <4>1. PICK p \in {"detach", "skip"} : th' = [th EXCEPT ![t].pc = p]
          BY <3>2 DEF CountMoved
        <4>2. r = [th[t] EXCEPT !.pc = p, !.hi = th[t].hi, !.at = th[t].at]
          BY <1>1, <1>2, <4>1 DEF IsThread
        <4>3. th' = [th EXCEPT ![t] = r]
          BY <1>1, <1>2, <4>1
        <4> QED
          BY <3>2, <4>1, <4>2, <4>3 DEF CountMoved
      <3> QED
        BY <1>7, <3>1, <3>2
    <2>2. /\ r.pc = p /\ r.slot = 0 /\ r.ha = "load"
          /\ r.latest = th[t].latest /\ r.prev = th[t].prev
      <3>1. th[t].slot = 0 /\ th[t].ha = "load"
        BY <1>1, <2>1, NotAccessing DEF Placed, RawIntern
      <3> QED
        BY <1>1, <2>1, <3>1 DEF IsThread
    <2>3. \A n \in Tables : table'[n].prev = table[n].prev
      <3>1. th[t].prev \in Tables
        BY <1>1, <2>1 DEF Placed, Holding
      <3>2. CASE ClaimBatch(t)
        <4>1. CASE UNCHANGED table
          BY <4>1
        <4>2. CASE ~UNCHANGED table
          <5>1. PICK x : table' = [table EXCEPT ![th[t].prev].moved = x]
            BY <3>2, <4>2 DEF ClaimBatch
          <5> QED
            BY <1>1, <3>1, <5>1 DEF IsTable
        <4> QED
          BY <4>1, <4>2
      <3>3. CASE CountMoved(t)
        <4>1. PICK x : table' = [table EXCEPT ![th[t].prev].move_done = x]
          BY <3>3 DEF CountMoved
        <4> QED
          BY <1>1, <3>1, <4>1 DEF IsTable
      <3> QED
        BY <1>7, <3>2, <3>3
    <2>4. Local(r, hazard[t])
      BY <2>1, <2>2 DEF Local
    <2>5. \A s \in Slots, c \in Tables : Protects(r, s, c) => Protects(th[t], s, c)
      BY <2>1, <2>2 DEF Protects, Early, RawIntern, Detaching, Holding
    <2>6. r.pc \in {"outside", "register"} \/ OnList(hazards, t)
      BY <2>1, Rows
    <2>7. /\ th[t].pc \notin {"scan", "wait_hazards"} /\ r.pc \notin {"scan", "wait_hazards"}
          /\ r.pc = "hold" => r.cur \notin freed
      BY <2>1, <2>2
    <2> QED
      BY <1>1, <2>1, <2>3, <2>4, <2>5, <2>6, <2>7, SameHazards, NoneNew
  <1>8. CASE Skip(t)
    <2>0. PICK q, h : /\ q = [th[t] EXCEPT !.prev = NoTable, !.lo = 0, !.hi = 0, !.at = 0]
                      /\ h = [hazard[t] EXCEPT ![1] = NoTable]
      OBVIOUS
    <2>1. /\ th[t].pc = "skip" /\ UNCHANGED <<table, hazards>>
          /\ th' = [th EXCEPT ![t] = r] /\ r = Enter(q, q.latest, q.val, 0)
      BY <2>0, <1>1, <1>2, <1>8 DEF Skip
    <2>2. hazard' = [hazard EXCEPT ![t] = h] /\ h = [s \in Slots |-> h[s]] /\ h[0] = hazard[t][0]
      <3>1. 1 \in Slots /\ 0 \in Slots
        BY DEF Slots
      <3>2. hazard' = [hazard EXCEPT ![t][1] = NoTable]
        BY <1>8 DEF Skip
      <3> QED
        BY <2>0, <3>1, <3>2, RowSet DEF Elsewhere
    <2>3. IsThread(q) /\ q.latest = th[t].latest /\ q.ha = "load"
      BY <1>1, <2>0, <2>1, NotAccessing DEF IsThread
    <2>4. /\ r.latest = th[t].latest /\ r.slot = 0 /\ r.pc = "grow" /\ r.cur = th[t].latest
          /\ r.ha = "load"
      BY <2>1, <2>3 DEF IsThread, Enter
    <2>5. Local(r, h)
      BY <2>4 DEF Local
    <2>6. Covers(t, r, h)
      <3> SUFFICES ASSUME NEW s \in Slots, NEW c \in Tables, Protects(r, s, c)
                   PROVE  h[s] = c /\ Protects(th[t], s, c)
        BY DEF Covers
      <3>1. s = 0 /\ Protects(th[t], s, c)
        BY <2>1, <2>4 DEF Protects, Holding, RawIntern, Early
      <3>2. hazard[t][s] = c
        BY <3>1, Kept
      <3> QED
        BY <2>2, <3>1, <3>2
    <2>7. r.pc \in {"outside", "register"} \/ OnList(hazards, t)
      BY <2>1, Rows
    <2>8. /\ th[t].pc \notin {"scan", "wait_hazards"} /\ r.pc \notin {"scan", "wait_hazards"}
          /\ r.pc = "hold" => r.cur \notin freed
      BY <2>1, <2>4
    <2>9. \A n \in Tables : table'[n].prev = table[n].prev
      BY <2>1
    <2> QED
      BY <1>1, <2>1, <2>2, <2>5, <2>6, <2>7, <2>8, <2>9, ThreadMoves
  <1> QED
    BY <1>3, <1>4, <1>5, <1>6, <1>7, <1>8

-----------------------------------------------------------------------------
(* The hazard accesses                                                      *)

\* What a load or a store of a hazard access changes keeps nothing yet.
LEMMA LoadsMove ==
    ASSUME IInv, HInv, NEW t \in Threads, NEW s \in Slots, Accesses(th[t], s),
           NEW a \in {"mark", "check"}, NEW b, NEW h,
           th' = [th EXCEPT ![t] = [th[t] EXCEPT !.ha = a, !.seen = b]],
           UNCHANGED <<latest, table, freed, hazards>>,
           hazard' = [hazard EXCEPT ![t] = h], h = [n \in Slots |-> h[n]],
           Elsewhere(hazard[t], h, s), a = "check" => h[s] = b
    PROVE  HInv'
  <1>1. Placed(th[t], latest, table) /\ IsThread(th[t])
    BY DEF IInv, Placed
  <1>2. PICK r : r = [th[t] EXCEPT !.ha = a, !.seen = b]
    OBVIOUS
  <1>3. /\ r.pc = th[t].pc /\ r.slot = th[t].slot /\ r.latest = th[t].latest
        /\ r.prev = th[t].prev /\ r.cur = th[t].cur /\ r.curr = th[t].curr
        /\ r.ha = a /\ r.seen = b
    BY <1>1, <1>2 DEF IsThread
  <1>4. /\ th[t].pc \in {"latest", "prev", "older", "again"}
        /\ th[t].slot \in {0, 2} /\ (th[t].slot = 2 => th[t].pc \in {"older", "again"})
    BY <1>1 DEF Accesses, Placed, RawIntern
  <1>5. Accesses(r, s) /\ \A n \in Slots : Accesses(r, n) => n = s
    BY <1>3, <1>4 DEF Accesses
  <1>6. Local(r, h)
    <2>1. Local(th[t], hazard[t])
      BY Rows
    <2>2. r.slot = 2 => r.cur = r.latest
      BY <1>3, <2>1 DEF Local
    <2> QED
      BY <1>3, <1>4, <1>5, <2>2 DEF Local
  <1>7. Covers(t, r, h)
    <2> SUFFICES ASSUME NEW n \in Slots, NEW c \in Tables, Protects(r, n, c)
                 PROVE  h[n] = c /\ Protects(th[t], n, c)
      BY DEF Covers
    <2>1. Protects(th[t], n, c)
      BY <1>3 DEF Protects, Holding
    <2>2. n # s
      BY <1>4, <2>1 DEF Protects, Accesses, Holding, Early, Detaching, RawIntern
    <2>3. hazard[t][n] = c
      BY <2>1, Kept
    <2> QED
      BY <2>1, <2>2, <2>3 DEF Elsewhere
  <1>8. r.pc \in {"outside", "register"} \/ OnList(hazards, t)
    BY <1>4, Rows
  <1>9. /\ th[t].pc \notin {"scan", "wait_hazards"} /\ r.pc \notin {"scan", "wait_hazards"}
        /\ r.pc = "hold" => r.cur \notin freed
    BY <1>3, <1>4
  <1>10. th' = [th EXCEPT ![t] = r]
    BY <1>2
  <1>11. \A n \in Tables : table'[n].prev = table[n].prev
    OBVIOUS
  <1> QED
    BY <1>6, <1>7, <1>8, <1>9, <1>10, <1>11, ThreadMoves

AccessLeaves(t, r, ref, var, next) ==
    /\ th[t].ha = "check" /\ th[t].seen = ref /\ UNCHANGED hazard /\ th' = [th EXCEPT ![t] = r]
    /\ r = [th[t] EXCEPT !.ha = "load", !.seen = NoTable, ![var] = ref, !.pc = next]

LEMMA AccessMoves ==
    ASSUME IInv, HInv, NEW t \in Threads, NEW s \in Slots, Accesses(th[t], s),
           NEW ref, NEW var, NEW next, NEW r, r = th'[t],
           HazardAccess(t, ref, s, var, next), ~AccessLeaves(t, r, ref, var, next)
    PROVE  HInv'
  <1>1. /\ IsThread(th[t]) /\ th = [u \in Threads |-> th[u]]
        /\ UNCHANGED <<latest, table, freed, hazards>>
    BY DEF IInv, Placed, HazardAccess
  <1>2. CASE th' = [th EXCEPT ![t].ha = "mark", ![t].seen = ref] /\ UNCHANGED hazard
    <2>1. th' = [th EXCEPT ![t] = [th[t] EXCEPT !.ha = "mark", !.seen = ref]]
      BY <1>1, <1>2
    <2>2. PICK h : h = hazard[t]
      OBVIOUS
    <2>3. /\ hazard' = [hazard EXCEPT ![t] = h] /\ h = [n \in Slots |-> h[n]]
          /\ Elsewhere(hazard[t], h, s)
      BY <1>2, <2>2, Rows DEF Elsewhere
    <2>4. PICK a, b : a = "mark" /\ b = ref
      OBVIOUS
    <2>5. a \in {"mark", "check"} /\ (a = "check" => h[s] = b)
      BY <2>4
    <2>6. th' = [th EXCEPT ![t] = [th[t] EXCEPT !.ha = a, !.seen = b]]
      BY <2>1, <2>4
    <2> QED
      BY <1>1, <2>3, <2>5, <2>6, LoadsMove
  <1>3. CASE /\ hazard' = [hazard EXCEPT ![t][s] = th[t].seen]
             /\ th' = [th EXCEPT ![t].ha = "check"]
    <2>1. PICK b, h : b = th[t].seen /\ h = [hazard[t] EXCEPT ![s] = b]
      OBVIOUS
    <2>2. th' = [th EXCEPT ![t] = [th[t] EXCEPT !.ha = "check", !.seen = b]]
      BY <1>1, <1>3, <2>1 DEF IsThread
    <2>3. /\ [hazard EXCEPT ![t][s] = b] = [hazard EXCEPT ![t] = h]
          /\ h = [n \in Slots |-> h[n]] /\ h[s] = b /\ Elsewhere(hazard[t], h, s)
      BY <2>1 DEF HInv, Elsewhere
    <2>4. hazard' = [hazard EXCEPT ![t] = h]
      BY <1>3, <2>1, <2>3
    <2>5. PICK a : a = "check"
      OBVIOUS
    <2>6. a \in {"mark", "check"} /\ (a = "check" => h[s] = b)
      BY <2>3, <2>5
    <2>7. th' = [th EXCEPT ![t] = [th[t] EXCEPT !.ha = a, !.seen = b]]
      BY <2>2, <2>5
    <2> QED
      BY <1>1, <2>3, <2>4, <2>6, <2>7, LoadsMove
  <1>4. CASE /\ th' = [th EXCEPT ![t].ha = "load", ![t].seen = NoTable,
                                 ![t][var] = ref, ![t].pc = next]
             /\ th[t].ha = "check" /\ th[t].seen = ref /\ UNCHANGED hazard
    <2>1. /\ r = [th[t] EXCEPT !.ha = "load", !.seen = NoTable, ![var] = ref, !.pc = next]
          /\ th' = [th EXCEPT ![t] = r]
      BY <1>1, <1>4
    <2> QED
      BY <1>4, <2>1 DEF AccessLeaves
  <1> QED
    BY <1>2, <1>3, <1>4 DEF HazardAccess

\* What it leaves with, its hazard pointer names.
LEMMA AccessNames ==
    ASSUME HInv, NEW t \in Threads, NEW s \in Slots, Accesses(th[t], s), th[t].ha = "check"
    PROVE  hazard[t][s] = th[t].seen
  BY Rows DEF Local

LEMMA AccessesMove ==
    ASSUME IInv, HInv, NEW t \in Threads,
           AccessLatest(t) \/ AccessPrev(t) \/ AccessOlder(t) \/ AccessAgain(t)
    PROVE  HInv'
  <1>1. /\ Placed(th[t], latest, table) /\ IsThread(th[t]) /\ latest \in Tables
        /\ UNCHANGED <<latest, table, freed, hazards>>
    BY DEF IInv, Placed, AccessLatest, AccessPrev, AccessOlder, AccessAgain, HazardAccess
  <1>2. PICK r, l : r = th'[t] /\ l = latest
    OBVIOUS
  <1>3. \A n \in Tables : table'[n].prev = table[n].prev
    BY <1>1
  <1>4. 0 \in Slots /\ 1 \in Slots /\ 4 \in Slots
    BY DEF Slots
  <1>5. CASE AccessLatest(t)
    <2>1. HazardAccess(t, l, 0, "latest", "prev")
      BY <1>2, <1>5 DEF AccessLatest, HazardAccess
    <2>2. th[t].pc = "latest" /\ Accesses(th[t], 0)
      <3>1. th[t].pc = "latest"
        BY <1>5 DEF AccessLatest
      <3> QED
        BY <3>1 DEF Accesses
    <2>3. CASE ~AccessLeaves(t, r, l, "latest", "prev")
      BY <1>2, <1>4, <2>1, <2>2, <2>3, AccessMoves
    <2>4. CASE AccessLeaves(t, r, l, "latest", "prev")
      <3>1. /\ r.pc = "prev" /\ r.slot = th[t].slot /\ r.latest = l /\ r.ha = "load"
            /\ th' = [th EXCEPT ![t] = r] /\ UNCHANGED hazard
            /\ th[t].ha = "check" /\ th[t].seen = l
        BY <1>1, <2>4 DEF IsThread, AccessLeaves
      <3>2. r.slot = 0
        BY <1>1, <2>2, <3>1 DEF Placed, RawIntern
      <3>3. Local(r, hazard[t])
        BY <3>1, <3>2 DEF Local
      <3>4. hazard[t][0] = l
        BY <1>4, <2>2, <3>1, AccessNames
      <3>5. Fresh(t, l)
        BY <1>2, LatestIsFresh
      <3>6. Covers(t, r, hazard[t])
        BY <3>1, <3>2, <3>4, <3>5 DEF Covers, Protects, Holding, RawIntern
      <3>7. /\ th[t].pc \notin {"scan", "wait_hazards"} /\ r.pc \notin {"scan", "wait_hazards"}
            /\ r.pc = "hold" => r.cur \notin freed
            /\ r.pc \in {"outside", "register"} \/ OnList(hazards, t)
        BY <2>2, <3>1, Rows
      <3> QED
        BY <1>1, <1>3, <3>1, <3>3, <3>6, <3>7, SameHazards
    <2> QED
      BY <2>3, <2>4
  <1>6. CASE AccessPrev(t)
    <2>0. PICK p : p = table[th[t].latest].prev
      OBVIOUS
    <2>1. HazardAccess(t, p, 1, "prev", "look")
      BY <2>0, <1>6 DEF AccessPrev, HazardAccess
    <2>2. th[t].pc = "prev" /\ Accesses(th[t], 1)
      BY <1>6 DEF AccessPrev, Accesses
    <2>3. CASE ~AccessLeaves(t, r, p, "prev", "look")
      BY <1>2, <1>4, <2>1, <2>2, <2>3, AccessMoves
    <2>4. CASE AccessLeaves(t, r, p, "prev", "look")
      <3>1. /\ r.pc = "look" /\ r.slot = th[t].slot /\ r.latest = th[t].latest /\ r.prev = p
            /\ r.ha = "load"
            /\ th' = [th EXCEPT ![t] = r] /\ UNCHANGED hazard
            /\ th[t].ha = "check" /\ th[t].seen = p
        BY <1>1, <2>4 DEF IsThread, AccessLeaves
      <3>2. r.slot = 0 /\ th[t].latest \in Tables
        BY <1>1, <2>2, <3>1 DEF Placed, RawIntern
      <3>3. Local(r, hazard[t])
        BY <3>1, <3>2 DEF Local
      <3>4. hazard[t][1] = p
        BY <1>4, <2>2, <3>1, AccessNames
      <3>5. p \in Tables => Fresh(t, p)
        BY <2>0, <3>2, PrevIsFresh, TableNumbers
      <3>6. Covers(t, r, hazard[t])
        <4> SUFFICES ASSUME NEW n \in Slots, NEW c \in Tables, Protects(r, n, c)
                     PROVE  hazard[t][n] = c /\ (Protects(th[t], n, c) \/ Fresh(t, c))
          BY DEF Covers
        <4>1. (n = 0 /\ Protects(th[t], n, c)) \/ (n = 1 /\ c = p)
          BY <2>2, <3>1, <3>2 DEF Protects, Holding, RawIntern, Early
        <4> QED
          BY <3>4, <3>5, <4>1, Kept
      <3>7. /\ th[t].pc \notin {"scan", "wait_hazards"} /\ r.pc \notin {"scan", "wait_hazards"}
            /\ r.pc = "hold" => r.cur \notin freed
            /\ r.pc \in {"outside", "register"} \/ OnList(hazards, t)
        BY <2>2, <3>1, Rows
      <3> QED
        BY <1>1, <1>3, <3>1, <3>3, <3>6, <3>7, SameHazards
    <2> QED
      BY <2>3, <2>4
  <1>7. CASE AccessOlder(t)
    <2>0. PICK p, x : p = table[th[t].cur].prev /\ x = th[t].slot + 1
      OBVIOUS
    <2>1. HazardAccess(t, p, x, "curr", "lookup")
      BY <2>0, <1>7 DEF AccessOlder, HazardAccess
    <2>2. th[t].pc = "older" /\ Accesses(th[t], x)
      <3>1. th[t].pc = "older"
        BY <1>7 DEF AccessOlder
      <3> QED
        BY <2>0, <3>1 DEF Accesses
    <2>9. x \in Slots /\ x # 0 /\ (th[t].slot = 2 => x # 1)
      BY <1>1, <2>0 DEF Placed, Slots
    <2>3. CASE ~AccessLeaves(t, r, p, "curr", "lookup")
      BY <1>2, <2>1, <2>2, <2>3, <2>9, AccessMoves
    <2>4. CASE AccessLeaves(t, r, p, "curr", "lookup")
      <3>1. /\ r.pc = "lookup" /\ r.slot = th[t].slot /\ r.latest = th[t].latest
            /\ r.prev = th[t].prev /\ r.cur = th[t].cur /\ r.curr = p
            /\ r.ha = "load"
            /\ th' = [th EXCEPT ![t] = r] /\ UNCHANGED hazard
            /\ th[t].ha = "check" /\ th[t].seen = p
        BY <1>1, <2>4 DEF IsThread, AccessLeaves
      <3>2. th[t].cur \in Tables
        BY <1>1, <2>2 DEF Placed, RawIntern
      <3>3. Local(r, hazard[t])
        <4>1. Local(th[t], hazard[t])
          BY Rows
        <4>2. r.slot = 2 => r.cur = r.latest
          BY <3>1, <4>1 DEF Local
        <4> QED
          BY <3>1, <4>2 DEF Local
      <3>4. hazard[t][x] = p
        BY <2>2, <2>9, <3>1, AccessNames
      <3>5. p \in Tables => Fresh(t, p)
        BY <2>0, <3>2, PrevIsFresh, TableNumbers
      <3>6. Covers(t, r, hazard[t])
        <4> SUFFICES ASSUME NEW n \in Slots, NEW c \in Tables, Protects(r, n, c)
                     PROVE  hazard[t][n] = c /\ (Protects(th[t], n, c) \/ Fresh(t, c))
          BY DEF Covers
        <4>1. Protects(th[t], n, c) \/ (n = x /\ c = p)
          BY <2>0, <2>2, <3>1 DEF Protects, Holding, RawIntern, Early, Detaching
        <4> QED
          BY <3>4, <3>5, <4>1, Kept
      <3>7. /\ th[t].pc \notin {"scan", "wait_hazards"} /\ r.pc \notin {"scan", "wait_hazards"}
            /\ r.pc = "hold" => r.cur \notin freed
            /\ r.pc \in {"outside", "register"} \/ OnList(hazards, t)
        BY <2>2, <3>1, Rows
      <3> QED
        BY <1>1, <1>3, <3>1, <3>3, <3>6, <3>7, SameHazards
    <2> QED
      BY <2>3, <2>4
  <1>8. CASE AccessAgain(t)
    <2>1. HazardAccess(t, l, 4, "curr", "settle")
      BY <1>2, <1>8 DEF AccessAgain, HazardAccess
    <2>2. th[t].pc = "again" /\ Accesses(th[t], 4)
      BY <1>8 DEF AccessAgain, Accesses
    <2>3. CASE ~AccessLeaves(t, r, l, "curr", "settle")
      BY <1>2, <1>4, <2>1, <2>2, <2>3, AccessMoves
    <2>4. CASE AccessLeaves(t, r, l, "curr", "settle")
      <3>1. /\ r.pc = "settle" /\ r.slot = th[t].slot /\ r.latest = th[t].latest
            /\ r.prev = th[t].prev /\ r.cur = th[t].cur /\ r.curr = l
            /\ r.ha = "load"
            /\ th' = [th EXCEPT ![t] = r] /\ UNCHANGED hazard
            /\ th[t].ha = "check" /\ th[t].seen = l
        BY <1>1, <2>4 DEF IsThread, AccessLeaves
      <3>2. th[t].cur \in Tables /\ th[t].cur <= latest
        BY <1>1, <2>2 DEF Placed, RawIntern
      <3>3. Local(r, hazard[t])
        <4>1. Local(th[t], hazard[t])
          BY Rows
        <4>2. r.slot = 2 => r.cur = r.latest
          BY <3>1, <4>1 DEF Local
        <4>3. r.slot = 2 => r.latest = l
          BY <1>2, <3>1, HoldersAreLatest DEF Holding
        <4> QED
          BY <1>2, <3>1, <3>2, <4>2, <4>3 DEF Local
      <3>4. hazard[t][4] = l
        BY <1>4, <2>2, <3>1, AccessNames
      <3>5. Fresh(t, l)
        BY <1>2, LatestIsFresh
      <3>6. Covers(t, r, hazard[t])
        <4> SUFFICES ASSUME NEW n \in Slots, NEW c \in Tables, Protects(r, n, c)
                     PROVE  hazard[t][n] = c /\ (Protects(th[t], n, c) \/ Fresh(t, c))
          BY DEF Covers
        <4>1. Protects(th[t], n, c) \/ (n = 4 /\ c = l)
          BY <2>2, <3>1 DEF Protects, Holding, RawIntern, Early, Detaching
        <4> QED
          BY <3>4, <3>5, <4>1, Kept
      <3>7. /\ th[t].pc \notin {"scan", "wait_hazards"} /\ r.pc \notin {"scan", "wait_hazards"}
            /\ r.pc = "hold" => r.cur \notin freed
            /\ r.pc \in {"outside", "register"} \/ OnList(hazards, t)
        BY <2>2, <3>1, Rows
      <3> QED
        BY <1>1, <1>3, <3>1, <3>3, <3>6, <3>7, SameHazards
    <2> QED
      BY <2>3, <2>4
  <1> QED
    BY <1>5, <1>6, <1>7, <1>8

-----------------------------------------------------------------------------
(* The steps of nbhs_raw_intern                                             *)

LEMMA RawStepsMove ==
    ASSUME IInv, HInv, NEW t \in Threads,
           \/ Grow(t) \/ Probe(t) \/ Reserve(t) \/ WaitEntry(t) \/ Lookup(t)
           \/ Unhold(t) \/ Count(t) \/ Commit(t)
    PROVE  HInv'
  <1>1. /\ Placed(th[t], latest, table) /\ IsThread(th[t]) /\ th = [u \in Threads |-> th[u]]
        /\ table = [n \in Tables |-> table[n]] /\ \A n \in Tables : IsTable(table[n], n)
        /\ UNCHANGED <<latest, freed, hazards>>
    BY DEF IInv, Placed, Grow, Probe, Reserve, WaitEntry, Lookup, Unhold, Count, Commit
  <1>2. PICK r, n : r = th'[t] /\ n = th[t].cur
    OBVIOUS
  <1>3. th[t].pc \in RawIntern \ {"hold"}
    BY DEF Grow, Probe, Reserve, WaitEntry, Lookup, Unhold, Count, Commit, RawIntern
  <1>4. n \in Tables
    BY <1>1, <1>2, <1>3 DEF Placed
  <1>5. th[t].pc \notin {"latest", "prev", "older", "again"}
    BY DEF Grow, Probe, Reserve, WaitEntry, Lookup, Unhold, Count, Commit
  <1>6. th[t].ha = "load"
    BY <1>5, NotAccessing
  <1> DEFINE Same == /\ r.slot = th[t].slot /\ r.latest = th[t].latest
                     /\ r.prev = th[t].prev /\ r.cur = th[t].cur /\ r.ha = th[t].ha
  <1>7. ASSUME th' = [th EXCEPT ![t] = r], Same, \A m \in Tables : table'[m].prev = table[m].prev,
               UNCHANGED hazard,
               r.pc \in {"probe", "reserve", "wait", "older", "unhold", "count", "commit", "again"}
        PROVE  HInv'
    <2>1. r.pc \in RawIntern \ {"grow", "swap", "hold", "lookup", "settle"}
      BY <1>7 DEF RawIntern
    <2> QED
      BY <1>1, <1>3, <1>5, <1>6, <1>7, <2>1, RawMoves
  <1>8. CASE Grow(t)
    <2>1. /\ th[t].pc = "grow" /\ UNCHANGED <<table, hazard>> /\ th' = [th EXCEPT ![t] = r]
          /\ r = [th[t] EXCEPT !.pc = "probe"] \/ r = [th[t] EXCEPT !.pc = "swap"]
      BY <1>1, <1>2, <1>8 DEF Grow
    <2>2. CASE r = [th[t] EXCEPT !.pc = "probe"]
      <3>1. Same /\ r.pc = "probe"
        BY <1>1, <2>2 DEF IsThread
      <3> QED
        BY <1>7, <2>1, <3>1
    <2>3. CASE r = [th[t] EXCEPT !.pc = "swap"]
      <3>1. Same /\ r.pc = "swap"
        BY <1>1, <2>3 DEF IsThread
      <3>2. Local(r, hazard[t])
        <4>1. Local(th[t], hazard[t])
          BY Rows
        <4> QED
          BY <1>5, <1>6, <2>1, <3>1, <4>1 DEF Local
      <3>3. \A s \in Slots, c \in Tables : Protects(r, s, c) => Protects(th[t], s, c)
        BY <2>1, <3>1 DEF Protects, Early, RawIntern, Detaching, Holding
      <3>4. r.pc \in {"outside", "register"} \/ OnList(hazards, t)
        BY <2>1, Rows
      <3>5. /\ th[t].pc \notin {"scan", "wait_hazards"} /\ r.pc \notin {"scan", "wait_hazards"}
            /\ r.pc = "hold" => r.cur \notin freed
        BY <2>1, <3>1
      <3>6. Covers(t, r, hazard[t])
        BY <3>3, NoneNew
      <3> QED
        BY <1>1, <2>1, <3>2, <3>4, <3>5, <3>6, SameHazards
    <2> QED
      BY <2>1, <2>2, <2>3
  <1>9. CASE Probe(t)
    <2>1. CASE th' = [th EXCEPT ![t].pc = "reserve"]
      <3>1. /\ UNCHANGED <<table, hazard>> /\ th' = [th EXCEPT ![t] = r]
            /\ r = [th[t] EXCEPT !.pc = "reserve"]
        BY <1>1, <1>2, <1>9, <2>1 DEF Probe
      <3>2. Same /\ r.pc = "reserve"
        BY <1>1, <3>1 DEF IsThread
      <3> QED
        BY <1>7, <3>1, <3>2
    <2>2. CASE th' # [th EXCEPT ![t].pc = "reserve"]
      <3>1. PICK e : e = Here(t)
        OBVIOUS
      <3>2. TryEntry(t, e)
        BY <1>9, <2>2, <3>1 DEF Probe, TryEntry, Leave
      <3>3. th[t].pc = "probe" /\ UNCHANGED <<latest, freed, hazards, hazard, table>>
        BY <1>1, <1>9 DEF Probe
      <3> QED
        BY <3>2, <3>3, TryEntryMoves
    <2> QED
      BY <2>1, <2>2
  <1>10. CASE Reserve(t)
    <2>1. CASE UNCHANGED table /\ TryEntry(t, Here(t))
      <3>1. PICK e : e = Here(t)
        OBVIOUS
      <3>2. TryEntry(t, e)
        BY <2>1, <3>1 DEF TryEntry, Leave
      <3>3. th[t].pc = "reserve" /\ UNCHANGED <<latest, freed, hazards, hazard, table>>
        BY <1>1, <1>10, <2>1 DEF Reserve
      <3> QED
        BY <3>2, <3>3, TryEntryMoves
    <2>2. CASE ~(UNCHANGED table /\ TryEntry(t, Here(t)))
      <3>1. PICK p, w : p = Place(n, Key[th[t].v], th[t].i) /\ w = Reserved(th[t].v)
        OBVIOUS
      <3>2. /\ th' = [th EXCEPT ![t] = r] /\ r = [th[t] EXCEPT !.pc = "older"]
            /\ table' = [table EXCEPT ![n].data[p] = w] /\ UNCHANGED hazard
        BY <1>1, <1>2, <1>10, <2>2, <3>1 DEF Reserve
      <3>3. \A m \in Tables : table'[m].prev = table[m].prev
        BY <1>1, <1>4, <3>2 DEF IsTable
      <3>4. Same /\ r.pc = "older"
        BY <1>1, <3>2 DEF IsThread
      <3> QED
        BY <1>7, <3>2, <3>3, <3>4
    <2> QED
      BY <2>1, <2>2
  <1>11. CASE WaitEntry(t)
    <2>1. PICK w, h : w = Here(t).p /\ h = hazard[t]
      OBVIOUS
    <2>2. Leave(t, w) /\ UNCHANGED <<table, hazard>>
      BY <1>11, <2>1 DEF WaitEntry, Leave
    <2>3. /\ hazard' = [hazard EXCEPT ![t] = h] /\ h = [s \in Slots |-> h[s]]
          /\ h[0] = hazard[t][0] /\ h[1] = hazard[t][1]
      BY <2>1, <2>2, Rows
    <2>4. th[t].ha = "load" /\ th[t].pc \in RawIntern
      BY <1>3, <1>5, <1>6
    <2>5. \A m \in Tables : table'[m].prev = table[m].prev
      BY <2>2
    <2> QED
      BY <1>1, <2>2, <2>3, <2>4, <2>5, LeaveMoves
  <1>12. CASE Lookup(t)
    <2>1. PICK o : o = table[th[t].curr].data[Place(th[t].curr, Key[th[t].v], th[t].j)].p
      OBVIOUS
    <2>2. /\ th[t].pc = "lookup" /\ UNCHANGED <<table, hazard>> /\ th' = [th EXCEPT ![t] = r]
          /\ \/ r = [th[t] EXCEPT !.pc = "count"] \/ r = [th[t] EXCEPT !.pc = "unhold"]
             \/ r = [th[t] EXCEPT !.j = @ + 1] \/ r = [th[t] EXCEPT !.old = o, !.pc = "unhold"]
      BY <1>1, <1>2, <1>12, <2>1 DEF Lookup
    <2>3. CASE r = [th[t] EXCEPT !.j = @ + 1]
      <3>1. Same /\ r.pc = "lookup" /\ r.curr = th[t].curr
        BY <1>1, <2>2, <2>3 DEF IsThread
      <3>2. Local(r, hazard[t])
        <4>1. Local(th[t], hazard[t])
          BY Rows
        <4> QED
          BY <1>5, <1>6, <2>2, <3>1, <4>1 DEF Local
      <3>3. \A s \in Slots, c \in Tables : Protects(r, s, c) => Protects(th[t], s, c)
        BY <2>2, <3>1 DEF Protects, Early, RawIntern, Detaching, Holding
      <3>4. r.pc \in {"outside", "register"} \/ OnList(hazards, t)
        BY <2>2, Rows
      <3>5. /\ th[t].pc \notin {"scan", "wait_hazards"} /\ r.pc \notin {"scan", "wait_hazards"}
            /\ r.pc = "hold" => r.cur \notin freed
        BY <2>2, <3>1
      <3>6. Covers(t, r, hazard[t])
        BY <3>3, NoneNew
      <3> QED
        BY <1>1, <2>2, <3>2, <3>4, <3>5, <3>6, SameHazards
    <2>4. CASE r # [th[t] EXCEPT !.j = @ + 1]
      <3>1. Same /\ r.pc \in {"count", "unhold"}
        <4>1. CASE r = [th[t] EXCEPT !.pc = "count"]
          BY <1>1, <4>1 DEF IsThread
        <4>2. CASE r = [th[t] EXCEPT !.pc = "unhold"]
          BY <1>1, <4>2 DEF IsThread
        <4>3. CASE r = [th[t] EXCEPT !.old = o, !.pc = "unhold"]
          BY <1>1, <4>3 DEF IsThread
        <4> QED
          BY <2>2, <2>4, <4>1, <4>2, <4>3
      <3> QED
        BY <1>7, <2>2, <3>1
    <2> QED
      BY <2>3, <2>4
  <1>13. CASE Unhold(t)
    <2>1. PICK x, h : x = th[t].slot + 1 /\ h = [hazard[t] EXCEPT ![x] = NoTable]
      OBVIOUS
    <2>2. /\ th[t].pc = "unhold" /\ UNCHANGED table /\ th' = [th EXCEPT ![t] = r]
          /\ r = [th[t] EXCEPT !.pc = "count", !.curr = NoTable, !.j = 0]
          /\ hazard' = [hazard EXCEPT ![t][x] = NoTable]
      BY <1>1, <1>2, <1>13, <2>1 DEF Unhold
    <2>3. Same /\ r.pc = "count"
      BY <1>1, <2>2 DEF IsThread
    <2>4. x \in Slots /\ x # 0 /\ (th[t].slot = 2 => x # 1)
      BY <1>1, <2>1 DEF Placed, Slots
    <2>5. /\ hazard' = [hazard EXCEPT ![t] = h] /\ h = [s \in Slots |-> h[s]]
          /\ Elsewhere(hazard[t], h, x)
      BY <2>1, <2>2, <2>4 DEF HInv, Elsewhere
    <2>6. Local(r, h)
      <3>1. Local(th[t], hazard[t])
        BY Rows
      <3> QED
        BY <1>5, <1>6, <2>2, <2>3, <3>1 DEF Local
    <2>7. Covers(t, r, h)
      <3> SUFFICES ASSUME NEW s \in Slots, NEW c \in Tables, Protects(r, s, c)
                   PROVE  h[s] = c /\ Protects(th[t], s, c)
        BY DEF Covers
      <3>1. Protects(th[t], s, c) /\ s # x
        BY <2>2, <2>3, <2>4 DEF Protects, Early, RawIntern, Detaching, Holding
      <3>2. hazard[t][s] = c
        BY <3>1, Kept
      <3> QED
        BY <2>5, <3>1, <3>2 DEF Elsewhere
    <2>8. r.pc \in {"outside", "register"} \/ OnList(hazards, t)
      BY <2>2, Rows
    <2>9. /\ th[t].pc \notin {"scan", "wait_hazards"} /\ r.pc \notin {"scan", "wait_hazards"}
          /\ r.pc = "hold" => r.cur \notin freed
      BY <2>2, <2>3
    <2>10. \A m \in Tables : table'[m].prev = table[m].prev
      BY <2>2
    <2> QED
      BY <1>1, <2>2, <2>5, <2>6, <2>7, <2>8, <2>9, <2>10, ThreadMoves
  <1>14. CASE Count(t)
    <2>1. PICK x : x = table[n].count + 1
      OBVIOUS
    <2>2. /\ UNCHANGED hazard /\ th' = [th EXCEPT ![t] = r] /\ r = [th[t] EXCEPT !.pc = "commit"]
          /\ table' = [table EXCEPT ![n].count = x]
      BY <1>1, <1>2, <1>14, <2>1 DEF Count
    <2>3. \A m \in Tables : table'[m].prev = table[m].prev
      BY <1>1, <1>4, <2>2 DEF IsTable
    <2>4. Same /\ r.pc = "commit"
      BY <1>1, <2>2 DEF IsThread
    <2> QED
      BY <1>7, <2>2, <2>3, <2>4
  <1>15. CASE Commit(t)
    <2>1. PICK p, w, x :
            /\ p = Place(n, Key[th[t].v], th[t].i)
            /\ w = (IF th[t].old # Nil THEN th[t].old ELSE th[t].v) /\ x = Final(w)
      OBVIOUS
    <2>2. /\ UNCHANGED hazard /\ th' = [th EXCEPT ![t] = r]
          /\ r = [th[t] EXCEPT !.result = w, !.old = Nil, !.pc = "again"]
          /\ table' = [table EXCEPT ![n].data[p] = x]
      BY <1>1, <1>2, <1>15, <2>1 DEF Commit
    <2>3. \A m \in Tables : table'[m].prev = table[m].prev
      BY <1>1, <1>4, <2>2 DEF IsTable
    <2>4. Same /\ r.pc = "again"
      BY <1>1, <2>2 DEF IsThread
    <2> QED
      BY <1>7, <2>2, <2>3, <2>4
  <1> QED
    BY <1>8, <1>9, <1>10, <1>11, <1>12, <1>13, <1>14, <1>15

\* A table that comes to be held without being loaded again is not too late when there
\* is one other thread: it would have to free the table held so far before.
LEMMA HoldMoves ==
    ASSUME IInv, HInv, AtMostTwo, NEW t \in Threads, Hold(t)
    PROVE  HInv'
  <1>1. /\ Placed(th[t], latest, table) /\ IsThread(th[t]) /\ th = [u \in Threads |-> th[u]]
        /\ Local(th[t], hazard[t])
    BY Rows DEF IInv, Placed
  <1>2. PICK r, h, b, c : /\ r = th'[t] /\ b = th[t].latest /\ c = th[t].cur
                          /\ h = [hazard[t] EXCEPT ![0] = c]
    OBVIOUS
  <1>3. th[t].pc = "hold" /\ UNCHANGED <<latest, table, freed, hazards>>
    BY DEF Hold
  <1>4. /\ th[t].slot = 0 /\ b < c /\ b \in Tables /\ c \in Tables
    BY <1>1, <1>2, <1>3 DEF Local, Placed, RawIntern
  <1>5. /\ th' = [th EXCEPT ![t] = r] /\ r = [th[t] EXCEPT !.pc = "probe"]
        /\ hazard' = [hazard EXCEPT ![t][0] = c]
    BY <1>1, <1>2, <1>4 DEF Hold
  <1>6. /\ r.pc = "probe" /\ r.slot = 0 /\ r.latest = b /\ r.cur = c /\ r.ha = "load"
    BY <1>1, <1>2, <1>3, <1>4, <1>5, NotAccessing DEF IsThread
  <1>7. 0 \in Slots
    BY DEF Slots
  <1>8. hazard' = [hazard EXCEPT ![t] = h] /\ h = [s \in Slots |-> h[s]] /\ h[0] = c
    BY <1>2, <1>5, <1>7 DEF HInv
  <1>9. Local(r, h)
    BY <1>6 DEF Local
  <1>10. Fresh(t, c)
    <2>1. c \notin freed
      BY <1>2, <1>3 DEF HInv, Held
    <2>2. b \notin freed
      <3>1. Protects(th[t], 0, b)
        BY <1>2, <1>3 DEF Protects, Early
      <3> QED
        BY <1>4, <1>7, <3>1, Kept
    <2>3. ASSUME NEW w \in Threads, w # t, Awaits(th[w], c)
          PROVE  FALSE
      <3>1. th[w].pc \in {"scan", "wait_hazards"} /\ th[w].prev = c
        BY <2>3 DEF Awaits
      <3>2. th[t].pc \notin Detaching
        BY <1>3 DEF Detaching
      <3> QED
        BY <1>4, <2>2, <2>3, <3>1, <3>2, NoneIsOlder
    <2> QED
      BY <2>1, <2>3 DEF Fresh
  <1>11. Covers(t, r, h)
    BY <1>6, <1>8, <1>10 DEF Covers, Protects, Early, Detaching, Holding
  <1>12. r.pc \in {"outside", "register"} \/ OnList(hazards, t)
    BY <1>3, Rows
  <1>13. /\ th[t].pc \notin {"scan", "wait_hazards"} /\ r.pc \notin {"scan", "wait_hazards"}
         /\ r.pc = "hold" => r.cur \notin freed
    BY <1>3, <1>6
  <1>14. \A n \in Tables : table'[n].prev = table[n].prev
    BY <1>3
  <1> QED
    BY <1>3, <1>5, <1>8, <1>9, <1>11, <1>12, <1>13, <1>14, ThreadMoves

\* Nor is a table that goes from hazard pointer 4, which may have been passed, to 0.
LEMMA SettleMoves ==
    ASSUME IInv, HInv, AtMostTwo, NEW t \in Threads, Settle(t)
    PROVE  HInv'
  <1>1. /\ Placed(th[t], latest, table) /\ IsThread(th[t]) /\ th = [u \in Threads |-> th[u]]
        /\ Local(th[t], hazard[t])
    BY Rows DEF IInv, Placed
  <1>2. PICK r, s0, c : r = th'[t] /\ s0 = th[t].slot /\ c = th[t].curr
    OBVIOUS
  <1>3. /\ th[t].pc = "settle" /\ UNCHANGED <<latest, table, freed, hazards>>
        /\ th[t].ha = "load" /\ s0 \in {0, 2} /\ th[t].cur \in Tables /\ c \in Tables
    BY <1>1, <1>2, NotAccessing DEF Settle, Placed, RawIntern
  <1>4. \A n \in Tables : table'[n].prev = table[n].prev
    BY <1>3
  <1>5. 0 \in Slots /\ 1 \in Slots /\ 2 \in Slots /\ 4 \in Slots
    BY DEF Slots
  <1>6. CASE /\ hazard' = [hazard EXCEPT ![t][s0] = NoTable, ![t][4] = NoTable]
             /\ Leave(t, th[t].result)
    <2>1. PICK w, x : w = th[t].result /\ x = NoTable
      OBVIOUS
    <2>2. PICK h : /\ hazard' = [hazard EXCEPT ![t] = h] /\ h = [n \in Slots |-> h[n]]
                   /\ th[t].slot = 2 => h[0] = hazard[t][0] /\ h[1] = hazard[t][1]
      <3>1. s0 \in {0, 2} /\ Stores(t, s0, x)
        BY <1>3, <1>6, <2>1 DEF Stores
      <3> QED
        BY <1>2, <3>1, StoresSet
    <2>3. Leave(t, w) /\ th[t].pc \in RawIntern
      BY <1>3, <1>6, <2>1 DEF RawIntern
    <2> QED
      BY <1>3, <1>4, <2>2, <2>3, LeaveMoves
  <1>7. CASE /\ hazard' = [hazard EXCEPT ![t][s0] = c, ![t][4] = NoTable]
             /\ th' = [th EXCEPT ![t].cur = c, ![t].curr = NoTable, ![t].i = 0,
                                 ![t].pc = "probe"]
    <2>2. /\ th' = [th EXCEPT ![t] = r]
          /\ r = [th[t] EXCEPT !.cur = c, !.curr = NoTable, !.i = 0, !.pc = "probe"]
      BY <1>1, <1>2, <1>7
    <2>3. /\ r.pc = "probe" /\ r.slot = s0 /\ r.latest = th[t].latest /\ r.prev = th[t].prev
          /\ r.cur = c /\ r.ha = "load"
      BY <1>1, <1>2, <1>3, <2>2, ZenonT(60) DEF IsThread
    <2>4. PICK h : /\ hazard' = [hazard EXCEPT ![t] = h] /\ h = [n \in Slots |-> h[n]]
                   /\ h[s0] = c /\ (s0 = 2 => h[0] = hazard[t][0] /\ h[1] = hazard[t][1])
      <3>1. s0 \in {0, 2} /\ Stores(t, s0, c)
        BY <1>3, <1>7 DEF Stores
      <3> QED
        BY <3>1, StoresSet
    <2>5. Local(r, h)
      BY <1>1, <1>2, <1>3, <2>3 DEF Local
    <2>6. s0 = 0 => Protects(th[t], 0, c) \/ Fresh(t, c)
      <3> SUFFICES ASSUME s0 = 0, ~Protects(th[t], 0, c)
                   PROVE  Fresh(t, c)
        OBVIOUS
      <3>1. PICK b : b = th[t].cur
        OBVIOUS
      <3>2. Protects(th[t], 0, b)
        BY <1>2, <1>3, <3>1 DEF Protects, RawIntern
      <3>3. b < c
        <4>1. b # c /\ b <= c
          BY <1>1, <1>2, <1>3, <3>1, <3>2 DEF Local
        <4>2. b \in Nat /\ c \in Nat
          BY <1>3, <3>1, TableNumbers
        <4> QED
          BY <4>1, <4>2
      <3>4. b \in Tables /\ b \notin freed
        BY <1>3, <1>5, <3>1, <3>2, Kept
      <3>5. c \notin freed
        <4>1. Protects(th[t], 4, c)
          BY <1>2, <1>3 DEF Protects
        <4> QED
          BY <1>3, <1>5, <4>1, Kept
      <3>6. ASSUME NEW w \in Threads, w # t, Awaits(th[w], c)
            PROVE  FALSE
        <4>1. th[w].pc \in {"scan", "wait_hazards"} /\ th[w].prev = c
          BY <3>6 DEF Awaits
        <4>2. th[t].pc \notin Detaching
          BY <1>3 DEF Detaching
        <4> QED
          BY <3>3, <3>4, <3>6, <4>1, <4>2, NoneIsOlder
      <3> QED
        BY <3>5, <3>6 DEF Fresh
    <2>7. Covers(t, r, h)
      <3> SUFFICES ASSUME NEW n \in Slots, NEW d \in Tables, Protects(r, n, d)
                   PROVE  h[n] = d /\ (Protects(th[t], n, d) \/ Fresh(t, d))
        BY DEF Covers
      <3>1. CASE s0 = 0
        <4>1. n = 0 /\ d = c
          BY <2>3, <3>1 DEF Protects, Early, Detaching, Holding
        <4> QED
          BY <2>4, <2>6, <3>1, <4>1
      <3>2. CASE s0 = 2
        <4>1. Protects(th[t], n, d) /\ n \in {0, 1}
          BY <1>2, <2>3, <3>2 DEF Protects, Early, Detaching, Holding
        <4>2. hazard[t][n] = d
          BY <4>1, Kept
        <4> QED
          BY <2>4, <3>2, <4>1, <4>2
      <3> QED
        BY <1>3, <3>1, <3>2
    <2>8. r.pc \in {"outside", "register"} \/ OnList(hazards, t)
      BY <1>3, Rows
    <2>9. /\ th[t].pc \notin {"scan", "wait_hazards"} /\ r.pc \notin {"scan", "wait_hazards"}
          /\ r.pc = "hold" => r.cur \notin freed
      BY <1>3, <2>3
    <2> QED
      BY <1>3, <1>4, <2>2, <2>4, <2>5, <2>7, <2>8, <2>9, ThreadMoves
  <1> QED
    BY <1>2, <1>6, <1>7 DEF Settle

-----------------------------------------------------------------------------
(* The CAS of latest, and the steps of a detach                             *)

LEMMA SwapMoves ==
    ASSUME IInv, HInv, NEW t \in Threads, SwapLatest(t)
    PROVE  HInv'
  <1>1. /\ Placed(th[t], latest, table) /\ IsThread(th[t]) /\ th = [u \in Threads |-> th[u]]
        /\ table = [n \in Tables |-> table[n]]
        /\ latest \in Tables /\ latest \in Nat /\ Local(th[t], hazard[t])
    BY Rows, TableNumbers DEF IInv, Placed
  <1>2. PICK r, c, l : r = th'[t] /\ c = th[t].cur /\ l = latest'
    OBVIOUS
  <1>3. /\ th[t].pc = "swap" /\ UNCHANGED <<freed, hazards, hazard>>
        /\ th' = [th EXCEPT ![t] = r] /\ r = [th[t] EXCEPT !.cur = l, !.pc = "hold"]
    BY <1>1, <1>2 DEF SwapLatest
  <1>4. /\ r.pc = "hold" /\ r.slot = th[t].slot /\ r.prev = th[t].prev
        /\ r.latest = th[t].latest /\ r.cur = l /\ r.ha = "load"
    BY <1>1, <1>3, NotAccessing DEF IsThread
  <1>5. /\ c = th[t].latest /\ c \in Tables /\ c \in Nat /\ c <= latest
        /\ table[c].prev = NoTable
    BY <1>1, <1>2, <1>3, TableNumbers DEF Local, Placed, RawIntern
  <1>6. r.slot = 0
    <2> SUFFICES ASSUME th[t].slot # 0 PROVE FALSE
      BY <1>4
    <2>1. Holding(th[t])
      BY <1>1 DEF Placed, Holding
    <2> QED
      BY <1>1, <1>5, <2>1, HoldersAreLatest DEF Placed
  <1>7. \A s \in Slots, b \in Tables : Protects(r, s, b) => Protects(th[t], s, b)
    BY <1>3, <1>4, <1>6 DEF Protects, Early, RawIntern, Detaching, Holding
  <1>8. PICK h : h = hazard[t]
    OBVIOUS
  <1>9. hazard' = [hazard EXCEPT ![t] = h] /\ h = [s \in Slots |-> h[s]] /\ Covers(t, r, h)
    BY <1>3, <1>7, <1>8, Rows, NoneNew
  <1>10. r.pc \in {"outside", "register"} \/ OnList(hazards, t)
    BY <1>3, Rows
  <1>11. CASE latest # c
    <2>1. UNCHANGED <<latest, table>> /\ l = latest
      BY <1>2, <1>11 DEF SwapLatest
    <2>2. c < l
      BY <1>1, <1>5, <1>11, <2>1
    <2>3. Local(r, h)
      BY <1>4, <1>5, <1>6, <2>2 DEF Local
    <2>4. l \notin freed
      BY <2>1, LatestIsFresh DEF Fresh
    <2>5. /\ th[t].pc \notin {"scan", "wait_hazards"} /\ r.pc \notin {"scan", "wait_hazards"}
          /\ r.pc = "hold" => r.cur \notin freed
      BY <1>3, <1>4, <2>4
    <2>6. \A n \in Tables : table'[n].prev = table[n].prev
      BY <2>1
    <2> QED
      BY <1>3, <1>9, <1>10, <2>1, <2>3, <2>5, <2>6, ThreadMoves
  <1>12. CASE latest = c
    <2>1. /\ l = latest + 1 /\ l \in Tables
          /\ table' = [table EXCEPT ![l] = [Blank(l) EXCEPT !.prev = latest]]
      BY <1>2, <1>12 DEF SwapLatest
    <2>2. [Blank(l) EXCEPT !.prev = latest].prev = latest
      BY DEF Blank
    <2>3. table'[l].prev = latest /\ \A n \in Tables : n # l => table'[n] = table[n]
      BY <1>1, <2>1, <2>2
    <2>4. c < l /\ l \in Nat
      BY <1>5, <1>12, <2>1
    <2>5. Local(r, h)
      BY <1>4, <1>5, <1>6, <2>4 DEF Local
    <2>6. \A n \in freed : n \in Tables /\ n \in Nat /\ n < latest
      BY TableNumbers DEF IInv, Gone
    <2>7. r.pc = "hold" => r.cur \notin freed
      <3>1. l \in freed => l < latest
        BY <2>6
      <3>2. ~(l < latest)
        BY <1>1, <2>1
      <3> QED
        BY <1>4, <3>1, <3>2
    <2>8. th'[t] = r /\ \A u \in Threads : u # t => th'[u] = th[u]
      BY <1>1, <1>3
    <2>9. Live(th', latest', table', freed')
      <3> SUFFICES ASSUME NEW n \in Tables, n < l
                   PROVE  \/ n \in freed \/ table'[l].prev = n
                          \/ \E u \in Threads : /\ th'[u].pc \in {"scan", "wait_hazards"}
                                                /\ th'[u].prev = n
        BY <1>2, <1>3 DEF Live
      <3>1. CASE n = latest
        BY <2>3, <3>1
      <3>2. CASE n # latest
        <4>1. n < latest /\ table[latest].prev # n
          BY <1>1, <1>5, <1>12, <2>1, <3>2, TableNumbers
        <4>2. CASE n \in freed
          BY <4>2
        <4>3. CASE n \notin freed
          <5>1. PICK u \in Threads : th[u].pc \in {"scan", "wait_hazards"} /\ th[u].prev = n
            BY <4>1, <4>3 DEF HInv, Live
          <5>2. u # t
            BY <1>3, <5>1
          <5> QED
            BY <2>8, <5>1, <5>2
        <4> QED
          BY <4>2, <4>3
      <3> QED
        BY <3>1, <3>2
    <2>10. Off(th', table', freed')
      <3>1. \A n \in Tables : n <= latest => n # l
        BY <1>1, <2>1
      <3>2. ASSUME NEW n \in freed PROVE table'[n + 1].prev = NoTable
        <4>1. n \in Nat /\ latest \in Nat /\ n < latest /\ latest < MaxTables /\ MaxTables \in Nat
          BY <1>1, <2>6, TableNumbers
        <4>2. n + 1 <= latest
          BY <4>1
        <4>3. n + 1 \in Tables
          BY <4>1 DEF Tables
        <4>4. table[n + 1].prev = NoTable
          BY DEF HInv, Off
        <4> QED
          BY <2>3, <3>1, <4>2, <4>3, <4>4
      <3>3. ASSUME NEW u \in Threads, th'[u].pc \in {"scan", "wait_hazards"}
            PROVE  table'[th'[u].prev + 1].prev = NoTable
        <4>1. u # t /\ th'[u] = th[u] /\ th[u].pc \in {"scan", "wait_hazards"}
          BY <1>4, <2>8, <3>3
        <4>2. /\ th[u].latest = th[u].prev + 1 /\ th[u].latest \in Tables
              /\ th[u].latest <= latest
          BY <4>1 DEF IInv, Placed, Detaching
        <4>3. table[th[u].prev + 1].prev = NoTable
          BY <4>1 DEF HInv, Off
        <4> QED
          BY <2>3, <3>1, <4>1, <4>2, <4>3
      <3> QED
        BY <1>3, <3>2, <3>3 DEF Off
    <2>11. /\ hazards' \in Seq(Threads)
           /\ \A u \in Threads : OnList(hazards, u) => OnList(hazards', u)
           /\ r.pc \in {"outside", "register"} \/ OnList(hazards', t)
      BY <1>3, <1>10 DEF HInv
    <2>12. r.pc # "wait_hazards"
      BY <1>4
    <2> QED
      BY <1>3, <1>9, <2>5, <2>7, <2>9, <2>10, <2>11, <2>12, ThreadMovesTo
  <1> QED
    BY <1>11, <1>12

LEMMA DetachMoves ==
    ASSUME IInv, HInv, NEW t \in Threads, Detach(t)
    PROVE  HInv'
  <1>1. /\ Placed(th[t], latest, table) /\ IsThread(th[t]) /\ th = [u \in Threads |-> th[u]]
        /\ table = [n \in Tables |-> table[n]] /\ \A n \in Tables : IsTable(table[n], n)
    BY DEF IInv, Placed
  <1>2. PICK r, n, p : r = th'[t] /\ n = th[t].latest /\ p = th[t].prev
    OBVIOUS
  <1>3. /\ th[t].pc = "detach" /\ UNCHANGED <<latest, freed, hazards, hazard>>
        /\ th' = [th EXCEPT ![t] = r] /\ r = [th[t] EXCEPT !.pc = "scan"]
        /\ table' = [table EXCEPT ![n].prev = NoTable]
    BY <1>1, <1>2 DEF Detach
  <1>4. /\ n \in Tables /\ p \in Tables /\ n = p + 1 /\ th[t].slot = 0
    BY <1>1, <1>2, <1>3 DEF Placed, Detaching, RawIntern
  <1>5. /\ r.pc = "scan" /\ r.slot = 0 /\ r.prev = p /\ r.latest = n /\ r.ha = "load"
    BY <1>1, <1>2, <1>3, <1>4, NotAccessing DEF IsThread
  <1>6. table'[n].prev = NoTable /\ \A m \in Tables : m # n => table'[m] = table[m]
    BY <1>1, <1>3, <1>4 DEF IsTable
  <1>7. th'[t] = r /\ \A u \in Threads : u # t => th'[u] = th[u]
    BY <1>1, <1>3
  <1>8. PICK h : h = hazard[t]
    OBVIOUS
  <1>9. \A s \in Slots, b \in Tables : Protects(r, s, b) => Protects(th[t], s, b)
    BY <1>2, <1>3, <1>5 DEF Protects, Early, RawIntern, Detaching, Holding
  <1>10. hazard' = [hazard EXCEPT ![t] = h] /\ h = [s \in Slots |-> h[s]] /\ Covers(t, r, h)
    BY <1>3, <1>8, <1>9, Rows, NoneNew
  <1>11. Local(r, h)
    BY <1>5 DEF Local
  <1>12. Live(th', latest', table', freed')
    <2> SUFFICES ASSUME NEW c \in Tables, c < latest
                 PROVE  \/ c \in freed \/ table'[latest].prev = c
                        \/ \E u \in Threads : /\ th'[u].pc \in {"scan", "wait_hazards"}
                                              /\ th'[u].prev = c
      BY <1>3 DEF Live
    <2>1. latest \in Tables
      BY DEF IInv
    <2>2. CASE table[latest].prev = c
      <3>1. CASE latest = n
        <4>1. n = c + 1
          BY <2>1, <2>2, <3>1, TableNumbers DEF IInv, Chained
        <4>2. c = p
          BY <1>4, <4>1, TableNumbers
        <4> QED
          BY <1>5, <1>7, <4>2
      <3>2. CASE latest # n
        BY <1>6, <2>1, <2>2, <3>2
      <3> QED
        BY <3>1, <3>2
    <2>3. CASE table[latest].prev # c /\ c \notin freed
      <3>1. PICK u \in Threads : th[u].pc \in {"scan", "wait_hazards"} /\ th[u].prev = c
        BY <2>3 DEF HInv, Live
      <3>2. u # t
        BY <1>3, <3>1
      <3> QED
        BY <1>7, <3>1, <3>2
    <2> QED
      BY <2>2, <2>3
  <1>13. Off(th', table', freed')
    <2>1. \A m \in Tables : table[m].prev = NoTable => table'[m].prev = NoTable
      BY <1>6
    <2>2. ASSUME NEW c \in freed PROVE table'[c + 1].prev = NoTable
      <3>1. c \in Tables /\ latest \in Tables /\ c < latest
        BY DEF IInv, Gone
      <3>2. c \in Nat /\ latest \in Nat /\ c < latest /\ latest < MaxTables /\ MaxTables \in Nat
        BY <3>1, TableNumbers
      <3>3. c + 1 \in Tables
        BY <3>2 DEF Tables
      <3> QED
        BY <2>1, <3>3 DEF HInv, Off
    <2>3. ASSUME NEW u \in Threads, th'[u].pc \in {"scan", "wait_hazards"}
          PROVE  table'[th'[u].prev + 1].prev = NoTable
      <3>1. CASE u = t
        BY <1>4, <1>5, <1>6, <1>7, <3>1
      <3>2. CASE u # t
        <4>1. th'[u] = th[u] /\ th[u].pc \in {"scan", "wait_hazards"}
          BY <1>7, <2>3, <3>2
        <4>2. th[u].latest = th[u].prev + 1 /\ th[u].latest \in Tables
          BY <4>1 DEF IInv, Placed, Detaching
        <4>3. table[th[u].prev + 1].prev = NoTable
          BY <4>1 DEF HInv, Off
        <4> QED
          BY <2>1, <4>1, <4>2, <4>3
      <3> QED
        BY <3>1, <3>2
    <2> QED
      BY <1>3, <2>2, <2>3 DEF Off
  <1>14. /\ hazards' \in Seq(Threads)
         /\ \A u \in Threads : OnList(hazards, u) => OnList(hazards', u)
    BY <1>3 DEF HInv
  <1>15. OnList(hazards', t)
    BY <1>3, Rows
  <1>16. r.pc # "wait_hazards" /\ (r.pc = "hold" => r.cur \notin freed)
    BY <1>5
  <1> QED
    BY <1>3, <1>10, <1>11, <1>12, <1>13, <1>14, <1>15, <1>16, ThreadMovesTo

\* A thread walks the hazard list: it has yet to come to the hazard pointers that keep
\* the table it waits for.
LEMMA WalkMoves ==
    ASSUME IInv, HInv, NEW t \in Threads, NEW r, th' = [th EXCEPT ![t] = r],
           UNCHANGED <<latest, table, freed, hazards, hazard>>,
           th[t].pc \in {"scan", "wait_hazards"}, r.pc = "wait_hazards", r.slot = 0,
           r.latest = th[t].latest, r.prev = th[t].prev, r.ha = "load",
           r.left \in Seq(Threads), r.at \in Nat,
           \A u \in Threads, s \in Slots :
              u # t /\ r.prev \in Tables /\ Protects(th[u], s, r.prev) => Ahead(r, u, s)
    PROVE  HInv'
  <1>1. th'[t] = r /\ \A u \in Threads : u # t => th'[u] = th[u]
    BY DEF IInv
  <1>2. PICK q, hz : q = th' /\ hz = hazard
    OBVIOUS
  <1>3. \A u \in Threads : Local(q[u], hz[u])
    <2>1. Local(r, hz[t])
      BY DEF Local
    <2> QED
      BY <1>1, <1>2, <2>1 DEF HInv
  <1>4. Safe(q, hz, freed)
    <2> SUFFICES ASSUME NEW u \in Threads, NEW s \in Slots, NEW c \in Tables, Protects(q[u], s, c)
                 PROVE  /\ hz[u][s] = c /\ c \notin freed
                        /\ \A w \in Threads : w # u /\ Awaits(q[w], c) => Ahead(q[w], u, s)
      BY DEF Safe
    <2>1. Protects(th[u], s, c)
      <3>1. CASE u # t
        BY <1>1, <1>2, <3>1
      <3>2. CASE u = t
        BY <1>1, <1>2, <3>2 DEF Protects, Early, Detaching, RawIntern, Holding
      <3> QED
        BY <3>1, <3>2
    <2>2. hz[u][s] = c /\ c \notin freed
      BY <1>2, <2>1, Kept
    <2>3. ASSUME NEW w \in Threads, w # u, Awaits(q[w], c)
          PROVE  Ahead(q[w], u, s)
      <3>1. CASE w = t
        BY <1>1, <1>2, <2>1, <2>3, <3>1 DEF Awaits
      <3>2. CASE w # t
        <4>1. q[w] = th[w]
          BY <1>1, <1>2, <3>2
        <4>2. Safe(th, hazard, freed)
          BY DEF HInv
        <4> QED
          BY <2>1, <2>3, <4>1, <4>2 DEF Safe
      <3> QED
        BY <3>1, <3>2
    <2> QED
      BY <2>2, <2>3
  <1>5. Registered(q, hazards) /\ Held(q, freed)
    BY <1>1, <1>2 DEF HInv, Registered, Held
  <1>6. \A u \in Threads : /\ q[u].pc \in {"scan", "wait_hazards"} <=>
                                th[u].pc \in {"scan", "wait_hazards"}
                           /\ q[u].prev = th[u].prev
    BY <1>1, <1>2
  <1>7. Live(q, latest, table, freed)
    BY <1>6 DEF HInv, Live
  <1>8. Off(q, table, freed)
    BY <1>6 DEF HInv, Off
  <1> QED
    BY <1>2, <1>3, <1>4, <1>5, <1>7, <1>8 DEF HInv

LEMMA LoadMoves ==
    ASSUME IInv, HInv, NEW t \in Threads, LoadList(t)
    PROVE  HInv'
  <1>1. /\ Placed(th[t], latest, table) /\ IsThread(th[t]) /\ th = [u \in Threads |-> th[u]]
    BY DEF IInv, Placed
  <1>2. PICK r, hs : r = th'[t] /\ hs = hazards
    OBVIOUS
  <1>3. /\ th[t].pc = "scan" /\ UNCHANGED <<latest, table, freed, hazards, hazard>>
        /\ th' = [th EXCEPT ![t] = r]
        /\ r = [th[t] EXCEPT !.pc = "wait_hazards", !.at = 0, !.left = hs]
    BY <1>1, <1>2 DEF LoadList
  <1>4. /\ r.pc = "wait_hazards" /\ r.slot = 0 /\ r.latest = th[t].latest
        /\ r.prev = th[t].prev /\ r.ha = "load" /\ r.left = hs /\ r.at = 0
    BY <1>1, <1>3, NotAccessing DEF IsThread, Placed, RawIntern
  <1>5. r.left \in Seq(Threads) /\ r.at \in Nat
    BY <1>2, <1>4 DEF HInv
  <1>6. ASSUME NEW u \in Threads, NEW s \in Slots, u # t, r.prev \in Tables,
               Protects(th[u], s, r.prev)
        PROVE  Ahead(r, u, s)
    <2>1. th[u].pc \notin {"outside", "register"}
      BY <1>6 DEF Protects, Early, RawIntern, Detaching, Holding, IInv, Placed
    <2>2. OnList(hs, u)
      BY <1>2, <2>1, Rows
    <2>3. 0 <= s
      BY DEF Slots
    <2> QED
      BY <1>4, <2>2, <2>3 DEF OnList, Ahead
  <1> QED
    BY <1>3, <1>4, <1>5, <1>6, WalkMoves

LEMMA WaitMoves ==
    ASSUME IInv, HInv, NEW t \in Threads, WaitHazard(t)
    PROVE  HInv'
  <1>1. /\ Placed(th[t], latest, table) /\ IsThread(th[t]) /\ th = [u \in Threads |-> th[u]]
        /\ Local(th[t], hazard[t])
    BY Rows DEF IInv, Placed
  <1>2. PICK r, left, at, p, v : /\ r = th'[t] /\ left = th[t].left /\ at = th[t].at
                                 /\ p = th[t].prev /\ v = Head(left)
    OBVIOUS
  <1>3. /\ th[t].pc = "wait_hazards" /\ UNCHANGED <<latest, table, freed, hazards, hazard>>
        /\ th' = [th EXCEPT ![t] = r] /\ left # <<>> /\ (v = t \/ hazard[v][at] # p)
        /\ \/ r = [th[t] EXCEPT !.left = Tail(left), !.at = 0] /\ (v = t \/ at = 4)
           \/ r = [th[t] EXCEPT !.at = at + 1] /\ v # t /\ at # 4
    BY <1>1, <1>2 DEF WaitHazard
  <1>4. left \in Seq(Threads) /\ at \in Nat
    BY <1>1, <1>2, <1>3 DEF Local
  <1>5. /\ r.pc = "wait_hazards" /\ r.slot = 0 /\ r.latest = th[t].latest
        /\ r.prev = p /\ r.ha = "load"
        /\ \/ r.left = Tail(left) /\ r.at = 0 /\ (v = t \/ at = 4)
           \/ r.left = left /\ r.at = at + 1 /\ v # t /\ at # 4
    <2>1. th[t].slot = 0 /\ th[t].ha = "load"
      BY <1>1, <1>3, NotAccessing DEF Placed, RawIntern
    <2>2. CASE r = [th[t] EXCEPT !.left = Tail(left), !.at = 0] /\ (v = t \/ at = 4)
      BY <1>1, <1>2, <1>3, <2>1, <2>2, ZenonT(60) DEF IsThread
    <2>3. CASE r = [th[t] EXCEPT !.at = at + 1] /\ v # t /\ at # 4
      BY <1>1, <1>2, <1>3, <2>1, <2>3 DEF IsThread
    <2> QED
      BY <1>3, <2>2, <2>3
  <1>6. r.left \in Seq(Threads) /\ r.at \in Nat
    <2>1. Tail(left) \in Seq(Threads) /\ at + 1 \in Nat /\ 0 \in Nat
      BY <1>3, <1>4
    <2> QED
      BY <1>4, <1>5, <2>1
  <1>7. ASSUME NEW u \in Threads, NEW s \in Slots, u # t, r.prev \in Tables,
               Protects(th[u], s, r.prev)
        PROVE  Ahead(r, u, s)
    <2>1. /\ hazard[u][s] = p
      BY <1>5, <1>7, Kept
    <2>2. Ahead(th[t], u, s)
      <3>1. Awaits(th[t], p) /\ Safe(th, hazard, freed)
        BY <1>2, <1>3 DEF Awaits, HInv
      <3> QED
        BY <1>5, <1>7, <3>1 DEF Safe
    <2>3. PICK i \in DOMAIN left : left[i] = u /\ (i = 1 => at <= s)
      BY <1>2, <2>2 DEF Ahead
    <2>4. s \in Nat /\ s <= 4 /\ i \in 1 .. Len(left) /\ v = left[1]
      BY <1>2, <1>3, <1>4 DEF Slots
    <2>5. CASE r.left = Tail(left) /\ r.at = 0 /\ (v = t \/ at = 4)
      <3>1. i # 1
        <4> SUFFICES ASSUME i = 1 PROVE FALSE
          OBVIOUS
        <4>1. v = u /\ at = 4 /\ at <= s
          BY <1>7, <2>3, <2>4, <2>5
        <4>2. s = at
          BY <2>4, <4>1
        <4> QED
          BY <1>3, <1>7, <2>1, <4>1, <4>2
      <3>2. i - 1 \in DOMAIN r.left /\ r.left[i - 1] = u
        BY <1>3, <1>4, <2>3, <2>4, <2>5, <3>1
      <3> QED
        BY <2>4, <2>5, <3>2 DEF Ahead
    <2>6. CASE r.left = left /\ r.at = at + 1 /\ v # t /\ at # 4
      <3>1. i = 1 => at + 1 <= s
        <4> SUFFICES ASSUME i = 1 PROVE at + 1 <= s
          OBVIOUS
        <4>1. v = u /\ at <= s
          BY <2>3, <2>4
        <4>2. s # at
          BY <1>3, <1>7, <2>1, <4>1
        <4> QED
          BY <1>4, <2>4, <4>1, <4>2
      <3> QED
        BY <2>3, <2>6, <3>1 DEF Ahead
    <2> QED
      BY <1>5, <2>5, <2>6
  <1>8. r.prev = th[t].prev /\ th[t].pc \in {"scan", "wait_hazards"}
    BY <1>2, <1>3, <1>5
  <1> QED
    BY <1>3, <1>5, <1>6, <1>7, <1>8, WalkMoves

LEMMA FreeMoves ==
    ASSUME IInv, HInv, AtMostTwo, NEW t \in Threads, FreePrev(t)
    PROVE  HInv'
  <1>1. /\ Placed(th[t], latest, table) /\ IsThread(th[t]) /\ th = [u \in Threads |-> th[u]]
    BY DEF IInv, Placed
  <1>2. PICK r, p, f : r = th'[t] /\ p = th[t].prev /\ f = freed \cup {p}
    OBVIOUS
  <1>3. /\ th[t].pc = "wait_hazards" /\ UNCHANGED <<latest, table, hazards, hazard>>
        /\ th' = [th EXCEPT ![t] = r] /\ r = [th[t] EXCEPT !.pc = "skip"]
        /\ th[t].left = <<>> /\ freed' = f
    BY <1>1, <1>2 DEF FreePrev
  <1>4. /\ r.pc = "skip" /\ r.slot = 0 /\ r.latest = th[t].latest
        /\ r.prev = p /\ r.ha = "load"
    BY <1>1, <1>2, <1>3, NotAccessing DEF IsThread, Placed, RawIntern
  <1>5. p \in Tables /\ p \in Nat /\ th[t].latest = p + 1 /\ p + 1 \in Tables
    BY <1>1, <1>2, <1>3, TableNumbers DEF Placed, Detaching
  <1>6. th'[t] = r /\ \A u \in Threads : u # t => th'[u] = th[u]
    BY <1>1, <1>3
  <1>7. PICK q, hz : q = th' /\ hz = hazard
    OBVIOUS
  <1>8. Safe(th, hazard, freed) /\ Awaits(th[t], p)
    BY <1>2, <1>3 DEF HInv, Awaits
  <1>9. ASSUME NEW u \in Threads, u # t, NEW s \in Slots
        PROVE  ~Protects(th[u], s, p)
    <2> SUFFICES ASSUME Protects(th[u], s, p) PROVE FALSE
      OBVIOUS
    <2>1. Ahead(th[t], u, s)
      BY <1>5, <1>8, <1>9 DEF Safe
    <2> QED
      BY <1>3, <2>1 DEF Ahead
  <1>10. \A u \in Threads : Local(q[u], hz[u])
    <2>1. Local(r, hz[t])
      BY <1>4 DEF Local
    <2> QED
      BY <1>6, <1>7, <2>1 DEF HInv
  <1>11. Safe(q, hz, f)
    <2> SUFFICES ASSUME NEW u \in Threads, NEW s \in Slots, NEW c \in Tables, Protects(q[u], s, c)
                 PROVE  /\ hz[u][s] = c /\ c \notin f
                        /\ \A w \in Threads : w # u /\ Awaits(q[w], c) => Ahead(q[w], u, s)
      BY DEF Safe
    <2>1. Protects(th[u], s, c) /\ c # p
      <3>1. CASE u # t
        BY <1>6, <1>7, <1>9, <3>1
      <3>2. CASE u = t
        <4>1. s = 0 /\ c = th[t].latest
          BY <1>4, <1>6, <1>7, <3>2 DEF Protects, Early, Detaching, RawIntern, Holding
        <4> QED
          BY <1>3, <1>5, <3>2, <4>1 DEF Protects, Early, Detaching
      <3> QED
        BY <3>1, <3>2
    <2>2. hz[u][s] = c /\ c \notin f
      BY <1>2, <1>7, <2>1, Kept
    <2>3. \A w \in Threads : Awaits(q[w], c) => q[w] = th[w]
      BY <1>4, <1>6, <1>7 DEF Awaits
    <2> QED
      BY <1>8, <2>1, <2>2, <2>3 DEF Safe
  <1>12. Registered(q, hazards)
    BY <1>3, <1>6, <1>7 DEF HInv, Registered
  <1>13. Held(q, f)
    <2> SUFFICES ASSUME NEW u \in Threads, q[u].pc = "hold"
                 PROVE  q[u].cur # p /\ q[u].cur \notin freed
      BY <1>2 DEF Held
    <2>1. u # t /\ q[u] = th[u]
      BY <1>4, <1>6, <1>7
    <2>2. th[u].cur \notin freed
      BY <2>1 DEF HInv, Held
    <2>3. th[u].cur # p
      <3> SUFFICES ASSUME th[u].cur = p PROVE FALSE
        OBVIOUS
      <3>1. PICK b : b = th[u].latest
        OBVIOUS
      <3>2. b < p /\ b \in Tables
        BY <2>1, <3>1 DEF HInv, Local, IInv, Placed, RawIntern
      <3>3. Protects(th[u], 0, b) /\ 0 \in Slots
        BY <2>1, <3>1 DEF Protects, Early, Slots
      <3>4. b \notin freed
        BY <3>2, <3>3, Kept
      <3>5. th[u].pc \notin Detaching /\ th[t].pc \in {"scan", "wait_hazards"}
        BY <1>3, <2>1 DEF Detaching
      <3> QED
        BY <1>2, <2>1, <3>2, <3>4, <3>5, NoneIsOlder
    <2> QED
      BY <2>1, <2>2, <2>3
  <1>14. Live(q, latest, table, f)
    <2> SUFFICES ASSUME NEW c \in Tables, c < latest, c \notin f, table[latest].prev # c
                 PROVE  \E u \in Threads : q[u].pc \in {"scan", "wait_hazards"} /\ q[u].prev = c
      BY DEF Live
    <2>1. PICK u \in Threads : th[u].pc \in {"scan", "wait_hazards"} /\ th[u].prev = c
      BY <1>2 DEF HInv, Live
    <2>2. u # t
      BY <1>2, <2>1
    <2> QED
      BY <1>6, <1>7, <2>1, <2>2
  <1>15. Off(q, table, f)
    <2>1. table[p + 1].prev = NoTable
      BY <1>2, <1>3 DEF HInv, Off
    <2>2. \A u \in Threads : q[u].pc \in {"scan", "wait_hazards"} => q[u] = th[u]
      BY <1>4, <1>6, <1>7
    <2> QED
      BY <1>2, <2>1, <2>2 DEF HInv, Off
  <1> QED
    BY <1>3, <1>7, <1>10, <1>11, <1>12, <1>13, <1>14, <1>15 DEF HInv

-----------------------------------------------------------------------------
LEMMA InitHInv ==
    ASSUME Init
    PROVE  HInv
  <1>1. PICK r, g : r = Outside /\ g = [s \in Slots |-> NoTable]
    OBVIOUS
  <1>2. r.pc = "outside" /\ r.slot = 0 /\ r.ha = "load"
    BY <1>1 DEF Outside
  <1>3. /\ latest = 0 /\ freed = {} /\ hazards = <<>>
        /\ hazard = [t \in Threads |-> g] /\ \A t \in Threads : th[t] = r
    BY <1>1 DEF Init
  <1>4. \A t \in Threads : hazard[t] = g /\ g = [s \in Slots |-> g[s]]
    BY <1>1, <1>3
  <1>5. hazard = [t \in Threads |-> hazard[t]]
    BY <1>3
  <1>6. \A t \in Threads : Local(th[t], hazard[t])
    BY <1>2, <1>3 DEF Local
  <1>7. Safe(th, hazard, freed)
    BY <1>2, <1>3 DEF Safe, Protects, Early, RawIntern, Detaching, Holding
  <1>8. Registered(th, hazards) /\ Held(th, freed)
    BY <1>2, <1>3 DEF Registered, Held
  <1>9. Live(th, latest, table, freed)
    <2>1. \A c \in Tables : ~(c < 0)
      BY TableNumbers
    <2> QED
      BY <1>3, <2>1 DEF Live
  <1>10. Off(th, table, freed)
    BY <1>2, <1>3 DEF Off
  <1>11. hazards \in Seq(Threads)
    BY <1>3
  <1> QED
    BY <1>4, <1>5, <1>6, <1>7, <1>8, <1>9, <1>10, <1>11 DEF HInv

LEMMA StepKeepsHInv ==
    ASSUME IInv, HInv, AtMostTwo, [Next]_vars
    PROVE  HInv'
  <1>1. CASE UNCHANGED vars
    BY <1>1 DEF HInv, vars
  <1>2. CASE Next
    BY <1>2, OutsideMoves, AccessesMove, RawStepsMove, HoldMoves, SettleMoves, SwapMoves,
       DetachMoves, LoadMoves, WaitMoves, FreeMoves
    DEF Next, Step
  <1> QED
    BY <1>1, <1>2

\* The hazard pointers do their work between two threads, whatever they intern and
\* however often the table is resized: neither is about to read or write a table that
\* has been freed.  (With three it is not so: a table that a failed CAS of `latest` has
\* read may be freed before a hazard pointer names it.)
THEOREM TwoNeverUseFreed == Cardinality(Threads) <= 2 => (Spec => []NoUseAfterFree)
  <1> SUFFICES ASSUME Cardinality(Threads) <= 2
               PROVE  Spec => []NoUseAfterFree
    OBVIOUS
  <1>1. AtMostTwo
    BY TwoThreads
  <1>2. Init => HInv
    BY InitHInv
  <1>3. IInv /\ HInv /\ [Next]_vars => HInv'
    BY <1>1, StepKeepsHInv
  <1>4. IInv /\ HInv => NoUseAfterFree
    <2> SUFFICES ASSUME IInv, HInv, NEW t \in Threads, NEW c \in Touched(t)
                 PROVE  c \notin freed
      BY DEF NoUseAfterFree
    <2>1. Placed(th[t], latest, table) /\ Local(th[t], hazard[t])
      BY Rows DEF IInv
    <2>2. \E s \in Slots : c \in Tables /\ Protects(th[t], s, c)
      <3>1. 0 \in Slots /\ 1 \in Slots /\ 3 \in Slots
        BY DEF Slots
      <3>2. CASE th[t].pc = "prev"
        <4>1. c = th[t].latest /\ c \in Tables
          BY <2>1, <3>2 DEF Touched, Placed
        <4> QED
          BY <3>1, <3>2, <4>1 DEF Protects, Early
      <3>3. CASE th[t].pc \in {"look", "claim", "copy"}
        <4>1. c = th[t].prev /\ c # NoTable
          BY <3>3 DEF Touched
        <4> QED
          BY <2>1, <3>1, <3>3, <4>1 DEF Protects, Holding, Placed
      <3>4. CASE th[t].pc \in {"grow", "probe", "reserve", "wait", "older", "count", "commit"}
        <4>1. c = th[t].cur /\ c \in Tables
          BY <2>1, <3>4 DEF Touched, Placed, RawIntern
        <4>2. CASE th[t].slot = 0
          BY <3>1, <3>4, <4>1, <4>2 DEF Protects, RawIntern
        <4>3. CASE th[t].slot = 2
          <5>1. c = th[t].latest
            BY <2>1, <4>1, <4>3 DEF Local
          <5> QED
            BY <3>1, <4>1, <4>3, <5>1 DEF Protects
        <4> QED
          BY <2>1, <4>2, <4>3 DEF Placed
      <3>5. CASE th[t].pc = "lookup"
        <4>1. c = th[t].curr /\ c \in Tables
          BY <2>1, <3>5 DEF Touched, Placed
        <4>2. th[t].slot + 1 \in Slots
          BY <2>1 DEF Placed, Slots
        <4> QED
          BY <3>5, <4>1, <4>2 DEF Protects
      <3> QED
        BY <3>2, <3>3, <3>4, <3>5 DEF Touched
    <2> QED
      BY <2>2, Kept
  <1> QED
    BY <1>2, <1>3, <1>4, Inductive, PTL DEF Spec

-----------------------------------------------------------------------------
(* Words and probes                                                         *)

Data(tb) == [n \in Tables |-> tb[n].data]

Probing == {"probe", "reserve", "wait"}
Deciding == {"unhold", "count", "commit"}
Owning == {"older", "lookup"} \cup Deciding

\* A probe of words b, those of table n, gets past its first j places: they hold other keys.
Reached(b, n, k, j) == \A m \in 0 .. j - 1 :
    b[Place(n, k, m)] # Empty /\ Key[b[Place(n, k, m)].p] # k

AreWords(b, n) ==
    /\ b = [i \in 0 .. Cap(n) - 1 |-> b[i]]
    /\ \A i \in 0 .. Cap(n) - 1 :
         b[i] = Empty \/ \E v \in Vals : b[i] \in {Reserved(v), Final(v)}

\* Every pointer in a table is where a probe for its key comes to.
Tidy(b, n) == \A i \in 0 .. Cap(n) - 1 : b[i] # Empty =>
    \E j \in 0 .. Cap(n) - 1 : i = Place(n, Key[b[i].p], j) /\ Reached(b, n, Key[b[i].p], j)

\* A word that is taken stays with its key, and a pointer stays.
Grows(b, c, n) == \A i \in 0 .. Cap(n) - 1 :
    /\ b[i] # Empty => c[i] # Empty /\ Key[c[i].p] = Key[b[i].p]
    /\ \A w \in Vals : b[i] = Final(w) => c[i] = Final(w)

LEMMA PlaceIsIn ==
    ASSUME NEW n \in Tables, NEW v \in Vals, NEW j \in Nat
    PROVE  Place(n, Key[v], j) \in 0 .. Cap(n) - 1
  <1>1. Cap(n) \in Nat /\ Cap(n) > 0
    BY CapIsNat
  <1>2. Hash[Key[v]] \in Nat
    BY NbhsAssumption
  <1>3. PICK h, c : h = Hash[Key[v]] + j /\ c = Cap(n)
    OBVIOUS
  <1>4. h \in Nat /\ c \in Nat /\ c > 0
    BY <1>1, <1>2, <1>3
  <1>5. h % c \in 0 .. c - 1
    BY <1>4
  <1> QED
    BY <1>3, <1>5 DEF Place

LEMMA ReachedNone == \A b, n, k : Reached(b, n, k, 0)
  <1>1. 0 .. 0 - 1 = {}
    OBVIOUS
  <1> QED
    BY <1>1 DEF Reached

LEMMA WordsDiffer ==
    /\ \A v \in Vals : Final(v) # Empty /\ Reserved(v) # Empty
    /\ \A v, w : Final(v) # Reserved(w) /\ (Final(v) = Final(w) => v = w)
    /\ \A v, w : Reserved(v) = Reserved(w) => v = w
    /\ \A v : Final(v).p = v /\ Reserved(v).p = v /\ ~Final(v).reserved /\ Reserved(v).reserved
    /\ ~Empty.reserved
  BY NbhsAssumption DEF Final, Reserved, Empty

\* A probe that has not met the word of its key comes to it, at its place or later.
LEMMA Meets ==
    ASSUME NEW n \in Tables, NEW b, Tidy(b, n), NEW k, NEW j \in Nat, Reached(b, n, k, j),
           NEW i \in 0 .. Cap(n) - 1, b[i] # Empty, Key[b[i].p] = k
    PROVE  /\ j < Cap(n) /\ b[Place(n, k, j)] # Empty
           /\ Key[b[Place(n, k, j)].p] = k => i = Place(n, k, j)
  <1>1. Cap(n) \in Nat
    BY CapIsNat
  <1>2. PICK m \in 0 .. Cap(n) - 1 : i = Place(n, k, m) /\ Reached(b, n, k, m)
    BY DEF Tidy
  <1>3. CASE m < j
    <2>1. m \in 0 .. j - 1
      BY <1>1, <1>2, <1>3
    <2> QED
      BY <1>2, <2>1 DEF Reached
  <1>4. CASE m = j
    BY <1>1, <1>2, <1>4
  <1>5. CASE j < m
    <2>1. j \in 0 .. m - 1 /\ j < Cap(n)
      BY <1>1, <1>2, <1>5
    <2> QED
      BY <1>2, <2>1 DEF Reached
  <1> QED
    BY <1>1, <1>2, <1>3, <1>4, <1>5

LEMMA OneEach ==
    ASSUME NEW n \in Tables, NEW b, Tidy(b, n),
           NEW i \in 0 .. Cap(n) - 1, NEW m \in 0 .. Cap(n) - 1,
           b[i] # Empty, b[m] # Empty, Key[b[i].p] = Key[b[m].p]
    PROVE  i = m
  <1>1. Cap(n) \in Nat
    BY CapIsNat
  <1>2. PICK k : k = Key[b[i].p]
    OBVIOUS
  <1>3. PICK j \in 0 .. Cap(n) - 1 : i = Place(n, k, j) /\ Reached(b, n, k, j)
    BY <1>2 DEF Tidy
  <1>4. j \in Nat
    BY <1>1
  <1> QED
    BY <1>2, <1>3, <1>4, Meets

\* A probe gets past the same places of a table that has grown.
LEMMA StillReached ==
    ASSUME NEW n \in Tables, NEW b, NEW c, Grows(b, c, n), NEW v \in Vals, NEW j \in Nat,
           Reached(b, n, Key[v], j)
    PROVE  Reached(c, n, Key[v], j)
  <1> SUFFICES ASSUME NEW m \in 0 .. j - 1
               PROVE  c[Place(n, Key[v], m)] # Empty /\ Key[c[Place(n, Key[v], m)].p] # Key[v]
    BY DEF Reached
  <1>1. Place(n, Key[v], m) \in 0 .. Cap(n) - 1
    BY PlaceIsIn
  <1> QED
    BY <1>1 DEF Grows, Reached

\* A pointer is put where its probe has come to: into an empty word, or in the place of
\* one of its key.
PutAt(n, b, v, j, i, e, c) ==
    /\ AreWords(b, n) /\ Tidy(b, n) /\ v \in Vals
    /\ j \in 0 .. Cap(n) - 1 /\ Reached(b, n, Key[v], j) /\ i = Place(n, Key[v], j)
    /\ e \in {Reserved(v), Final(v)} /\ c = [b EXCEPT ![i] = e]
    /\ b[i] = Empty \/ \E x : b[i] = Reserved(x) /\ Key[x] = Key[v]

LEMMA Put ==
    ASSUME NEW n \in Tables, NEW b, NEW v, NEW j, NEW i, NEW e, NEW c, PutAt(n, b, v, j, i, e, c)
    PROVE  AreWords(c, n) /\ Tidy(c, n) /\ Grows(b, c, n) /\ c[i] = e /\ i \in 0 .. Cap(n) - 1
  <1> USE DEF PutAt
  <1>1. Cap(n) \in Nat /\ j \in Nat
    BY CapIsNat
  <1>2. i \in 0 .. Cap(n) - 1
    BY <1>1, PlaceIsIn
  <1>3. /\ c = [m \in 0 .. Cap(n) - 1 |-> c[m]] /\ c[i] = e
        /\ \A m \in 0 .. Cap(n) - 1 : m # i => c[m] = b[m]
    BY <1>2 DEF AreWords
  <1>4. e # Empty /\ e.p = v
    BY WordsDiffer
  <1>5. AreWords(c, n)
    BY <1>3 DEF AreWords
  <1>6. Grows(b, c, n)
    <2> SUFFICES ASSUME NEW m \in 0 .. Cap(n) - 1
                 PROVE  /\ b[m] # Empty => c[m] # Empty /\ Key[c[m].p] = Key[b[m].p]
                        /\ \A w \in Vals : b[m] = Final(w) => c[m] = Final(w)
      BY DEF Grows
    <2>1. CASE m = i
      BY <1>3, <1>4, <2>1, WordsDiffer
    <2>2. CASE m # i
      BY <1>3, <2>2
    <2> QED
      BY <2>1, <2>2
  <1>7. Tidy(c, n)
    <2> SUFFICES ASSUME NEW m \in 0 .. Cap(n) - 1, c[m] # Empty
                 PROVE  \E x \in 0 .. Cap(n) - 1 :
                          m = Place(n, Key[c[m].p], x) /\ Reached(c, n, Key[c[m].p], x)
      BY DEF Tidy
    <2>1. CASE m = i
      <3>1. Reached(c, n, Key[v], j)
        BY <1>1, <1>6, StillReached
      <3> QED
        BY <1>3, <1>4, <2>1, <3>1
    <2>2. CASE m # i
      <3>1. c[m] = b[m]
        BY <1>3, <2>2
      <3>2. PICK w \in Vals : b[m].p = w
        BY <3>1, WordsDiffer DEF AreWords
      <3>3. PICK x \in 0 .. Cap(n) - 1 : m = Place(n, Key[w], x) /\ Reached(b, n, Key[w], x)
        BY <3>1, <3>2 DEF Tidy
      <3>4. x \in Nat
        BY <1>1
      <3>5. Reached(c, n, Key[w], x)
        BY <1>6, <3>3, <3>4, StillReached
      <3> QED
        BY <3>1, <3>2, <3>3, <3>5
    <2> QED
      BY <2>1, <2>2
  <1> QED
    BY <1>2, <1>3, <1>5, <1>6, <1>7

-----------------------------------------------------------------------------
(* What the threads know of the words                                       *)

\* The word that a probe of nbhs_raw_intern is at.
Spot(r) == Place(r.cur, Key[r.v], r.i)

In(d, n, w) == \E i \in 0 .. Cap(n) - 1 : d[n][i] = Final(w)

\* What a thread has seen of the words d: the places its probe and its look-up are past,
\* the word it has reserved, the pointers it has found or put.
Knows(r, d) ==
    /\ r.pc # "outside" => r.val \in Vals
    /\ r.pc \in RawIntern => r.v \in Vals /\ (r.slot = 0 => r.v = r.val)
    /\ r.pc \in {"grow", "swap", "hold"} => r.i = 0
    /\ r.pc \in Probing \cup Owning =>
         r.i \in 0 .. Cap(r.cur) - 1 /\ Reached(d[r.cur], r.cur, Key[r.v], r.i)
    /\ r.pc \in Owning => d[r.cur][Spot(r)] = Reserved(r.v)
    /\ r.pc = "wait" => d[r.cur][Spot(r)] # Empty /\ Key[d[r.cur][Spot(r)].p] = Key[r.v]
    /\ r.pc \notin {"lookup", "unhold"} \/ r.curr = NoTable => r.j = 0
    /\ r.pc = "lookup" /\ r.curr # NoTable =>
         r.curr + 1 = r.cur /\ r.j \in Nat /\ Reached(d[r.curr], r.curr, Key[r.v], r.j)
    /\ r.pc \in Deciding => r.old = Nil \/ (r.old \in Vals /\ Key[r.old] = Key[r.v])
    /\ r.pc \notin Deciding => r.old = Nil
    /\ r.pc \in {"again", "settle"} /\ r.result # Nil =>
         r.result \in Vals /\ Key[r.result] = Key[r.v] /\ In(d, r.cur, r.result)
    /\ r.slot = 2 => d[r.prev][r.at] = Final(r.v)
    /\ Holding(r) => r.at \in Nat /\ r.lo <= r.at /\ r.at <= r.hi /\ (r.slot = 2 => r.at < r.hi)

\* A key is reserved in a table by one thread.
Owners(q) == \A t, u \in Threads :
    t # u /\ q[t].pc \in Owning /\ q[u].pc \in Owning /\ q[t].cur = q[u].cur =>
        Key[q[t].v] # Key[q[u].v]

Tidied(d) == \A n \in Tables : AreWords(d[n], n) /\ Tidy(d[n], n)
Unused(l, d) == \A n \in Tables : n > l => d[n] = Blank(n).data
Unclaimed(l, tb) == \A n \in Tables : n >= l => tb[n].moved = 0
RightKeys(g) ==
    /\ g = [v \in Vals |-> g[v]]
    /\ \A v \in Vals : g[v] # Nil => g[v] \in Vals /\ Key[g[v]] = Key[v]

WInv ==
    /\ Tidied(Data(table)) /\ \A t \in Threads : Knows(th[t], Data(table))
    /\ Owners(th) /\ Unused(latest, Data(table)) /\ Unclaimed(latest, table)
    /\ RightKeys(got)

\* What a thread knows stays true when the tables grow.
LEMMA StillKnows ==
    ASSUME IInv, WInv, NEW t \in Threads, NEW d,
           \A n \in Tables : Grows(Data(table)[n], d[n], n),
           th[t].pc \in Owning => d[th[t].cur][Spot(th[t])] = Reserved(th[t].v)
    PROVE  Knows(th[t], d)
  <1>1. PICK r, b : r = th[t] /\ b = Data(table)
    OBVIOUS
  <1>2. Knows(r, b) /\ Placed(r, latest, table)
    BY <1>1 DEF WInv, IInv
  <1>3. \A n \in Tables : Grows(b[n], d[n], n)
    BY <1>1
  <1>4. \A n \in Tables : Cap(n) \in Nat /\ table[n].moved \in Nat /\ table[n].moved <= Cap(n)
    BY CapIsNat DEF IInv, IsTable
  <1>5. r.pc \in RawIntern => r.v \in Vals /\ r.cur \in Tables
    BY <1>2 DEF Knows, Placed
  <1>6. r.pc \in Probing \cup Owning => Reached(d[r.cur], r.cur, Key[r.v], r.i)
    <2> SUFFICES ASSUME r.pc \in Probing \cup Owning
                 PROVE  Reached(d[r.cur], r.cur, Key[r.v], r.i)
      OBVIOUS
    <2>1. r.v \in Vals /\ r.cur \in Tables
      BY <1>5 DEF Probing, Owning, Deciding, RawIntern
    <2>2. r.i \in Nat /\ Reached(b[r.cur], r.cur, Key[r.v], r.i)
      BY <1>2, <1>4, <2>1 DEF Knows
    <2> QED
      BY <1>3, <2>1, <2>2, StillReached
  <1>7. r.pc = "wait" => d[r.cur][Spot(r)] # Empty /\ Key[d[r.cur][Spot(r)].p] = Key[r.v]
    <2> SUFFICES ASSUME r.pc = "wait"
                 PROVE  d[r.cur][Spot(r)] # Empty /\ Key[d[r.cur][Spot(r)].p] = Key[r.v]
      OBVIOUS
    <2>1. r.v \in Vals /\ r.cur \in Tables
      BY <1>5 DEF RawIntern
    <2>2. r.i \in Nat /\ b[r.cur][Spot(r)] # Empty /\ Key[b[r.cur][Spot(r)].p] = Key[r.v]
      BY <1>2, <1>4, <2>1 DEF Knows, Probing
    <2>3. Spot(r) \in 0 .. Cap(r.cur) - 1
      BY <2>1, <2>2, PlaceIsIn DEF Spot
    <2> QED
      BY <1>3, <2>1, <2>2, <2>3 DEF Grows
  <1>8. r.pc = "lookup" /\ r.curr # NoTable => Reached(d[r.curr], r.curr, Key[r.v], r.j)
    <2> SUFFICES ASSUME r.pc = "lookup", r.curr # NoTable
                 PROVE  Reached(d[r.curr], r.curr, Key[r.v], r.j)
      OBVIOUS
    <2>1. r.v \in Vals /\ r.curr \in Tables
      BY <1>2, <1>5 DEF RawIntern, Placed
    <2>2. r.j \in Nat /\ Reached(b[r.curr], r.curr, Key[r.v], r.j)
      BY <1>2 DEF Knows
    <2> QED
      BY <1>3, <2>1, <2>2, StillReached
  <1>9. r.pc \in {"again", "settle"} /\ r.result # Nil => In(d, r.cur, r.result)
    <2> SUFFICES ASSUME r.pc \in {"again", "settle"}, r.result # Nil
                 PROVE  In(d, r.cur, r.result)
      OBVIOUS
    <2>1. r.cur \in Tables /\ r.result \in Vals /\ In(b, r.cur, r.result)
      BY <1>2, <1>5 DEF RawIntern, Knows
    <2> QED
      BY <1>3, <2>1 DEF In, Grows
  <1>10. r.slot = 2 => d[r.prev][r.at] = Final(r.v)
    <2> SUFFICES ASSUME r.slot = 2
                 PROVE  d[r.prev][r.at] = Final(r.v)
      OBVIOUS
    <2>1. r.v \in Vals /\ r.prev \in Tables
      BY <1>2, <1>5 DEF Placed, Holding
    <2>2. /\ r.lo \in Nat /\ r.hi \in Nat /\ r.hi <= table[r.prev].moved
          /\ r.at \in Nat /\ r.lo <= r.at /\ r.at < r.hi /\ b[r.prev][r.at] = Final(r.v)
      BY <1>2 DEF Placed, Holding, Knows
    <2>3. r.at \in 0 .. Cap(r.prev) - 1
      BY <1>4, <2>1, <2>2
    <2> QED
      BY <1>3, <2>1, <2>2, <2>3 DEF Grows
  <1>11. r.pc \in Owning => d[r.cur][Spot(r)] = Reserved(r.v)
    BY <1>1
  <1>12. Knows(r, d)
    BY <1>2, <1>6, <1>7, <1>8, <1>9, <1>10, <1>11 DEF Knows
  <1> QED
    BY <1>1, <1>12

\* A step of a thread that leaves the words alone.
LEMMA WordsStay ==
    ASSUME IInv, WInv, NEW t \in Threads, NEW r, th' = [th EXCEPT ![t] = r],
           Data(table') = Data(table), latest' \in Tables, latest <= latest',
           Unclaimed(latest', table'), RightKeys(got'),
           Knows(r, Data(table)),
           r.pc \in Owning => th[t].pc \in Owning /\ r.cur = th[t].cur /\ r.v = th[t].v
    PROVE  WInv'
  <1>1. PICK q, d : q = th' /\ d = Data(table)
    OBVIOUS
  <1>2. \A u \in Threads : q[u] = IF u = t THEN r ELSE th[u]
    BY <1>1 DEF IInv
  <1>3. \A u \in Threads : Knows(q[u], d)
    BY <1>1, <1>2 DEF WInv
  <1>4. Owners(q)
    BY <1>2 DEF WInv, Owners
  <1>5. Unused(latest', d)
    <2>1. \A n \in Tables : n > latest' => n > latest
      BY TableNumbers DEF IInv
    <2> QED
      BY <1>1, <2>1 DEF WInv, Unused
  <1>6. Tidied(d)
    BY <1>1 DEF WInv
  <1>7. \A u \in Threads : Knows(th'[u], Data(table'))
    BY <1>1, <1>3
  <1>8. Owners(th') /\ Unused(latest', Data(table')) /\ Tidied(Data(table'))
    BY <1>1, <1>4, <1>5, <1>6
  <1> QED
    BY <1>7, <1>8 DEF WInv

LEMMA SameData ==
    ASSUME IInv, NEW n \in Tables, NEW b, table' = [table EXCEPT ![n] = b],
           b.data = table[n].data
    PROVE  /\ Data(table') = Data(table)
           /\ table'[n] = b /\ \A m \in Tables : m # n => table'[m] = table[m]
  BY DEF IInv, Data

-----------------------------------------------------------------------------
(* Tables that are no longer the latest                                     *)

\* A thread probes table n, or will.
InTable(r, n) ==
    \/ n = r.latest /\ (r.pc \in Early \ {"hold"} \/ r.slot = 2)
    \/ n = r.cur /\ r.pc \in RawIntern
    \/ n = r.curr /\ r.pc = "settle"

\* Threads are in the latest table and the one before it, and no two in the latter.
Lag(q, l) == \A t \in Threads, n \in Tables : InTable(q[t], n) => l <= n + 1
OneStale(q, l) == \A t, u \in Threads, m, n \in Tables :
    t # u /\ InTable(q[t], m) /\ InTable(q[u], n) => m = l \/ n = l

\* A thread returns what it finds in table p, or (Settled) what it has put there.
Open(r, p) ==
    \/ r.latest = p /\ r.pc \in Early \ {"hold", "swap"}
    \/ r.cur = p /\ r.pc \in Probing \cup {"hold"}
    \/ r.cur = p /\ r.pc = "again" /\ r.result = Nil
    \/ r.curr = p /\ r.pc = "settle" /\ (r.cur # p \/ r.result = Nil)
Settled(r, p) == r.pc = "settle" /\ r.cur = p /\ r.curr = p /\ r.result # Nil

MayReturn(r, l, d, w) == \E p \in Tables : p + 1 = l /\
    \/ Open(r, p) /\ In(d, p, w)
    \/ Settled(r, p) /\ r.result = w

\* A thread has reserved the key of w in table l, and will find w in the table before.
Ready(r, l, w) ==
    /\ r.cur = l /\ r.pc \in Owning /\ Key[r.v] = Key[w]
    /\ r.pc = "lookup" => r.curr # NoTable
    /\ r.pc \in Deciding => r.old = w

\* Entry i of table p is still to be copied.
Waiting(q, tb, p, i) ==
    \/ tb[p].moved <= i
    \/ \E t \in Threads : Holding(q[t]) /\ q[t].prev = p /\ i \in q[t].at .. q[t].hi - 1

ToCopy(q, l, tb, d, w) ==
    /\ tb[l].prev # NoTable
    /\ \E i \in 0 .. Cap(tb[l].prev) - 1 :
         Waiting(q, tb, tb[l].prev, i) /\ d[tb[l].prev][i] = Final(w)

Lacks(d, n, k) == \A i \in 0 .. Cap(n) - 1 : d[n][i] = Empty \/ Key[d[n][i].p] # k

\* The latest table has w, or else it is to be copied and nothing is in its way.
Holds(q, l, tb, d, w) ==
    \/ In(d, l, w)
    \/ /\ ToCopy(q, l, tb, d, w)
       /\ Lacks(d, l, Key[w]) \/ \E t \in Threads : Ready(q[t], l, w)

\* A call has returned w, or may return what it has found in the table before.
Fixed(q, l, d, g, w) ==
    \/ \E v \in Vals : g[v] = w
    \/ \E t \in Threads : MayReturn(q[t], l, d, w)

Values(q, l, tb, d, g) == \A w \in Vals : Fixed(q, l, d, g, w) => Holds(q, l, tb, d, w)

CInv ==
    /\ WInv /\ Lag(th, latest) /\ OneStale(th, latest)
    /\ Values(th, latest, table, Data(table), got)

\* From record o to record r of a thread, when l is the latest table.
Onward(o, r, l) ==
    /\ \A n \in Tables : InTable(r, n) => InTable(o, n) \/ n = l
    /\ \A n \in Tables : Open(r, n) => Open(o, n) \/ n = l
    /\ \A n \in Tables : Settled(r, n) => (Settled(o, n) /\ r.result = o.result) \/ n = l
    /\ r.pc \in Owning => o.pc \in Owning /\ r.cur = o.cur /\ r.v = o.v

LEMMA StaleStays ==
    ASSUME NEW t \in Threads, NEW r, NEW q, q = [th EXCEPT ![t] = r], IInv,
           Lag(th, latest), OneStale(th, latest),
           \A n \in Tables : InTable(r, n) => InTable(th[t], n) \/ n = latest
    PROVE  Lag(q, latest) /\ OneStale(q, latest)
  <1>1. \A u \in Threads : q[u] = IF u = t THEN r ELSE th[u]
    BY DEF IInv
  <1>2. \A u \in Threads, n \in Tables : InTable(q[u], n) => InTable(th[u], n) \/ n = latest
    BY <1>1
  <1>3. latest <= latest + 1
    BY TableNumbers DEF IInv
  <1>4. Lag(q, latest)
    BY <1>2, <1>3 DEF Lag
  <1>5. OneStale(q, latest)
    BY <1>2 DEF OneStale
  <1> QED
    BY <1>4, <1>5

\* Values that a step needs no more, and those that it leaves where they are.
LEMMA ValuesStay ==
    ASSUME NEW t \in Threads, NEW r, NEW q, q = [th EXCEPT ![t] = r], IInv, NEW tb, NEW d, NEW g,
           d = Data(table), Values(th, latest, table, d, got),
           \A n \in Tables : Open(r, n) => Open(th[t], n) \/ n = latest,
           \A n \in Tables : Settled(r, n) =>
              (Settled(th[t], n) /\ r.result = th[t].result) \/ n = latest,
           \A w \in Vals : ToCopy(th, latest, table, d, w) /\ Holds(th, latest, table, d, w) =>
              ToCopy(q, latest, tb, d, w) \/ In(d, latest, w),
           \A w \in Vals : ToCopy(th, latest, table, d, w) /\ Ready(th[t], latest, w) =>
              Ready(r, latest, w),
           \A v \in Vals : g[v] # got[v] => Fixed(th, latest, d, got, g[v]) \/ In(d, latest, g[v])
    PROVE  Values(q, latest, tb, d, g)
  <1> SUFFICES ASSUME NEW w \in Vals, Fixed(q, latest, d, g, w)
               PROVE  Holds(q, latest, tb, d, w)
    BY DEF Values
  <1>1. \A u \in Threads : q[u] = IF u = t THEN r ELSE th[u]
    BY DEF IInv
  <1>2. \A n \in Tables : n + 1 # n
    BY TableNumbers
  <1>3. \A u \in Threads : MayReturn(q[u], latest, d, w) => MayReturn(th[u], latest, d, w)
    BY <1>1, <1>2 DEF MayReturn, IInv
  <1>4. Fixed(th, latest, d, got, w) \/ In(d, latest, w)
    BY <1>3 DEF Fixed
  <1>5. Holds(th, latest, table, d, w)
    BY <1>4 DEF Values, Holds
  <1>6. CASE In(d, latest, w)
    BY <1>6 DEF Holds
  <1>7. CASE ~In(d, latest, w)
    <2>0. ToCopy(th, latest, table, d, w)
      BY <1>5, <1>7 DEF Holds
    <2>1. ToCopy(th, latest, table, d, w) /\ ToCopy(q, latest, tb, d, w)
      BY <1>5, <1>7, <2>0
    <2>2. \A u \in Threads : Ready(th[u], latest, w) => Ready(q[u], latest, w)
      BY <1>1, <2>1
    <2> QED
      BY <1>5, <1>7, <2>1, <2>2 DEF Holds
  <1> QED
    BY <1>6, <1>7

\* A step that leaves the words alone.
LEMMA SoundMove ==
    ASSUME IInv, CInv, NEW t \in Threads, NEW r, NEW q, q = [th EXCEPT ![t] = r], th' = q,
           NEW d, d = Data(table), Data(table') = d, NEW tb, table' = tb, UNCHANGED latest,
           Unclaimed(latest, tb), NEW g, got' = g, RightKeys(g), Knows(r, d),
           Onward(th[t], r, latest),
           \A w \in Vals : ToCopy(th, latest, table, d, w) /\ Holds(th, latest, table, d, w) =>
              ToCopy(q, latest, tb, d, w) \/ In(d, latest, w),
           \A w \in Vals : ToCopy(th, latest, table, d, w) /\ Ready(th[t], latest, w) =>
              Ready(r, latest, w),
           \A v \in Vals : g[v] # got[v] => Fixed(th, latest, d, got, g[v]) \/ In(d, latest, g[v])
    PROVE  CInv'
  <1>1. latest' = latest /\ latest \in Tables /\ latest <= latest
    BY TableNumbers DEF IInv
  <1>2. WInv'
    BY <1>1, WordsStay DEF Onward, CInv
  <1>3. Lag(q, latest) /\ OneStale(q, latest)
    BY StaleStays DEF Onward, CInv
  <1>4. Values(q, latest, tb, d, g)
    BY ValuesStay DEF Onward, CInv
  <1>5. /\ Lag(th', latest') /\ OneStale(th', latest')
        /\ Values(th', latest', table', Data(table'), got')
    BY <1>1, <1>3, <1>4
  <1> QED
    BY <1>2, <1>5 DEF CInv

SameHolding(o, r) ==
    Holding(o) => Holding(r) /\ r.prev = o.prev /\ r.hi = o.hi /\ r.at = o.at

\* A step that leaves the words, the entries to copy and the results alone.
LEMMA QuietMove ==
    ASSUME IInv, CInv, NEW t \in Threads, NEW r, th' = [th EXCEPT ![t] = r],
           UNCHANGED <<latest, got>>, Data(table') = Data(table),
           \A n \in Tables : table'[n].prev = table[n].prev /\ table'[n].moved = table[n].moved,
           Knows(r, Data(table)), Onward(th[t], r, latest), SameHolding(th[t], r),
           \A w \in Vals :
              ToCopy(th, latest, table, Data(table), w) /\ Ready(th[t], latest, w) =>
                Ready(r, latest, w)
    PROVE  CInv'
  <1>1. PICK q, d, tb : q = th' /\ d = Data(table) /\ tb = table'
    OBVIOUS
  <1>2. latest \in Tables /\ Unclaimed(latest, tb) /\ RightKeys(got)
    BY <1>1 DEF CInv, WInv, Unclaimed, IInv
  <1>3. \A u \in Threads : q[u] = IF u = t THEN r ELSE th[u]
    BY <1>1 DEF IInv
  <1>4. \A n \in Tables : tb[n].prev = table[n].prev /\ tb[n].moved = table[n].moved
    BY <1>1
  <1>5. \A w \in Vals : ToCopy(th, latest, table, d, w) => ToCopy(q, latest, tb, d, w)
    <2>1. table[latest].prev # NoTable => table[latest].prev \in Tables
      BY <1>2 DEF IInv, Chained
    <2>2. \A i : \A u \in Threads, n \in Tables : Holding(th[u]) /\ th[u].prev = n
              /\ i \in th[u].at .. th[u].hi - 1 =>
                 Holding(q[u]) /\ q[u].prev = n /\ i \in q[u].at .. q[u].hi - 1
      BY <1>3 DEF SameHolding
    <2>3. \A i : \A n \in Tables : Waiting(th, table, n, i) => Waiting(q, tb, n, i)
      BY <1>4, <2>2 DEF Waiting
    <2> QED
      BY <1>2, <1>4, <2>1, <2>3 DEF ToCopy
  <1> QED
    BY <1>1, <1>2, <1>5, SoundMove

-----------------------------------------------------------------------------
(* The steps of nbhs_intern, and what is in the tables                      *)

\* Outside nbhs_raw_intern a thread knows nothing of the words.
LEMMA PlainMove ==
    ASSUME IInv, CInv, NEW t \in Threads, NEW r, th' = [th EXCEPT ![t] = r],
           UNCHANGED <<latest, got, table>>,
           th[t].pc \notin RawIntern \cup {"copy"}, r.pc \notin RawIntern \cup {"copy"},
           r.val \in Vals, r.latest = th[t].latest, r.slot = 0, r.j = 0, r.old = Nil,
           r.pc \in Early => th[t].pc \in Early \ {"hold", "swap"}
    PROVE  CInv'
  <1>1. PICK o, d : o = th[t] /\ d = Data(table)
    OBVIOUS
  <1>2. /\ o.pc \notin RawIntern \cup {"copy"} /\ Placed(o, latest, table)
        /\ r.pc \notin RawIntern \cup {"copy"} /\ r.val \in Vals /\ r.latest = o.latest
        /\ r.slot = 0 /\ r.j = 0 /\ r.old = Nil
        /\ r.pc \in Early => o.pc \in Early \ {"hold", "swap"}
    BY <1>1 DEF IInv
  <1>3. Knows(r, d)
    BY <1>2 DEF Knows, RawIntern, Probing, Owning, Deciding, Holding
  <1>4. Onward(o, r, latest)
    <2>1. \A n \in Tables : InTable(r, n) => InTable(o, n)
      BY <1>2 DEF InTable, Early, RawIntern
    <2>2. \A n \in Tables : Open(r, n) => Open(o, n)
      BY <1>2 DEF Open, RawIntern, Probing
    <2>3. \A n \in Tables : ~Settled(r, n)
      BY <1>2 DEF Settled, RawIntern
    <2> QED
      BY <1>2, <2>1, <2>2, <2>3 DEF Onward, RawIntern, Owning, Deciding
  <1>5. SameHolding(o, r)
    BY <1>2 DEF SameHolding, Holding, Placed
  <1>6. \A w : ~Ready(o, latest, w)
    BY <1>2 DEF Ready, RawIntern, Owning, Deciding
  <1> QED
    BY <1>1, <1>3, <1>4, <1>5, <1>6, QuietMove

LEMMA PlainSteps ==
    ASSUME IInv, CInv, NEW t \in Threads,
           \/ Begin(t) \/ Register(t) \/ LookMoved(t) \/ LoadList(t) \/ WaitHazard(t)
           \/ FreePrev(t)
    PROVE  CInv'
  <1> USE DEF RawIntern
  <1>1. /\ Placed(th[t], latest, table) /\ IsThread(th[t])
        /\ th = [u \in Threads |-> th[u]] /\ Knows(th[t], Data(table))
    BY DEF IInv, Placed, CInv, WInv
  <1>2. PICK r : r = th'[t]
    OBVIOUS
  <1>3. CASE Begin(t)
    <2>1. /\ th[t].pc = "outside" /\ UNCHANGED <<latest, table, got>>
          /\ \E x \in Vals : \E p \in {"latest", "register"} :
               th' = [th EXCEPT ![t].val = x, ![t].pc = p]
      <3>1. \A n \in DOMAIN Calls[t] : Calls[t][n] \in Vals
        BY NbhsAssumption
      <3> QED
        BY <1>3, <3>1 DEF Begin
    <2>2. PICK x \in Vals, p \in {"latest", "register"} :
            th' = [th EXCEPT ![t].val = x, ![t].pc = p]
      BY <2>1
    <2>3. th' = [th EXCEPT ![t] = r] /\ r = [th[t] EXCEPT !.val = x, !.pc = p]
      BY <1>1, <1>2, <2>2
    <2>4. /\ r.pc = p /\ r.slot = th[t].slot /\ r.val = x /\ r.latest = th[t].latest
          /\ r.j = th[t].j /\ r.old = th[t].old
      BY <1>1, <2>3 DEF IsThread
    <2>5. r.slot = 0 /\ r.j = 0 /\ r.old = Nil /\ r.pc \notin Early /\ r.pc # "copy"
      BY <1>1, <2>1, <2>4 DEF Placed, Knows, Deciding, Early, Detaching
    <2>6. r.pc \notin RawIntern \cup {"copy"} /\ r.val \in Vals
      BY <2>2, <2>4
    <2>7. th[t].pc \notin RawIntern \cup {"copy"}
      BY <2>1
    <2> QED
      BY <2>1, <2>3, <2>4, <2>5, <2>6, <2>7, PlainMove
  <1>4. CASE Register(t)
    <2>1. /\ th[t].pc = "register" /\ UNCHANGED <<latest, table, got>>
          /\ th' = [th EXCEPT ![t] = r] /\ r = [th[t] EXCEPT !.pc = "latest"]
      BY <1>1, <1>2, <1>4 DEF Register
    <2>2. /\ r.pc = "latest" /\ r.slot = th[t].slot /\ r.val = th[t].val
          /\ r.latest = th[t].latest /\ r.j = th[t].j /\ r.old = th[t].old
      BY <1>1, <2>1 DEF IsThread
    <2>3. r.slot = 0 /\ r.j = 0 /\ r.old = Nil /\ r.pc \notin Early /\ r.val \in Vals
      BY <1>1, <2>1, <2>2 DEF Placed, Knows, Deciding, Early, Detaching
    <2> QED
      BY <2>1, <2>2, <2>3, PlainMove
  <1>5. CASE LookMoved(t)
    <2>0. PICK m : m = table[th[t].prev].moved
      OBVIOUS
    <2>1. /\ th[t].pc = "look" /\ UNCHANGED <<latest, table, got>> /\ th' = [th EXCEPT ![t] = r]
          /\ r = [th[t] EXCEPT !.pc = "skip"] \/ r = [th[t] EXCEPT !.pc = "claim", !.lo = m]
      BY <2>0, <1>1, <1>2, <1>5 DEF LookMoved
    <2>2. /\ r.pc \in {"skip", "claim"} /\ r.slot = th[t].slot /\ r.val = th[t].val
          /\ r.latest = th[t].latest /\ r.j = th[t].j /\ r.old = th[t].old
      BY <1>1, <2>1, ZenonT(60) DEF IsThread
    <2>3. /\ r.slot = 0 /\ r.j = 0 /\ r.old = Nil /\ r.val \in Vals
          /\ th[t].pc \in Early \ {"hold", "swap"}
      BY <1>1, <2>1, <2>2 DEF Placed, Knows, Deciding, Early
    <2> QED
      BY <2>1, <2>2, <2>3, PlainMove
  <1>6. CASE LoadList(t) \/ WaitHazard(t)
    <2>1. PICK left, at :
            /\ th[t].pc \in {"scan", "wait_hazards"} /\ UNCHANGED <<latest, table, got>>
            /\ th' = [th EXCEPT ![t] = r]
            /\ r = [th[t] EXCEPT !.pc = "wait_hazards", !.left = left, !.at = at]
      <3>1. CASE LoadList(t)
        <4>1. PICK left : left = hazards
          OBVIOUS
        <4>2. r = [th[t] EXCEPT !.pc = "wait_hazards", !.left = left, !.at = 0]
          BY <1>1, <1>2, <3>1, <4>1 DEF LoadList, IsThread
        <4>3. /\ th[t].pc = "scan" /\ UNCHANGED <<latest, table, got>>
              /\ th' = [th EXCEPT ![t] = r]
          BY <1>1, <1>2, <3>1 DEF LoadList
        <4> QED
          BY <4>2, <4>3
      <3>2. CASE WaitHazard(t)
        <4>1. CASE r = [th[t] EXCEPT !.left = Tail(@), !.at = 0]
          <5>1. r = [th[t] EXCEPT !.pc = "wait_hazards", !.left = Tail(th[t].left), !.at = 0]
            BY <1>1, <3>2, <4>1 DEF WaitHazard, IsThread
          <5> QED
            BY <1>1, <1>2, <3>2, <5>1, ZenonT(60) DEF WaitHazard
        <4>2. CASE r = [th[t] EXCEPT !.at = @ + 1]
          <5>1. r = [th[t] EXCEPT !.pc = "wait_hazards", !.left = th[t].left, !.at = th[t].at + 1]
            BY <1>1, <3>2, <4>2 DEF WaitHazard, IsThread
          <5> QED
            BY <1>1, <1>2, <3>2, <5>1, ZenonT(60) DEF WaitHazard
        <4> QED
          BY <1>1, <1>2, <3>2, <4>1, <4>2 DEF WaitHazard
      <3> QED
        BY <1>6, <3>1, <3>2
    <2>2. /\ r.pc = "wait_hazards" /\ r.slot = th[t].slot /\ r.val = th[t].val
          /\ r.latest = th[t].latest /\ r.j = th[t].j /\ r.old = th[t].old
      BY <1>1, <2>1 DEF IsThread
    <2>3. /\ r.slot = 0 /\ r.j = 0 /\ r.old = Nil /\ r.val \in Vals
          /\ th[t].pc \in Early \ {"hold", "swap"}
      BY <1>1, <2>1, <2>2 DEF Placed, Knows, Deciding, Early, Detaching
    <2> QED
      BY <2>1, <2>2, <2>3, PlainMove
  <1>7. CASE FreePrev(t)
    <2>1. /\ th[t].pc = "wait_hazards" /\ UNCHANGED <<latest, table, got>>
          /\ th' = [th EXCEPT ![t] = r] /\ r = [th[t] EXCEPT !.pc = "skip"]
      BY <1>1, <1>2, <1>7 DEF FreePrev
    <2>2. /\ r.pc = "skip" /\ r.slot = th[t].slot /\ r.val = th[t].val
          /\ r.latest = th[t].latest /\ r.j = th[t].j /\ r.old = th[t].old
      BY <1>1, <2>1 DEF IsThread
    <2>3. /\ r.slot = 0 /\ r.j = 0 /\ r.old = Nil /\ r.val \in Vals
          /\ th[t].pc \in Early \ {"hold", "swap"}
      BY <1>1, <2>1, <2>2 DEF Placed, Knows, Deciding, Early, Detaching
    <2> QED
      BY <2>1, <2>2, <2>3, PlainMove
  <1> QED
    BY <1>3, <1>4, <1>5, <1>6, <1>7

LEMMA SkipKeeps ==
    ASSUME IInv, HInv, CInv, NEW t \in Threads, Skip(t)
    PROVE  CInv'
  <1>1. PICK o, d : o = th[t] /\ d = Data(table)
    OBVIOUS
  <1>2. /\ Placed(o, latest, table) /\ IsThread(o) /\ Knows(o, d)
        /\ th = [u \in Threads |-> th[u]]
    BY <1>1 DEF IInv, Placed, CInv, WInv
  <1>3. PICK q, r : /\ q = [o EXCEPT !.prev = NoTable, !.lo = 0, !.hi = 0, !.at = 0]
                    /\ r = Enter(q, q.latest, q.val, 0)
    OBVIOUS
  <1>4. /\ o.pc = "skip" /\ UNCHANGED <<latest, table, got>> /\ th' = [th EXCEPT ![t] = r]
    BY <1>1, <1>2, <1>3 DEF Skip
  <1>5. /\ IsThread(q) /\ q.latest = o.latest /\ q.val = o.val /\ q.j = o.j /\ q.old = o.old
    BY <1>2, <1>3 DEF IsThread
  <1>6. /\ r.pc = "grow" /\ r.latest = o.latest /\ r.val = o.val /\ r.v = o.val /\ r.slot = 0
        /\ r.cur = o.latest /\ r.i = 0 /\ r.j = o.j /\ r.old = o.old
    BY <1>3, <1>5 DEF IsThread, Enter
  <1>7. Knows(r, d)
    BY <1>2, <1>4, <1>6 DEF Knows, RawIntern, Probing, Owning, Deciding, Holding
  <1>8. Onward(o, r, latest)
    <2>1. \A n \in Tables : InTable(r, n) => InTable(o, n)
      BY <1>4, <1>6 DEF InTable, Early, RawIntern
    <2>2. \A n \in Tables : Open(r, n) => Open(o, n)
      BY <1>4, <1>6 DEF Open, Probing, Early
    <2>3. \A n \in Tables : ~Settled(r, n)
      BY <1>6 DEF Settled
    <2> QED
      BY <1>6, <2>1, <2>2, <2>3 DEF Onward, Owning, Deciding
  <1>9. SameHolding(o, r)
    BY <1>2, <1>4 DEF SameHolding, Holding, Placed, RawIntern
  <1>10. \A w : ~Ready(o, latest, w)
    BY <1>4 DEF Ready, Owning, Deciding
  <1> QED
    BY <1>1, <1>4, <1>7, <1>8, <1>9, <1>10, QuietMove

LEMMA HazardAccessMoves ==
    ASSUME IInv, CInv, NEW t \in Threads, NEW a, NEW b,
           NEW r, r = [th[t] EXCEPT !.ha = a, !.seen = b],
           th' = [th EXCEPT ![t] = r], UNCHANGED <<latest, table, got>>
    PROVE  CInv'
  <1>1. PICK o, d : o = th[t] /\ d = Data(table)
    OBVIOUS
  <1>2. IsThread(o) /\ Knows(o, d)
    BY <1>1 DEF IInv, Placed, CInv, WInv
  <1>3. /\ r.pc = o.pc /\ r.val = o.val /\ r.latest = o.latest /\ r.prev = o.prev /\ r.lo = o.lo
        /\ r.hi = o.hi /\ r.at = o.at /\ r.v = o.v /\ r.cur = o.cur /\ r.slot = o.slot
        /\ r.i = o.i /\ r.result = o.result /\ r.curr = o.curr /\ r.j = o.j /\ r.old = o.old
    BY <1>1, <1>2 DEF IsThread
  <1>4. Knows(r, d)
    <2>1. Spot(r) = Spot(o) /\ Holding(r) = Holding(o)
      BY <1>3 DEF Spot, Holding
    <2>2. /\ r.pc # "outside" => r.val \in Vals
          /\ r.pc \in RawIntern => r.v \in Vals /\ (r.slot = 0 => r.v = r.val)
          /\ r.pc \in {"grow", "swap", "hold"} => r.i = 0
          /\ r.pc \notin {"lookup", "unhold"} \/ r.curr = NoTable => r.j = 0
          /\ r.pc \in Deciding => r.old = Nil \/ (r.old \in Vals /\ Key[r.old] = Key[r.v])
          /\ r.pc \notin Deciding => r.old = Nil
      BY <1>2, <1>3 DEF Knows
    <2>3. /\ r.pc \in Probing \cup Owning =>
               r.i \in 0 .. Cap(r.cur) - 1 /\ Reached(d[r.cur], r.cur, Key[r.v], r.i)
          /\ r.pc \in Owning => d[r.cur][Spot(r)] = Reserved(r.v)
          /\ r.pc = "wait" =>
               d[r.cur][Spot(r)] # Empty /\ Key[d[r.cur][Spot(r)].p] = Key[r.v]
          /\ r.pc = "lookup" /\ r.curr # NoTable =>
               /\ r.curr + 1 = r.cur /\ r.j \in Nat
               /\ Reached(d[r.curr], r.curr, Key[r.v], r.j)
      BY <1>2, <1>3, <2>1 DEF Knows
    <2>4. /\ r.pc \in {"again", "settle"} /\ r.result # Nil =>
               r.result \in Vals /\ Key[r.result] = Key[r.v] /\ In(d, r.cur, r.result)
          /\ r.slot = 2 => d[r.prev][r.at] = Final(r.v)
          /\ Holding(r) =>
               r.at \in Nat /\ r.lo <= r.at /\ r.at <= r.hi /\ (r.slot = 2 => r.at < r.hi)
      BY <1>2, <1>3, <2>1 DEF Knows
    <2> QED
      BY <2>2, <2>3, <2>4 DEF Knows
  <1>5. Onward(o, r, latest)
    BY <1>3 DEF Onward, InTable, Open, Settled
  <1>6. SameHolding(o, r)
    BY <1>3 DEF SameHolding, Holding
  <1>7. \A w : Ready(o, latest, w) => Ready(r, latest, w)
    BY <1>3 DEF Ready
  <1> QED
    BY <1>1, <1>4, <1>5, <1>6, <1>7, QuietMove

\* What a hazard access leaves with is what it has loaded last.
LEMMA AccessKeeps ==
    ASSUME IInv, HInv, CInv, NEW t \in Threads,
           AccessLatest(t) \/ AccessPrev(t) \/ AccessOlder(t) \/ AccessAgain(t)
    PROVE  CInv'
  <1> USE DEF RawIntern, Holding, Probing, Owning, Deciding
  <1>1. /\ Placed(th[t], latest, table) /\ IsThread(th[t]) /\ Knows(th[t], Data(table))
        /\ th = [u \in Threads |-> th[u]] /\ UNCHANGED <<latest, table, got>>
    BY DEF IInv, Placed, CInv, WInv, AccessLatest, AccessPrev, AccessOlder, AccessAgain,
       HazardAccess
  <1>2. PICK r, l, o, d : r = th'[t] /\ l = latest /\ o = th[t] /\ d = Data(table)
    OBVIOUS
  <1>3. SUFFICES ASSUME ~\E a, b : th' = [th EXCEPT ![t] = [o EXCEPT !.ha = a, !.seen = b]]
                 PROVE  CInv'
    <2>1. ASSUME NEW a, NEW b, th' = [th EXCEPT ![t] = [o EXCEPT !.ha = a, !.seen = b]]
          PROVE  CInv'
      <3>1. PICK x : x = [th[t] EXCEPT !.ha = a, !.seen = b]
        OBVIOUS
      <3>2. th' = [th EXCEPT ![t] = x]
        BY <1>2, <2>1, <3>1
      <3> QED
        BY <1>1, <3>1, <3>2, HazardAccessMoves
    <2> QED
      BY <2>1
  <1> DEFINE Leaves(var, ref, next) ==
        r = [o EXCEPT !.ha = "load", !.seen = NoTable, ![var] = ref, !.pc = next]
  <1>4. ASSUME NEW ref, NEW slot, NEW var, NEW next, HazardAccess(t, ref, slot, var, next)
        PROVE  \/ \E a, b : th' = [th EXCEPT ![t] = [o EXCEPT !.ha = a, !.seen = b]]
               \/ th' = [th EXCEPT ![t] = r] /\ Leaves(var, ref, next)
    <2>1. CASE th' = [th EXCEPT ![t].ha = "mark", ![t].seen = ref]
      <3>1. th' = [th EXCEPT ![t] = [o EXCEPT !.ha = "mark", !.seen = ref]]
        BY <1>1, <1>2, <2>1
      <3> QED
        BY <3>1
    <2>2. CASE th' = [th EXCEPT ![t].ha = "check"]
      <3>1. th' = [th EXCEPT ![t] = [o EXCEPT !.ha = "check", !.seen = o.seen]]
        BY <1>1, <1>2, <2>2 DEF IsThread
      <3> QED
        BY <3>1
    <2>3. CASE th' = [th EXCEPT ![t].ha = "load", ![t].seen = NoTable,
                                ![t][var] = ref, ![t].pc = next]
      BY <1>1, <1>2, <2>3
    <2> QED
      BY <1>4, <2>1, <2>2, <2>3 DEF HazardAccess
  <1> HIDE DEF Leaves
  <1>5. CASE AccessLatest(t)
    <2>1. HazardAccess(t, l, 0, "latest", "prev")
      BY <1>2, <1>5 DEF AccessLatest, HazardAccess
    <2>2. o.pc = "latest" /\ th' = [th EXCEPT ![t] = r] /\ Leaves("latest", l, "prev")
      BY <1>2, <1>3, <1>4, <1>5, <2>1 DEF AccessLatest
    <2>3. /\ r.pc = "prev" /\ r.slot = o.slot /\ r.latest = l /\ r.val = o.val /\ r.j = o.j
          /\ r.old = o.old
      BY <1>1, <1>2, <2>2, ZenonT(60) DEF IsThread, Leaves
    <2>4. r.slot = 0
      BY <1>1, <1>2, <2>2, <2>3 DEF Placed
    <2>5. Knows(r, d)
      BY <1>1, <1>2, <2>2, <2>3, <2>4 DEF Knows
    <2>6. Onward(o, r, l)
      BY <2>3, <2>4 DEF Onward, InTable, Open, Settled
    <2>7. SameHolding(o, r) /\ \A w : ~Ready(o, l, w)
      BY <1>2, <1>1, <2>2 DEF SameHolding, Ready, Placed
    <2> QED
      BY <1>1, <1>2, <2>2, <2>5, <2>6, <2>7, QuietMove
  <1>6. CASE AccessPrev(t)
    <2>0. PICK p : p = table[o.latest].prev
      OBVIOUS
    <2>1. HazardAccess(t, p, 1, "prev", "look")
      BY <1>2, <1>6, <2>0 DEF AccessPrev, HazardAccess
    <2>2. o.pc = "prev" /\ th' = [th EXCEPT ![t] = r] /\ Leaves("prev", p, "look")
      BY <1>2, <1>3, <1>4, <1>6, <2>1 DEF AccessPrev
    <2>3. /\ r.pc = "look" /\ r.slot = o.slot /\ r.latest = o.latest /\ r.val = o.val /\ r.j = o.j
          /\ r.old = o.old
      BY <1>1, <1>2, <2>2, ZenonT(60) DEF IsThread, Leaves
    <2>4. r.slot = 0
      BY <1>1, <1>2, <2>2, <2>3 DEF Placed
    <2>5. Knows(r, d)
      BY <1>1, <1>2, <2>2, <2>3, <2>4 DEF Knows
    <2>6. Onward(o, r, l)
      BY <2>2, <2>3, <2>4 DEF Onward, InTable, Open, Settled, Early
    <2>7. SameHolding(o, r) /\ \A w : ~Ready(o, l, w)
      BY <1>2, <1>1, <2>2 DEF SameHolding, Ready, Placed
    <2> QED
      BY <1>1, <1>2, <2>2, <2>5, <2>6, <2>7, QuietMove
  <1>7. CASE AccessOlder(t)
    <2>0. PICK p, x : p = table[o.cur].prev /\ x = o.slot + 1
      OBVIOUS
    <2>1. HazardAccess(t, p, x, "curr", "lookup")
      BY <1>2, <1>7, <2>0 DEF AccessOlder, HazardAccess
    <2>2. o.pc = "older" /\ th' = [th EXCEPT ![t] = r] /\ Leaves("curr", p, "lookup")
      BY <1>2, <1>3, <1>4, <1>7, <2>1 DEF AccessOlder
    <2>3. /\ r.pc = "lookup" /\ r.val = o.val /\ r.latest = o.latest /\ r.prev = o.prev
          /\ r.lo = o.lo /\ r.hi = o.hi /\ r.at = o.at /\ r.v = o.v /\ r.cur = o.cur
          /\ r.slot = o.slot /\ r.i = o.i /\ r.curr = p /\ r.j = o.j /\ r.old = o.old
      BY <1>1, <1>2, <2>2, ZenonT(60) DEF IsThread, Leaves
    <2>4. o.cur \in Tables /\ (p # NoTable => p \in Tables /\ o.cur = p + 1)
      BY <1>1, <1>2, <2>0, <2>2 DEF Placed, IInv, Chained
    <2>5. r.j = 0 /\ Reached(d[p], p, Key[r.v], 0)
      BY <1>1, <1>2, <2>2, <2>3, ReachedNone DEF Knows
    <2>6. Knows(r, d)
      <3>1. Spot(r) = Spot(o)
        BY <2>3 DEF Spot
      <3>2. r.val \in Vals /\ r.v \in Vals /\ (r.slot = 0 => r.v = r.val)
        BY <1>1, <1>2, <2>2, <2>3 DEF Knows
      <3>3. /\ r.i \in 0 .. Cap(r.cur) - 1 /\ Reached(d[r.cur], r.cur, Key[r.v], r.i)
            /\ d[r.cur][Spot(r)] = Reserved(r.v)
        BY <1>1, <1>2, <2>2, <2>3, <3>1 DEF Knows
      <3>4. /\ r.old = Nil /\ (r.slot = 2 => d[r.prev][r.at] = Final(r.v))
            /\ Holding(r) => /\ r.at \in Nat /\ r.lo <= r.at /\ r.at <= r.hi
                             /\ r.slot = 2 => r.at < r.hi
        BY <1>1, <1>2, <2>2, <2>3 DEF Knows
      <3> QED
        BY <2>3, <2>4, <2>5, <3>2, <3>3, <3>4 DEF Knows
    <2>7. Onward(o, r, l)
      BY <2>2, <2>3 DEF Onward, InTable, Open, Settled, Early, Detaching
    <2>8. SameHolding(o, r)
      BY <2>2, <2>3 DEF SameHolding
    <2>9. \A w : ToCopy(th, l, table, d, w) /\ Ready(o, l, w) => Ready(r, l, w)
      BY <1>2, <2>0, <2>2, <2>3 DEF Ready, ToCopy
    <2> QED
      BY <1>1, <1>2, <2>2, <2>6, <2>7, <2>8, <2>9, QuietMove
  <1>8. CASE AccessAgain(t)
    <2>1. HazardAccess(t, l, 4, "curr", "settle")
      BY <1>2, <1>8 DEF AccessAgain, HazardAccess
    <2>2. o.pc = "again" /\ th' = [th EXCEPT ![t] = r] /\ Leaves("curr", l, "settle")
      BY <1>2, <1>3, <1>4, <1>8, <2>1 DEF AccessAgain
    <2>3. /\ r.pc = "settle" /\ r.val = o.val /\ r.latest = o.latest /\ r.prev = o.prev
          /\ r.lo = o.lo /\ r.hi = o.hi /\ r.at = o.at /\ r.v = o.v /\ r.cur = o.cur
          /\ r.slot = o.slot /\ r.result = o.result /\ r.curr = l /\ r.j = o.j /\ r.old = o.old
      BY <1>1, <1>2, <2>2, ZenonT(60) DEF IsThread, Leaves
    <2>4. Knows(r, d)
      BY <1>1, <1>2, <2>2, <2>3 DEF Knows
    <2>5. Onward(o, r, l)
      BY <2>2, <2>3 DEF Onward, InTable, Open, Settled, Early, Detaching
    <2>6. SameHolding(o, r) /\ \A w : ~Ready(o, l, w)
      BY <2>2, <2>3 DEF SameHolding, Ready
    <2> QED
      BY <1>1, <1>2, <2>2, <2>4, <2>5, <2>6, QuietMove
  <1> QED
    BY <1>5, <1>6, <1>7, <1>8

-----------------------------------------------------------------------------
(* The steps of nbhs_raw_intern that leave the words alone                  *)

\* A thread goes on in nbhs_raw_intern, with the same table and value.
LEMMA RawMove ==
    ASSUME IInv, CInv, NEW t \in Threads, NEW o, NEW r, o = th[t], th' = [th EXCEPT ![t] = r],
           UNCHANGED <<latest, got>>, Data(table') = Data(table),
           \A n \in Tables : table'[n].prev = table[n].prev /\ table'[n].moved = table[n].moved,
           o.pc \in RawIntern, r.pc \in RawIntern \ {"grow", "settle"},
           r.latest = o.latest, r.prev = o.prev, r.hi = o.hi, r.at = o.at, r.cur = o.cur,
           r.v = o.v, r.slot = o.slot, r.pc = "swap" => o.pc = "grow",
           Open(r, r.cur) => Open(o, o.cur), r.pc \in Owning => o.pc \in Owning,
           Knows(r, Data(table)),
           \A w \in Vals : ToCopy(th, latest, table, Data(table), w) /\ Ready(o, latest, w) =>
              Ready(r, latest, w)
    PROVE  CInv'
  <1>1. r.pc # "copy" /\ o.pc # "copy" /\ (r.pc \in Early => r.pc \in {"swap", "hold"})
    BY DEF RawIntern, Early, Detaching
  <1>2. \A n \in Tables : InTable(r, n) => InTable(o, n)
    BY <1>1 DEF InTable, Early
  <1>3. \A n \in Tables : Open(r, n) => Open(o, n)
    BY <1>1 DEF Open
  <1>4. \A n \in Tables : ~Settled(r, n)
    BY DEF Settled
  <1>5. Onward(o, r, latest)
    BY <1>2, <1>3, <1>4 DEF Onward
  <1>6. SameHolding(o, r)
    BY <1>1 DEF SameHolding, Holding, RawIntern
  <1> QED
    BY <1>5, <1>6, QuietMove

\* A call that probes again, for what it has put in a table that has been replaced, does
\* not go round a full table: there is room for it, or its key is there.
Fits(r, b) == r.pc \in {"probe", "reserve"} /\ r.result # Nil =>
    \E j \in 0 .. Cap(r.cur) - 1 :
       b[Place(r.cur, Key[r.v], j)] = Empty \/ Key[b[Place(r.cur, Key[r.v], j)].p] = Key[r.v]

RetriesFit == \A t \in Threads : Fits(th[t], Data(table)[th[t].cur])

\* nbhs_try_entry, unless it ends the probe: on, or round the table, or waiting.
LEMMA TryEntryStays ==
    ASSUME IInv, CInv, RetriesFit, NEW t \in Threads,
           NEW e, e = Data(table)[th[t].cur][Spot(th[t])], e # Empty,
           th[t].pc \in {"probe", "reserve"}, TryEntry(t, e), UNCHANGED <<latest, table>>,
           Key[e.p] # Key[th[t].v] \/ e.reserved
    PROVE  CInv'
  <1>1. PICK o, d, r : o = th[t] /\ d = Data(table) /\ r = th'[t]
    OBVIOUS
  <1>2. /\ IsThread(o) /\ Knows(o, d) /\ th = [u \in Threads |-> th[u]]
        /\ o.cur \in Tables /\ Fits(o, d[o.cur])
    BY <1>1 DEF IInv, Placed, CInv, WInv, RetriesFit, RawIntern
  <1>3. /\ o.v \in Vals /\ o.i \in 0 .. Cap(o.cur) - 1 /\ Reached(d[o.cur], o.cur, Key[o.v], o.i)
        /\ e = d[o.cur][Spot(o)] /\ Cap(o.cur) \in Nat
    BY <1>1, <1>2, CapIsNat DEF Knows, RawIntern, Probing
  <1>4. /\ Open(o, o.cur) /\ o.pc \in RawIntern /\ o.pc \notin Owning
    BY <1>1 DEF Open, Probing, RawIntern, Owning, Deciding
  <1>5. \A w : ~Ready(o, latest, w)
    BY <1>4 DEF Ready
  <1>6. CASE Key[e.p] # Key[o.v]
    <2>1. Reached(d[o.cur], o.cur, Key[o.v], o.i + 1)
      <3>1. \A m \in 0 .. (o.i + 1) - 1 : m = o.i \/ m \in 0 .. o.i - 1
        BY <1>3
      <3> QED
        BY <1>3, <1>6, <3>1 DEF Reached, Spot
    <2>2. CASE o.i + 1 = Cap(o.cur)
      <3>1. /\ th' = [th EXCEPT ![t] = r] /\ r = [o EXCEPT !.pc = "again"] /\ UNCHANGED got
        BY <1>1, <1>2, <1>6, <2>2 DEF TryEntry
      <3>2. /\ r.pc = "again" /\ r.val = o.val /\ r.latest = o.latest /\ r.prev = o.prev
            /\ r.lo = o.lo /\ r.hi = o.hi /\ r.at = o.at /\ r.v = o.v /\ r.cur = o.cur
            /\ r.slot = o.slot /\ r.result = o.result /\ r.curr = o.curr /\ r.j = o.j
            /\ r.old = o.old
        BY <1>2, <3>1 DEF IsThread
      <3>3. o.result = Nil
        <4>1. \A j \in 0 .. Cap(o.cur) - 1 : j \in 0 .. (o.i + 1) - 1
          BY <1>3, <2>2
        <4> QED
          BY <1>1, <1>2, <2>1, <4>1 DEF Fits, Reached
      <3>4. Knows(r, d)
        BY <1>1, <1>2, <3>2, <3>3 DEF Knows, RawIntern, Probing, Owning, Deciding, Holding
      <3>5. r.pc \in RawIntern \ {"grow", "settle"} /\ r.pc \notin Owning /\ r.pc # "swap"
        BY <3>2 DEF RawIntern, Owning, Deciding
      <3> QED
        BY <1>1, <1>4, <1>5, <3>1, <3>2, <3>4, <3>5, RawMove
    <2>3. CASE o.i + 1 # Cap(o.cur)
      <3>0. PICK x : x = o.i + 1
        OBVIOUS
      <3>1. /\ th' = [th EXCEPT ![t] = r] /\ r = [o EXCEPT !.pc = "probe", !.i = x]
            /\ UNCHANGED got
        BY <1>1, <1>2, <1>6, <2>3, <3>0 DEF TryEntry
      <3>2. /\ r.pc = "probe" /\ r.val = o.val /\ r.latest = o.latest /\ r.prev = o.prev
            /\ r.lo = o.lo /\ r.hi = o.hi /\ r.at = o.at /\ r.v = o.v /\ r.cur = o.cur
            /\ r.slot = o.slot /\ r.result = o.result /\ r.curr = o.curr /\ r.j = o.j
            /\ r.old = o.old /\ r.i = x
        BY <1>2, <3>1 DEF IsThread
      <3>3. x \in 0 .. Cap(o.cur) - 1 /\ Reached(d[o.cur], o.cur, Key[o.v], x)
        BY <1>3, <2>1, <2>3, <3>0
      <3>4. Knows(r, d)
        BY <1>1, <1>2, <3>2, <3>3 DEF Knows, RawIntern, Probing, Owning, Deciding, Holding
      <3>5. r.pc \in RawIntern \ {"grow", "settle"} /\ r.pc \notin Owning /\ r.pc # "swap"
        BY <3>2 DEF RawIntern, Owning, Deciding
      <3> QED
        BY <1>1, <1>4, <1>5, <3>1, <3>2, <3>4, <3>5, RawMove
    <2> QED
      BY <2>2, <2>3
  <1>7. CASE Key[e.p] = Key[o.v] /\ e.reserved
    <2>1. /\ th' = [th EXCEPT ![t] = r] /\ r = [o EXCEPT !.pc = "wait"] /\ UNCHANGED got
      BY <1>1, <1>2, <1>7 DEF TryEntry
    <2>2. /\ r.pc = "wait" /\ r.val = o.val /\ r.latest = o.latest /\ r.prev = o.prev
          /\ r.lo = o.lo /\ r.hi = o.hi /\ r.at = o.at /\ r.v = o.v /\ r.cur = o.cur
          /\ r.slot = o.slot /\ r.result = o.result /\ r.curr = o.curr /\ r.j = o.j
          /\ r.old = o.old /\ r.i = o.i
      BY <1>2, <2>1 DEF IsThread
    <2>3. Spot(r) = Spot(o)
      BY <2>2 DEF Spot
    <2>4. Knows(r, d)
      <3>1. o.pc \in Probing /\ d[o.cur][Spot(o)] = e
        BY <1>1, <1>3 DEF Probing
      <3> QED
        BY <1>1, <1>2, <1>7, <2>2, <2>3, <3>1
        DEF Knows, RawIntern, Probing, Owning, Deciding, Holding
    <2>5. r.pc \in RawIntern \ {"grow", "settle"} /\ r.pc \notin Owning /\ r.pc # "swap"
      BY <2>2 DEF RawIntern, Owning, Deciding
    <2> QED
      BY <1>1, <1>4, <1>5, <2>1, <2>2, <2>4, <2>5, RawMove
  <1> QED
    BY <1>1, <1>6, <1>7

\* The word of key k in the table before the latest is where a look-up for k comes to.
LEMMA LookupFinds ==
    ASSUME IInv, CInv, NEW t \in Threads, th[t].pc = "lookup", NEW w \in Vals,
           ToCopy(th, latest, table, Data(table), w), Ready(th[t], latest, w)
    PROVE  /\ th[t].curr \in Tables /\ th[t].j < Cap(th[t].curr)
           /\ \A e : e = Data(table)[th[t].curr][Place(th[t].curr, Key[th[t].v], th[t].j)] =>
                e # Empty /\ (Key[e.p] = Key[th[t].v] => e = Final(w))
  <1>1. PICK o, d : o = th[t] /\ d = Data(table)
    OBVIOUS
  <1>2. Placed(o, latest, table) /\ Knows(o, d) /\ Chained(latest, table) /\ latest \in Tables
    BY <1>1 DEF IInv, CInv, WInv
  <1>3. /\ o.cur = latest /\ Key[o.v] = Key[w] /\ o.curr # NoTable /\ o.curr \in Tables
        /\ o.curr + 1 = latest /\ o.j \in Nat /\ Reached(d[o.curr], o.curr, Key[o.v], o.j)
    BY <1>1, <1>2 DEF Ready, Knows, Placed
  <1>4. PICK p, i : /\ p = table[latest].prev /\ p \in Tables /\ latest = p + 1
                    /\ i \in 0 .. Cap(p) - 1 /\ d[p][i] = Final(w)
    BY <1>1, <1>2 DEF ToCopy, Chained
  <1>5. p = o.curr
    <2>1. p \in Nat /\ o.curr \in Nat
      BY <1>3, <1>4, TableNumbers
    <2> QED
      BY <1>3, <1>4, <2>1
  <1>6. Tidy(d[p], p)
    BY <1>1, <1>4 DEF CInv, WInv, Tidied
  <1>7. d[p][i] # Empty /\ Key[d[p][i].p] = Key[o.v]
    BY <1>3, <1>4, WordsDiffer
  <1>8. /\ o.j < Cap(p) /\ d[p][Place(p, Key[o.v], o.j)] # Empty
        /\ Key[d[p][Place(p, Key[o.v], o.j)].p] = Key[o.v] => i = Place(p, Key[o.v], o.j)
    <2>1. PICK b, k : b = d[p] /\ k = Key[o.v]
      OBVIOUS
    <2>2. Tidy(b, p) /\ Reached(b, p, k, o.j) /\ b[i] # Empty /\ Key[b[i].p] = k
      BY <1>3, <1>5, <1>6, <1>7, <2>1
    <2>3. /\ o.j < Cap(p) /\ b[Place(p, k, o.j)] # Empty
          /\ Key[b[Place(p, k, o.j)].p] = k => i = Place(p, k, o.j)
      BY <1>3, <1>4, <2>2, Meets
    <2> QED
      BY <2>1, <2>3
  <1> QED
    BY <1>1, <1>3, <1>4, <1>5, <1>8

LEMMA LookupKeeps ==
    ASSUME IInv, CInv, NEW t \in Threads, Lookup(t)
    PROVE  CInv'
  <1>1. PICK o, d, r, e : /\ o = th[t] /\ d = Data(table) /\ r = th'[t]
                          /\ e = table[o.curr].data[Place(o.curr, Key[o.v], o.j)]
    OBVIOUS
  <1>2. /\ Placed(o, latest, table) /\ IsThread(o) /\ Knows(o, d) /\ th = [u \in Threads |-> th[u]]
        /\ o.pc = "lookup" /\ UNCHANGED <<latest, table, got>>
    BY <1>1 DEF IInv, Placed, CInv, WInv, Lookup
  <1>3. /\ o.pc \in RawIntern /\ o.pc \in Owning /\ o.v \in Vals /\ o.cur \in Tables
    BY <1>2 DEF Knows, Placed, RawIntern, Owning
  <1>4. o.curr # NoTable => /\ o.curr \in Tables /\ o.curr + 1 = o.cur /\ o.j \in Nat
                            /\ Reached(d[o.curr], o.curr, Key[o.v], o.j) /\ Cap(o.curr) \in Nat
                            /\ e = d[o.curr][Place(o.curr, Key[o.v], o.j)]
    BY <1>1, <1>2, CapIsNat DEF Placed, Knows, Data
  <1> DEFINE To(x) == th' = [th EXCEPT ![t] = x]
  <1>5. \/ o.curr = NoTable /\ To([o EXCEPT !.pc = "count"])
        \/ /\ o.curr # NoTable /\ (e = Empty \/ o.j = Cap(o.curr))
           /\ To([o EXCEPT !.pc = "unhold"])
        \/ /\ o.curr # NoTable /\ e # Empty /\ o.j < Cap(o.curr) /\ Key[e.p] # Key[o.v]
           /\ To([o EXCEPT !.j = o.j + 1])
        \/ /\ o.curr # NoTable /\ e # Empty /\ o.j < Cap(o.curr) /\ Key[e.p] = Key[o.v]
           /\ To([o EXCEPT !.old = e.p, !.pc = "unhold"])
    BY <1>1, <1>2 DEF Lookup
  <1>6. ASSUME o.curr = NoTable, r = [o EXCEPT !.pc = "count"], th' = [th EXCEPT ![t] = r]
        PROVE  CInv'
    <2>1. /\ r.pc = "count" /\ r.val = o.val /\ r.latest = o.latest /\ r.prev = o.prev
          /\ r.lo = o.lo /\ r.hi = o.hi /\ r.at = o.at /\ r.v = o.v /\ r.cur = o.cur
          /\ r.slot = o.slot /\ r.result = o.result /\ r.curr = o.curr /\ r.j = o.j
          /\ r.old = o.old /\ r.i = o.i
      BY <1>2, <1>6 DEF IsThread
    <2>2. r.old = Nil /\ r.j = 0 /\ Spot(r) = Spot(o)
      BY <1>2, <1>6, <2>1 DEF Knows, Deciding, Spot
    <2>3. Knows(r, d)
      BY <1>2, <1>3, <2>1, <2>2 DEF Knows, RawIntern, Probing, Owning, Deciding, Holding
    <2>4. \A w : ~Ready(o, latest, w)
      BY <1>2, <1>6 DEF Ready
    <2>5. r.pc \in RawIntern \ {"grow", "settle"} /\ r.pc # "swap" /\ ~Open(r, r.cur)
      BY <2>1 DEF RawIntern, Open, Early, Detaching, Probing
    <2> QED
      BY <1>1, <1>2, <1>3, <1>6, <2>1, <2>3, <2>4, <2>5, RawMove
  <1>7. ASSUME o.curr # NoTable, NEW w \in Vals \cup {Nil},
               r = [o EXCEPT !.old = w, !.pc = "unhold"], th' = [th EXCEPT ![t] = r],
               IF w = Nil THEN e = Empty \/ o.j = Cap(o.curr)
                          ELSE e # Empty /\ o.j < Cap(o.curr) /\ e.p = w /\ Key[w] = Key[o.v]
        PROVE  CInv'
    <2>1. /\ r.pc = "unhold" /\ r.val = o.val /\ r.latest = o.latest /\ r.prev = o.prev
          /\ r.lo = o.lo /\ r.hi = o.hi /\ r.at = o.at /\ r.v = o.v /\ r.cur = o.cur
          /\ r.slot = o.slot /\ r.result = o.result /\ r.curr = o.curr /\ r.j = o.j
          /\ r.old = w /\ r.i = o.i
      BY <1>2, <1>7 DEF IsThread
    <2>2. (w = Nil \/ (w \in Vals /\ Key[w] = Key[r.v])) /\ Spot(r) = Spot(o)
      BY <1>7, <2>1 DEF Spot
    <2>3. Knows(r, d)
      BY <1>2, <1>3, <1>7, <2>1, <2>2 DEF Knows, RawIntern, Probing, Owning, Deciding, Holding
    <2>4. ASSUME NEW x \in Vals, ToCopy(th, latest, table, d, x), Ready(o, latest, x)
          PROVE  Ready(r, latest, x)
      <3>0. e = d[o.curr][Place(o.curr, Key[o.v], o.j)]
        BY <1>4, <1>7
      <3>1. o.j < Cap(o.curr) /\ e # Empty /\ (Key[e.p] = Key[o.v] => e = Final(x))
        BY <1>1, <1>2, <3>0, <2>4, LookupFinds
      <3>2. w # Nil
        BY <1>4, <1>7, <3>1
      <3>3. w = x
        BY <1>7, <3>1, <3>2, WordsDiffer
      <3> QED
        BY <2>1, <2>4, <3>3 DEF Ready, Owning, Deciding
    <2>5. r.pc \in RawIntern \ {"grow", "settle"} /\ r.pc # "swap" /\ ~Open(r, r.cur)
      BY <2>1 DEF RawIntern, Open, Early, Detaching, Probing
    <2> QED
      BY <1>1, <1>2, <1>3, <1>7, <2>1, <2>3, <2>4, <2>5, RawMove
  <1>8. ASSUME o.curr # NoTable, e # Empty, o.j < Cap(o.curr), Key[e.p] # Key[o.v],
               NEW x, x = o.j + 1, r = [o EXCEPT !.j = x], th' = [th EXCEPT ![t] = r]
        PROVE  CInv'
    <2>1. /\ r.pc = "lookup" /\ r.val = o.val /\ r.latest = o.latest /\ r.prev = o.prev
          /\ r.lo = o.lo /\ r.hi = o.hi /\ r.at = o.at /\ r.v = o.v /\ r.cur = o.cur
          /\ r.slot = o.slot /\ r.result = o.result /\ r.curr = o.curr /\ r.j = x
          /\ r.old = o.old /\ r.i = o.i
      BY <1>2, <1>8 DEF IsThread
    <2>2. x \in Nat /\ Reached(d[o.curr], o.curr, Key[o.v], x)
      <3>1. \A m \in 0 .. x - 1 : m = o.j \/ m \in 0 .. o.j - 1
        BY <1>4, <1>8
      <3> QED
        BY <1>4, <1>8, <3>1 DEF Reached
    <2>3. Spot(r) = Spot(o)
      BY <2>1 DEF Spot
    <2>4. Knows(r, d)
      BY <1>2, <1>3, <1>4, <1>8, <2>1, <2>2, <2>3
      DEF Knows, RawIntern, Probing, Owning, Deciding, Holding
    <2>5. \A w : Ready(o, latest, w) => Ready(r, latest, w)
      BY <1>2, <2>1 DEF Ready, Deciding
    <2>6. r.pc \in RawIntern \ {"grow", "settle"} /\ r.pc # "swap" /\ ~Open(r, r.cur)
      BY <2>1 DEF RawIntern, Open, Early, Detaching, Probing
    <2> QED
      BY <1>1, <1>2, <1>3, <1>8, <2>1, <2>4, <2>5, <2>6, RawMove
  <1>9. e # Empty /\ o.curr # NoTable => e.p \in Vals
    <2> SUFFICES ASSUME e # Empty, o.curr # NoTable
                 PROVE  e.p \in Vals
      OBVIOUS
    <2>1. Place(o.curr, Key[o.v], o.j) \in 0 .. Cap(o.curr) - 1
      BY <1>3, <1>4, PlaceIsIn
    <2>2. AreWords(d[o.curr], o.curr)
      BY <1>1, <1>4 DEF CInv, WInv, Tidied
    <2> QED
      BY <1>4, <2>1, <2>2, WordsDiffer DEF AreWords
  <1>10. \A x : To(x) => r = x /\ th' = [th EXCEPT ![t] = r]
    BY <1>1, <1>2
  <1>11. CASE o.curr = NoTable /\ To([o EXCEPT !.pc = "count"])
    BY <1>6, <1>10, <1>11
  <1>12. CASE /\ o.curr # NoTable /\ (e = Empty \/ o.j = Cap(o.curr))
              /\ To([o EXCEPT !.pc = "unhold"])
    <2>1. o.old = Nil
      BY <1>2 DEF Knows, Deciding
    <2>2. [o EXCEPT !.pc = "unhold"] = [o EXCEPT !.old = Nil, !.pc = "unhold"]
      BY <1>2, <2>1 DEF IsThread
    <2>3. r = [o EXCEPT !.old = Nil, !.pc = "unhold"] /\ th' = [th EXCEPT ![t] = r]
      BY <1>10, <1>12, <2>2
    <2> QED
      BY <1>7, <1>12, <2>3
  <1>13. CASE /\ o.curr # NoTable /\ e # Empty /\ o.j < Cap(o.curr) /\ Key[e.p] # Key[o.v]
              /\ To([o EXCEPT !.j = o.j + 1])
    <2>1. r = [o EXCEPT !.j = o.j + 1] /\ th' = [th EXCEPT ![t] = r]
      BY <1>10, <1>13
    <2> QED
      BY <1>8, <1>13, <2>1
  <1>14. CASE /\ o.curr # NoTable /\ e # Empty /\ o.j < Cap(o.curr) /\ Key[e.p] = Key[o.v]
              /\ To([o EXCEPT !.old = e.p, !.pc = "unhold"])
    <2>1. PICK x : x = e.p
      OBVIOUS
    <2>2. r = [o EXCEPT !.old = x, !.pc = "unhold"] /\ th' = [th EXCEPT ![t] = r]
      BY <1>10, <1>14, <2>1
    <2>3. x \in Vals /\ x # Nil
      BY <1>9, <1>14, <2>1, NbhsAssumption
    <2> QED
      BY <1>7, <1>14, <2>1, <2>2, <2>3
  <1> QED
    BY <1>5, <1>11, <1>12, <1>13, <1>14

LEMMA QuietRawSteps ==
    ASSUME IInv, HInv, CInv, NEW t \in Threads, Grow(t) \/ Hold(t) \/ Unhold(t) \/ Count(t)
    PROVE  CInv'
  <1>1. PICK o, d, r : o = th[t] /\ d = Data(table) /\ r = th'[t]
    OBVIOUS
  <1>2. /\ Placed(o, latest, table) /\ IsThread(o) /\ Knows(o, d) /\ th = [u \in Threads |-> th[u]]
        /\ UNCHANGED <<latest, got>> /\ Local(o, hazard[t])
    BY <1>1, Rows DEF IInv, Placed, CInv, WInv, Grow, Hold, Unhold, Count
  <1> DEFINE Same == /\ r.val = o.val /\ r.latest = o.latest /\ r.prev = o.prev
                     /\ r.lo = o.lo /\ r.hi = o.hi /\ r.at = o.at /\ r.v = o.v /\ r.cur = o.cur
                     /\ r.slot = o.slot /\ r.result = o.result /\ r.old = o.old /\ r.i = o.i
  <1>3. CASE Grow(t) \/ Hold(t)
    <2>1. /\ o.pc \in {"grow", "hold"} /\ UNCHANGED table /\ th' = [th EXCEPT ![t] = r]
          /\ \/ r = [o EXCEPT !.pc = "probe"]
             \/ r = [o EXCEPT !.pc = "swap"] /\ o.pc = "grow"
      BY <1>1, <1>2, <1>3 DEF Grow, Hold
    <2>2. /\ Same /\ r.j = o.j /\ r.curr = o.curr
          /\ r.pc = "probe" \/ (r.pc = "swap" /\ o.pc = "grow")
      <3>1. CASE r = [o EXCEPT !.pc = "probe"]
        BY <1>2, <3>1 DEF IsThread
      <3>2. CASE r = [o EXCEPT !.pc = "swap"] /\ o.pc = "grow"
        BY <1>2, <3>2 DEF IsThread
      <3> QED
        BY <2>1, <3>1, <3>2
    <2>3. o.i = 0 /\ o.cur \in Tables /\ 0 \in 0 .. Cap(o.cur) - 1
      BY <1>2, <2>1, CapIsNat DEF Knows, Placed, RawIntern
    <2>4. Reached(d[r.cur], r.cur, Key[r.v], r.i)
      BY <2>2, <2>3, ReachedNone
    <2>5. Knows(r, d)
      BY <1>2, <2>1, <2>2, <2>3, <2>4 DEF Knows, RawIntern, Probing, Owning, Deciding, Holding
    <2>6. Open(o, o.cur) /\ \A w : ~Ready(o, latest, w)
      BY <1>2, <2>1 DEF Open, Local, Early, Ready, Owning, Deciding
    <2>7. /\ r.pc \in RawIntern \ {"grow", "settle"} /\ o.pc \in RawIntern /\ r.pc \notin Owning
          /\ r.pc = "swap" => o.pc = "grow"
      BY <2>1, <2>2 DEF RawIntern, Owning, Deciding
    <2> QED
      BY <1>1, <1>2, <2>1, <2>2, <2>5, <2>6, <2>7, RawMove
  <1>4. CASE Unhold(t)
    <2>1. /\ o.pc = "unhold" /\ UNCHANGED table /\ th' = [th EXCEPT ![t] = r]
          /\ r = [o EXCEPT !.pc = "count", !.curr = NoTable, !.j = 0]
      BY <1>1, <1>2, <1>4 DEF Unhold
    <2>2. Same /\ r.j = 0 /\ r.curr = NoTable /\ r.pc = "count"
      BY <1>2, <2>1 DEF IsThread
    <2>3. Spot(r) = Spot(o)
      BY <2>2 DEF Spot
    <2>4. Knows(r, d)
      BY <1>2, <2>1, <2>2, <2>3 DEF Knows, RawIntern, Probing, Owning, Deciding, Holding
    <2>5. \A w : Ready(o, latest, w) => Ready(r, latest, w)
      BY <2>1, <2>2 DEF Ready, Owning, Deciding
    <2>6. /\ r.pc \in RawIntern \ {"grow", "settle"} /\ o.pc \in RawIntern /\ o.pc \in Owning
          /\ r.pc # "swap" /\ ~Open(r, r.cur)
      BY <2>1, <2>2 DEF RawIntern, Owning, Deciding, Open, Early, Detaching, Probing
    <2> QED
      BY <1>1, <1>2, <2>1, <2>2, <2>4, <2>5, <2>6, RawMove
  <1>5. CASE Count(t)
    <2>0. PICK b : b = [table[o.cur] EXCEPT !.count = @ + 1]
      OBVIOUS
    <2>1. /\ o.pc = "count" /\ table' = [table EXCEPT ![o.cur] = b] /\ th' = [th EXCEPT ![t] = r]
          /\ r = [o EXCEPT !.pc = "commit"]
      BY <2>0, <1>1, <1>2, <1>5 DEF Count, IInv
    <2>2. Same /\ r.j = o.j /\ r.curr = o.curr /\ r.pc = "commit"
      BY <1>2, <2>1 DEF IsThread
    <2>3. o.cur \in Tables
      BY <1>2, <2>1 DEF Placed, RawIntern
    <2>4. IsTable(table[o.cur], o.cur)
      BY <2>3 DEF IInv
    <2>5. b.data = table[o.cur].data /\ b.prev = table[o.cur].prev /\ b.moved = table[o.cur].moved
      BY <2>0, <2>4 DEF IsTable
    <2>6. /\ Data(table') = Data(table)
          /\ \A n \in Tables : table'[n].prev = table[n].prev /\ table'[n].moved = table[n].moved
      <3>1. /\ Data(table') = Data(table)
            /\ table'[o.cur] = b /\ \A m \in Tables : m # o.cur => table'[m] = table[m]
        BY <2>1, <2>3, <2>5, SameData
      <3> QED
        BY <2>5, <3>1
    <2>7. Spot(r) = Spot(o)
      BY <2>2 DEF Spot
    <2>8. Knows(r, d)
      BY <1>2, <2>1, <2>2, <2>7 DEF Knows, RawIntern, Probing, Owning, Deciding, Holding
    <2>9. \A w : Ready(o, latest, w) => Ready(r, latest, w)
      BY <2>1, <2>2 DEF Ready, Owning, Deciding
    <2>10. /\ r.pc \in RawIntern \ {"grow", "settle"} /\ o.pc \in RawIntern /\ o.pc \in Owning
           /\ r.pc # "swap" /\ ~Open(r, r.cur)
      BY <2>1, <2>2 DEF RawIntern, Owning, Deciding, Open, Early, Detaching, Probing
    <2> QED
      BY <1>1, <1>2, <2>1, <2>2, <2>6, <2>8, <2>9, <2>10, RawMove
  <1> QED
    BY <1>3, <1>4, <1>5

\* A thread that probes once more does so in the latest table, as it has read that.
LEMMA RetryKeeps ==
    ASSUME IInv, CInv, NEW t \in Threads,
           Settle(t), th[t].cur # th[t].curr \/ th[t].result = Nil
    PROVE  CInv'
  <1>1. PICK o, d, r : o = th[t] /\ d = Data(table) /\ r = th'[t]
    OBVIOUS
  <1>2. /\ Placed(o, latest, table) /\ IsThread(o) /\ Knows(o, d) /\ th = [u \in Threads |-> th[u]]
    BY <1>1 DEF IInv, Placed, CInv, WInv
  <1>3. /\ o.pc = "settle" /\ UNCHANGED <<latest, table, got>> /\ th' = [th EXCEPT ![t] = r]
        /\ r = [o EXCEPT !.cur = o.curr, !.curr = NoTable, !.i = 0, !.pc = "probe"]
    BY <1>1, <1>2 DEF Settle
  <1>4. /\ r.pc = "probe" /\ r.val = o.val /\ r.latest = o.latest /\ r.prev = o.prev
        /\ r.lo = o.lo /\ r.hi = o.hi /\ r.at = o.at /\ r.v = o.v /\ r.cur = o.curr
        /\ r.slot = o.slot /\ r.result = o.result /\ r.old = o.old /\ r.i = 0 /\ r.j = o.j
        /\ r.curr = NoTable
    BY <1>2, <1>3 DEF IsThread
  <1>5. o.curr \in Tables /\ 0 \in 0 .. Cap(o.curr) - 1
    BY <1>2, <1>3, CapIsNat DEF Placed
  <1>6. Reached(d[r.cur], r.cur, Key[r.v], r.i)
    BY <1>4, ReachedNone
  <1>7. Knows(r, d)
    BY <1>2, <1>3, <1>4, <1>5, <1>6 DEF Knows, RawIntern, Probing, Owning, Deciding, Holding
  <1>8. Onward(o, r, latest)
    <2>1. \A n \in Tables : InTable(r, n) => InTable(o, n)
      BY <1>3, <1>4 DEF InTable, Early, Detaching
    <2>2. \A n \in Tables : Open(r, n) => Open(o, n)
      BY <1>1, <1>3, <1>4 DEF Open, Early, Detaching
    <2>3. \A n \in Tables : ~Settled(r, n)
      BY <1>4 DEF Settled
    <2> QED
      BY <1>4, <2>1, <2>2, <2>3 DEF Onward, Owning, Deciding
  <1>9. SameHolding(o, r) /\ \A w : ~Ready(o, latest, w)
    BY <1>3, <1>4 DEF SameHolding, Holding, Ready, Owning, Deciding
  <1> QED
    BY <1>1, <1>3, <1>7, <1>8, <1>9, QuietMove

\* A CAS of `latest` that fails has read the latest table.
LEMMA SwapFailKeeps ==
    ASSUME IInv, CInv, NEW t \in Threads, SwapLatest(t), latest # th[t].cur
    PROVE  CInv'
  <1>1. PICK o, d, r : o = th[t] /\ d = Data(table) /\ r = th'[t]
    OBVIOUS
  <1>2. /\ Placed(o, latest, table) /\ IsThread(o) /\ Knows(o, d) /\ th = [u \in Threads |-> th[u]]
    BY <1>1 DEF IInv, Placed, CInv, WInv
  <1>3. /\ o.pc = "swap" /\ UNCHANGED <<latest, table, got>> /\ th' = [th EXCEPT ![t] = r]
        /\ r = [o EXCEPT !.cur = latest, !.pc = "hold"]
    BY <1>1, <1>2 DEF SwapLatest
  <1>4. /\ r.pc = "hold" /\ r.val = o.val /\ r.latest = o.latest /\ r.prev = o.prev
        /\ r.lo = o.lo /\ r.hi = o.hi /\ r.at = o.at /\ r.v = o.v /\ r.cur = latest
        /\ r.slot = o.slot /\ r.result = o.result /\ r.old = o.old /\ r.i = o.i /\ r.j = o.j
        /\ r.curr = o.curr
    BY <1>2, <1>3 DEF IsThread
  <1>5. Knows(r, d)
    BY <1>2, <1>3, <1>4 DEF Knows, RawIntern, Probing, Owning, Deciding, Holding
  <1>6. Onward(o, r, latest)
    <2>1. \A n \in Tables : InTable(r, n) => InTable(o, n) \/ n = latest
      BY <1>3, <1>4 DEF InTable, Early, Detaching
    <2>2. \A n \in Tables : Open(r, n) => Open(o, n) \/ n = latest
      BY <1>1, <1>3, <1>4 DEF Open, Early, Detaching
    <2>3. \A n \in Tables : ~Settled(r, n)
      BY <1>4 DEF Settled
    <2> QED
      BY <1>4, <2>1, <2>2, <2>3 DEF Onward, Owning, Deciding
  <1>7. SameHolding(o, r) /\ \A w : ~Ready(o, latest, w)
    BY <1>3, <1>4 DEF SameHolding, Holding, Ready, Owning, Deciding
  <1> QED
    BY <1>1, <1>3, <1>5, <1>6, <1>7, QuietMove

-----------------------------------------------------------------------------
(* The steps that move a batch up                                           *)

\* What is to be copied from table tb by a thread that goes from o to r, and the entries not
\* claimed, are still to be copied from tables tb2 by the threads q.
StillWaits(o, r, q, tb, tb2, d) == \A n \in Tables : \A i \in 0 .. Cap(n) - 1 : d[n][i] # Empty =>
    /\ tb[n].moved <= i => Waiting(q, tb2, n, i)
    /\ Holding(o) /\ o.prev = n /\ i \in o.at .. o.hi - 1 =>
         Holding(r) /\ r.prev = n /\ i \in r.at .. r.hi - 1

LEMMA BatchMove ==
    ASSUME IInv, CInv, NEW t \in Threads, NEW r, NEW q, q = [th EXCEPT ![t] = r], th' = q,
           Data(table') = Data(table), NEW tb, table' = tb, UNCHANGED <<latest, got>>,
           Unclaimed(latest, tb), \A n \in Tables : tb[n].prev = table[n].prev,
           th[t].pc \in {"claim", "copy"}, r.pc \in {"copy", "detach", "skip"},
           r.latest = th[t].latest, r.slot = th[t].slot, Knows(r, Data(table)),
           StillWaits(th[t], r, q, table, tb, Data(table))
    PROVE  CInv'
  <1>1. PICK o, d : o = th[t] /\ d = Data(table)
    OBVIOUS
  <1>2. Placed(o, latest, table) /\ latest \in Tables
    BY <1>1 DEF IInv
  <1>3. o.slot = 0
    BY <1>1, <1>2 DEF Placed, RawIntern
  <1>4. Onward(o, r, latest)
    <2>1. \A n \in Tables : InTable(r, n) => InTable(o, n)
      BY <1>1, <1>3 DEF InTable, Early, RawIntern
    <2>2. \A n \in Tables : Open(r, n) => Open(o, n)
      BY <1>1 DEF Open, Early, Probing
    <2>3. \A n \in Tables : ~Settled(r, n)
      BY DEF Settled
    <2> QED
      BY <2>1, <2>2, <2>3 DEF Onward, Owning, Deciding
  <1>5. \A w : ~Ready(o, latest, w)
    BY <1>1 DEF Ready, Owning, Deciding
  <1>6. \A u \in Threads : q[u] = IF u = t THEN r ELSE th[u]
    BY DEF IInv
  <1>7. ASSUME NEW n \in Tables, NEW i \in 0 .. Cap(n) - 1, d[n][i] # Empty,
               Waiting(th, table, n, i)
        PROVE  Waiting(q, tb, n, i)
    <2>1. CASE table[n].moved <= i
      BY <1>1, <1>7, <2>1 DEF StillWaits
    <2>2. ASSUME NEW u \in Threads, Holding(th[u]), th[u].prev = n, i \in th[u].at .. th[u].hi - 1
          PROVE  Waiting(q, tb, n, i)
      <3>1. Holding(q[u]) /\ q[u].prev = n /\ i \in q[u].at .. q[u].hi - 1
        BY <1>1, <1>6, <1>7, <2>2 DEF StillWaits
      <3> QED
        BY <3>1 DEF Waiting
    <2> QED
      BY <1>7, <2>1, <2>2 DEF Waiting
  <1>8. ASSUME NEW w \in Vals, ToCopy(th, latest, table, d, w)
        PROVE  ToCopy(q, latest, tb, d, w)
    <2>1. PICK p : p = table[latest].prev
      OBVIOUS
    <2>2. p # NoTable /\ p \in Tables /\ tb[latest].prev = p
      BY <1>2, <1>8, <2>1 DEF ToCopy, IInv, Chained
    <2>3. PICK i \in 0 .. Cap(p) - 1 : Waiting(th, table, p, i) /\ d[p][i] = Final(w)
      BY <1>8, <2>1 DEF ToCopy
    <2>4. Waiting(q, tb, p, i)
      BY <1>7, <2>2, <2>3, WordsDiffer
    <2> QED
      BY <2>2, <2>3, <2>4 DEF ToCopy
  <1>9. RightKeys(got)
    BY DEF CInv, WInv
  <1> QED
    BY <1>1, <1>4, <1>5, <1>8, <1>9, SoundMove

LEMMA ClaimCopies ==
    ASSUME IInv, IInv', CInv, NEW t \in Threads, ClaimBatch(t)
    PROVE  CInv'
  <1>1. PICK o, d, r, p, hi : /\ o = th[t] /\ d = Data(table) /\ r = th'[t] /\ p = o.prev
                              /\ hi = IF o.lo + Batch > Cap(p) THEN Cap(p) ELSE o.lo + Batch
    OBVIOUS
  <1>2. /\ Placed(o, latest, table) /\ IsThread(o) /\ Knows(o, d) /\ th = [u \in Threads |-> th[u]]
        /\ o.pc = "claim" /\ UNCHANGED <<latest, got>> /\ latest \in Nat
    BY <1>1, TableNumbers DEF IInv, Placed, CInv, WInv, ClaimBatch
  <1>3. /\ p \in Tables /\ o.latest = p + 1 /\ p + 1 <= latest /\ o.lo \in Nat /\ o.slot = 0
        /\ o.val \in Vals /\ o.j = 0 /\ o.old = Nil /\ p \in Nat
    BY <1>1, <1>2, TableNumbers DEF Placed, Detaching, RawIntern, Knows, Deciding
  <1>4. CASE table[p].moved # o.lo
    <2>1. UNCHANGED table /\ th' = [th EXCEPT ![t] = r] /\ r = [o EXCEPT !.pc = "look"]
      BY <1>1, <1>2, <1>4 DEF ClaimBatch
    <2>2. /\ r.pc = "look" /\ r.slot = o.slot /\ r.val = o.val /\ r.latest = o.latest
          /\ r.j = o.j /\ r.old = o.old
      BY <1>2, <2>1 DEF IsThread
    <2>3. /\ o.pc \notin RawIntern \cup {"copy"} /\ r.pc \notin RawIntern \cup {"copy"}
          /\ o.pc \in Early \ {"hold", "swap"}
      BY <1>2, <2>2 DEF RawIntern, Early
    <2>4. /\ th[t].pc \notin RawIntern \cup {"copy"} /\ th[t].pc \in Early \ {"hold", "swap"}
          /\ r.val \in Vals /\ r.latest = th[t].latest /\ r.slot = 0 /\ r.j = 0 /\ r.old = Nil
      BY <1>1, <1>3, <2>2, <2>3
    <2> QED
      BY <1>2, <2>1, <2>3, <2>4, PlainMove
  <1>5. CASE table[p].moved = o.lo
    <2>1. PICK b, tb, q : /\ b = [table[p] EXCEPT !.moved = hi] /\ tb = table' /\ q = th'
      OBVIOUS
    <2>2. /\ tb = [table EXCEPT ![p] = b] /\ q = [th EXCEPT ![t] = r]
          /\ r = [o EXCEPT !.pc = "copy", !.hi = hi, !.at = o.lo]
      BY <1>1, <1>2, <1>3, <1>5, <2>1 DEF ClaimBatch, IInv
    <2>3. /\ r.pc = "copy" /\ r.slot = o.slot /\ r.val = o.val /\ r.latest = o.latest
          /\ r.j = o.j /\ r.old = o.old /\ r.at = o.lo /\ r.hi = hi /\ r.lo = o.lo /\ r.prev = p
      BY <1>1, <1>2, <2>2 DEF IsThread
    <2>4. Placed(r, latest', table')
      BY <1>1 DEF IInv
    <2>5. Holding(r) /\ r.lo < r.hi /\ r.hi \in Nat
      BY <2>3, <2>4 DEF Placed, Holding
    <2>6. Knows(r, d)
      BY <1>3, <2>3, <2>5 DEF Knows, RawIntern, Probing, Owning, Deciding, Holding
    <2>7. /\ b.data = table[p].data /\ b.prev = table[p].prev /\ b.moved = hi
      BY <1>3, <2>1 DEF IInv, IsTable
    <2>8. Data(tb) = d /\ tb[p] = b /\ \A n \in Tables : n # p => tb[n] = table[n]
      <3>1. table' = [table EXCEPT ![p] = b]
        BY <2>1, <2>2
      <3>2. /\ Data(table') = Data(table)
            /\ table'[p] = b /\ \A n \in Tables : n # p => table'[n] = table[n]
        BY <1>3, <2>7, <3>1, SameData
      <3> QED
        BY <1>1, <2>1, <3>2
    <2>9. \A n \in Tables : tb[n].prev = table[n].prev
      BY <2>7, <2>8
    <2>10. Unclaimed(latest, tb)
      <3>1. \A n \in Tables : n >= latest => n # p
        BY <1>2, <1>3
      <3> QED
        BY <2>8, <3>1 DEF CInv, WInv, Unclaimed
    <2>11. ASSUME NEW n \in Tables, NEW i \in 0 .. Cap(n) - 1, table[n].moved <= i
           PROVE  Waiting(q, tb, n, i)
      <3>1. CASE n # p
        BY <2>8, <2>11, <3>1 DEF Waiting
      <3>2. CASE n = p /\ hi <= i
        BY <2>7, <2>8, <3>2 DEF Waiting
      <3>3. CASE n = p /\ ~(hi <= i)
        <4>1. i \in Nat /\ Cap(n) \in Nat /\ hi \in Nat
          BY <2>3, <2>5, CapIsNat
        <4>2. i \in o.lo .. hi - 1
          BY <1>3, <1>5, <2>11, <3>3, <4>1
        <4>3. q[t] = r
          BY <1>1, <2>1
        <4> QED
          BY <2>3, <2>5, <3>3, <4>2, <4>3 DEF Waiting
      <3> QED
        BY <3>1, <3>2, <3>3
    <2>12. ~Holding(th[t])
      BY <1>1, <1>2, <1>3 DEF Holding
    <2>13. /\ Data(table') = Data(table) /\ table' = tb /\ th' = q /\ Knows(r, Data(table))
           /\ th[t].pc \in {"claim", "copy"} /\ r.pc \in {"copy", "detach", "skip"}
           /\ r.latest = th[t].latest /\ r.slot = th[t].slot
      BY <1>1, <1>2, <2>1, <2>3, <2>6, <2>8
    <2>14. StillWaits(th[t], r, q, table, tb, Data(table))
      BY <2>11, <2>12 DEF StillWaits
    <2>15. q = [th EXCEPT ![t] = r] /\ UNCHANGED <<latest, got>>
      BY <1>2, <2>2
    <2> QED
      BY <2>9, <2>10, <2>13, <2>14, <2>15, BatchMove
  <1> QED
    BY <1>4, <1>5

LEMMA CopyKeeps ==
    ASSUME IInv, CInv, NEW t \in Threads, CopyEntry(t)
    PROVE  CInv'
  <1>1. PICK o, d, r, e : /\ o = th[t] /\ d = Data(table) /\ r = th'[t]
                          /\ e = table[o.prev].data[o.at]
    OBVIOUS
  <1>2. /\ Placed(o, latest, table) /\ IsThread(o) /\ Knows(o, d) /\ th = [u \in Threads |-> th[u]]
        /\ o.pc = "copy" /\ o.at < o.hi /\ ~e.reserved /\ UNCHANGED <<latest, table, got>>
    BY <1>1 DEF IInv, Placed, CInv, WInv, CopyEntry
  <1>3. /\ Holding(o) /\ o.prev \in Tables /\ o.lo \in Nat /\ o.hi \in Nat
        /\ o.hi <= table[o.prev].moved /\ o.at \in Nat /\ o.lo <= o.at /\ o.slot = 0
        /\ o.val \in Vals /\ o.j = 0 /\ o.old = Nil /\ o.latest = o.prev + 1
    BY <1>2 DEF Placed, Holding, RawIntern, Knows, Deciding
  <1>4. o.at \in 0 .. Cap(o.prev) - 1
    <2>1. table[o.prev].moved \in Nat /\ table[o.prev].moved <= Cap(o.prev) /\ Cap(o.prev) \in Nat
      BY <1>3, CapIsNat DEF IInv, IsTable
    <2> QED
      BY <1>2, <1>3, <2>1
  <1>5. e = d[o.prev][o.at]
    BY <1>1, <1>3 DEF Data
  <1>6. CASE e = Empty
    <2>0. PICK x, tb, q : x = o.at + 1 /\ tb = table' /\ q = th'
      OBVIOUS
    <2>1. q = [th EXCEPT ![t] = r] /\ r = [o EXCEPT !.at = x]
      BY <1>1, <1>2, <1>6, <2>0 DEF CopyEntry
    <2>2. /\ r.pc = "copy" /\ r.slot = o.slot /\ r.val = o.val /\ r.latest = o.latest
          /\ r.j = o.j /\ r.old = o.old /\ r.at = x /\ r.hi = o.hi /\ r.lo = o.lo
          /\ r.prev = o.prev
      BY <1>2, <2>1 DEF IsThread
    <2>3. x \in Nat /\ r.lo <= x /\ x <= r.hi /\ Holding(r)
      BY <1>2, <1>3, <2>0, <2>2 DEF Holding
    <2>4. Knows(r, d)
      BY <1>2, <1>3, <2>2, <2>3 DEF Knows, RawIntern, Probing, Owning, Deciding
    <2>5. ASSUME NEW n \in Tables, NEW i \in 0 .. Cap(n) - 1, d[n][i] # Empty
          PROVE  /\ table[n].moved <= i => Waiting(q, tb, n, i)
                 /\ Holding(o) /\ o.prev = n /\ i \in o.at .. o.hi - 1 =>
                      Holding(r) /\ r.prev = n /\ i \in r.at .. r.hi - 1
      <3>1. tb = table
        BY <1>2, <2>0
      <3>2. table[n].moved <= i => Waiting(q, tb, n, i)
        BY <3>1 DEF Waiting
      <3>3. ASSUME o.prev = n, i \in o.at .. o.hi - 1
            PROVE  i \in r.at .. r.hi - 1
        <4>1. i # o.at
          BY <1>5, <1>6, <2>5, <3>3
        <4> QED
          BY <1>3, <2>0, <2>2, <3>3, <4>1
      <3> QED
        BY <2>2, <2>3, <3>2, <3>3
    <2>6. Unclaimed(latest, tb) /\ \A n \in Tables : tb[n].prev = table[n].prev
      BY <1>2, <2>0 DEF CInv, WInv
    <2>7. /\ Data(table') = Data(table) /\ table' = tb /\ th' = q /\ Knows(r, Data(table))
          /\ th[t].pc \in {"claim", "copy"} /\ r.pc \in {"copy", "detach", "skip"}
          /\ r.latest = th[t].latest /\ r.slot = th[t].slot
      BY <1>1, <1>2, <2>0, <2>2, <2>4
    <2>8. StillWaits(th[t], r, q, table, tb, Data(table))
      BY <1>1, <2>5 DEF StillWaits
    <2>9. q = [th EXCEPT ![t] = r]
      BY <2>1
    <2>10. UNCHANGED <<latest, got>>
      BY <1>2
    <2> QED
      BY <2>6, <2>7, <2>8, <2>9, <2>10, BatchMove
  <1>7. CASE e # Empty
    <2>1. PICK v : v = e.p
      OBVIOUS
    <2>2. v \in Vals /\ e = Final(v)
      <3>1. AreWords(d[o.prev], o.prev)
        BY <1>1, <1>3 DEF CInv, WInv, Tidied
      <3> QED
        BY <1>2, <1>4, <1>5, <1>7, <2>1, <3>1, WordsDiffer DEF AreWords
    <2>3. th' = [th EXCEPT ![t] = r] /\ r = Enter(o, o.latest, v, 2)
      BY <1>1, <1>2, <1>7, <2>1 DEF CopyEntry
    <2>4. /\ r.pc = "grow" /\ r.slot = 2 /\ r.val = o.val /\ r.latest = o.latest
          /\ r.j = o.j /\ r.old = o.old /\ r.at = o.at /\ r.hi = o.hi /\ r.lo = o.lo
          /\ r.prev = o.prev /\ r.cur = o.latest /\ r.v = v /\ r.i = 0
      BY <1>2, <2>3 DEF IsThread, Enter
    <2>5. Knows(r, d)
      <3>1. d[r.prev][r.at] = Final(r.v) /\ r.v \in Vals /\ r.at < r.hi /\ r.at <= r.hi
        <4>1. d[o.prev][o.at] = Final(v)
          BY <1>5, <2>2
        <4>2. r.prev = o.prev /\ r.at = o.at /\ r.hi = o.hi /\ r.v = v
          BY <2>4
        <4>3. o.at < o.hi /\ o.at <= o.hi
          BY <1>2, <1>3
        <4> QED
          BY <2>2, <4>1, <4>2, <4>3
      <3> QED
        BY <1>3, <2>4, <3>1 DEF Knows, RawIntern, Probing, Owning, Deciding
    <2>6. Onward(o, r, latest)
      <3>1. \A n \in Tables : InTable(r, n) => InTable(o, n)
        BY <1>2, <2>4 DEF InTable, Early, RawIntern
      <3>2. \A n \in Tables : Open(r, n) => Open(o, n)
        BY <1>2, <2>4 DEF Open, Early, Probing
      <3>3. \A n \in Tables : ~Settled(r, n)
        BY <2>4 DEF Settled
      <3> QED
        BY <2>4, <3>1, <3>2, <3>3 DEF Onward, Owning, Deciding
    <2>7. SameHolding(o, r) /\ \A w : ~Ready(o, latest, w)
      BY <1>2, <2>4 DEF SameHolding, Holding, Ready, Owning, Deciding
    <2> QED
      BY <1>1, <1>2, <2>3, <2>5, <2>6, <2>7, QuietMove
  <1> QED
    BY <1>6, <1>7

LEMMA CountMovedKeeps ==
    ASSUME IInv, CInv, NEW t \in Threads, CountMoved(t)
    PROVE  CInv'
  <1>1. PICK o, d, r, b, tb, q : /\ o = th[t] /\ d = Data(table) /\ r = th'[t] /\ tb = table'
                                 /\ b = [table[o.prev] EXCEPT !.move_done = @ + (o.hi - o.lo)]
                                 /\ q = th'
    OBVIOUS
  <1>2. /\ Placed(o, latest, table) /\ IsThread(o) /\ Knows(o, d) /\ th = [u \in Threads |-> th[u]]
        /\ o.pc = "copy" /\ o.at = o.hi /\ UNCHANGED <<latest, got>>
    BY <1>1 DEF IInv, Placed, CInv, WInv, CountMoved
  <1>3. /\ o.prev \in Tables /\ o.hi \in Nat /\ o.slot = 0 /\ o.val \in Vals /\ o.j = 0
        /\ o.old = Nil
    BY <1>2 DEF Placed, Holding, RawIntern, Knows, Deciding
  <1>4. /\ table' = [table EXCEPT ![o.prev] = b] /\ q = [th EXCEPT ![t] = r]
        /\ \E pc \in {"detach", "skip"} : r = [o EXCEPT !.pc = pc]
    BY <1>1, <1>2, <1>3 DEF CountMoved, IInv
  <1>5. /\ r.pc \in {"detach", "skip"} /\ r.slot = o.slot /\ r.val = o.val
        /\ r.latest = o.latest /\ r.j = o.j /\ r.old = o.old
    BY <1>2, <1>4 DEF IsThread
  <1>6. /\ b.data = table[o.prev].data /\ b.prev = table[o.prev].prev
        /\ b.moved = table[o.prev].moved
    BY <1>1, <1>3 DEF IInv, IsTable
  <1>7. /\ Data(table') = Data(table)
        /\ table'[o.prev] = b /\ \A n \in Tables : n # o.prev => table'[n] = table[n]
    BY <1>3, <1>4, <1>6, SameData
  <1>8. \A n \in Tables : tb[n].prev = table[n].prev /\ tb[n].moved = table[n].moved
    BY <1>1, <1>6, <1>7
  <1>9. Unclaimed(latest, tb)
    BY <1>8 DEF CInv, WInv, Unclaimed
  <1>10. Knows(r, d)
    BY <1>3, <1>5 DEF Knows, RawIntern, Probing, Owning, Deciding, Holding
  <1>11. ASSUME NEW n \in Tables, NEW i \in 0 .. Cap(n) - 1
         PROVE  /\ table[n].moved <= i => Waiting(q, tb, n, i)
                /\ ~(i \in o.at .. o.hi - 1)
    <2>1. o.at .. o.hi - 1 = {}
      BY <1>2, <1>3
    <2> QED
      BY <1>8, <2>1 DEF Waiting
  <1>12. /\ Data(table') = Data(table) /\ table' = tb /\ th' = q /\ Knows(r, Data(table))
         /\ th[t].pc \in {"claim", "copy"} /\ r.pc \in {"copy", "detach", "skip"}
         /\ r.latest = th[t].latest /\ r.slot = th[t].slot
    BY <1>1, <1>2, <1>5, <1>7, <1>10
  <1>13. StillWaits(th[t], r, q, table, tb, Data(table))
    BY <1>1, <1>11 DEF StillWaits
  <1>14. q = [th EXCEPT ![t] = r] /\ UNCHANGED <<latest, got>>
         /\ \A n \in Tables : tb[n].prev = table[n].prev
    BY <1>2, <1>4, <1>8
  <1> QED
    BY <1>9, <1>12, <1>13, <1>14, BatchMove

\* A table is detached when nothing in it is still to be copied.
LEMMA DetachLosesNone ==
    ASSUME IInv, CInv, NEW t \in Threads, Detach(t)
    PROVE  CInv'
  <1>1. PICK o, d, r, b, tb, q, p : /\ o = th[t] /\ d = Data(table) /\ r = th'[t] /\ tb = table'
                                    /\ b = [table[o.latest] EXCEPT !.prev = NoTable]
                                    /\ q = th' /\ p = o.prev
    OBVIOUS
  <1>2. /\ Placed(o, latest, table) /\ IsThread(o) /\ Knows(o, d) /\ th = [u \in Threads |-> th[u]]
        /\ o.pc = "detach" /\ UNCHANGED <<latest, got>> /\ latest \in Tables
    BY <1>1 DEF IInv, Placed, CInv, WInv, Detach
  <1>3. /\ p \in Tables /\ o.latest = p + 1 /\ o.latest \in Tables /\ o.slot = 0 /\ o.val \in Vals
        /\ o.j = 0 /\ o.old = Nil /\ table[p].move_done = Cap(p) /\ p \in Nat
    BY <1>1, <1>2, TableNumbers DEF Placed, Detaching, RawIntern, Knows, Deciding, IInv, Alone
  <1>4. /\ table' = [table EXCEPT ![o.latest] = b] /\ q = [th EXCEPT ![t] = r]
        /\ r = [o EXCEPT !.pc = "scan"]
    BY <1>1, <1>2, <1>3 DEF Detach, IInv
  <1>5. /\ r.pc = "scan" /\ r.slot = o.slot /\ r.val = o.val /\ r.latest = o.latest /\ r.j = o.j
        /\ r.old = o.old
    BY <1>2, <1>4 DEF IsThread
  <1>6. b.data = table[o.latest].data /\ b.moved = table[o.latest].moved
    BY <1>1, <1>3 DEF IInv, IsTable
  <1>7. /\ Data(table') = Data(table)
        /\ table'[o.latest] = b /\ \A n \in Tables : n # o.latest => table'[n] = table[n]
    BY <1>3, <1>4, <1>6, SameData
  <1>8. Unclaimed(latest, tb)
    <2>1. \A n \in Tables : tb[n].moved = table[n].moved
      BY <1>1, <1>6, <1>7
    <2> QED
      BY <2>1 DEF CInv, WInv, Unclaimed
  <1>9. Knows(r, d)
    BY <1>3, <1>5 DEF Knows, RawIntern, Probing, Owning, Deciding, Holding
  <1>10. \A i \in 0 .. Cap(p) - 1 : ~Waiting(th, table, p, i)
    <2> SUFFICES ASSUME NEW i \in 0 .. Cap(p) - 1, Waiting(th, table, p, i)
                 PROVE  FALSE
      OBVIOUS
    <2>1. /\ table[p].moved = Cap(p) /\ Cap(p) \in Nat /\ Cardinality(InFlight(th, p)) = 0
          /\ IsFiniteSet(InFlight(th, p))
      BY <1>3, InFlightWithin
    <2>2. InFlight(th, p) = {}
      BY <2>1, FS_EmptySet
    <2>3. PICK u \in Threads : Holding(th[u]) /\ th[u].prev = p
      BY <2>1 DEF Waiting
    <2>4. th[u].lo \in Nat /\ th[u].hi \in Nat /\ th[u].lo < th[u].hi
      BY <2>3 DEF IInv, Placed
    <2>5. th[u].lo \in th[u].lo .. th[u].hi - 1
      BY <2>4
    <2>6. th[u].lo \in InFlight(th, p)
      BY <2>3, <2>5 DEF InFlight
    <2> QED
      BY <2>2, <2>6
  <1>11. ASSUME NEW w \in Vals, ToCopy(th, latest, table, d, w)
         PROVE  ToCopy(q, latest, tb, d, w)
    <2>1. PICK c : c = table[latest].prev
      OBVIOUS
    <2>2. c \in Tables /\ latest = c + 1 /\ c \in Nat
      BY <1>2, <1>11, <2>1, TableNumbers DEF ToCopy, IInv, Chained
    <2>3. PICK i \in 0 .. Cap(c) - 1 : Waiting(th, table, c, i) /\ d[c][i] = Final(w)
      BY <1>11, <2>1 DEF ToCopy
    <2>4. c # p
      BY <1>10, <2>3
    <2>5. latest # o.latest
      BY <1>3, <2>2, <2>4
    <2>6. tb[latest].prev = c
      BY <1>1, <1>2, <1>7, <2>1, <2>5
    <2>7. tb[c].moved = table[c].moved
      BY <1>1, <1>6, <1>7, <2>2
    <2>8. \A u \in Threads : Holding(th[u]) => q[u] = th[u]
      BY <1>1, <1>2, <1>3, <1>4 DEF Holding
    <2>9. Waiting(q, tb, c, i)
      BY <2>3, <2>7, <2>8 DEF Waiting
    <2> QED
      BY <1>3, <2>2, <2>3, <2>6, <2>9, TableNumbers DEF ToCopy
  <1>12. Onward(o, r, latest)
    <2>1. \A n \in Tables : InTable(r, n) => InTable(o, n)
      BY <1>2, <1>3, <1>5 DEF InTable, Early, RawIntern, Detaching
    <2>2. \A n \in Tables : Open(r, n) => Open(o, n)
      BY <1>2, <1>5 DEF Open, Early, Probing, Detaching
    <2>3. \A n \in Tables : ~Settled(r, n)
      BY <1>5 DEF Settled
    <2> QED
      BY <1>5, <2>1, <2>2, <2>3 DEF Onward, Owning, Deciding
  <1>13. \A w : ~Ready(o, latest, w)
    BY <1>2 DEF Ready, Owning, Deciding
  <1>14. RightKeys(got)
    BY DEF CInv, WInv
  <1>15. /\ th' = q /\ Data(table') = d /\ table' = tb /\ UNCHANGED latest /\ got' = got
         /\ Onward(th[t], r, latest) /\ \A w : ~Ready(th[t], latest, w)
    BY <1>1, <1>2, <1>7, <1>12, <1>13
  <1> QED
    BY <1>1, <1>4, <1>8, <1>9, <1>11, <1>14, <1>15, SoundMove

-----------------------------------------------------------------------------
(* The returns                                                              *)

\* What a thread may leave nbhs_raw_intern with: a pointer it has found, or has put.
Leaves(o, d, w) ==
    /\ o.pc \in RawIntern \ Owning /\ w \in Vals /\ Key[w] = Key[o.v] /\ In(d, o.cur, w)
    /\ Open(o, o.cur) \/ (Settled(o, o.cur) /\ o.result = w)

\* The entry is in the latest table, so the copying loop goes on to the next one.
LEMMA LeaveCopied ==
    ASSUME IInv, HInv, CInv, NEW t \in Threads, th[t].slot = 2, NEW w,
           Leaves(th[t], Data(table), w), Leave(t, w), UNCHANGED <<latest, table>>
    PROVE  CInv'
  <1>1. PICK o, d, r, q, p : o = th[t] /\ d = Data(table) /\ r = th'[t] /\ q = th' /\ p = o.prev
    OBVIOUS
  <1>2. /\ Placed(o, latest, table) /\ IsThread(o) /\ Knows(o, d) /\ th = [u \in Threads |-> th[u]]
        /\ UNCHANGED <<latest, table, got>> /\ Local(o, hazard[t]) /\ latest \in Tables
        /\ o.slot = 2 /\ o.pc \in RawIntern \ Owning /\ o.cur \in Tables
    BY <1>1, Rows DEF IInv, Placed, CInv, WInv, Leave, Leaves
  <1>3. o.latest = latest /\ table[latest].prev = p /\ o.cur = latest
    BY <1>1, <1>2, HoldersAreLatest DEF Holding, Local
  <1>4. /\ o.val \in Vals /\ o.j = 0 /\ o.old = Nil /\ o.at \in Nat /\ o.lo <= o.at /\ o.at < o.hi
        /\ o.lo \in Nat /\ o.hi \in Nat /\ d[p][o.at] = Final(o.v) /\ p \in Tables
    BY <1>1, <1>2 DEF Placed, Knows, Owning, Deciding, Holding, RawIntern
  <1>5. PICK x : x = o.at + 1
    OBVIOUS
  <1>6. PICK m : m = Enter(o, NoTable, Nil, 0)
    OBVIOUS
  <1>7. q = [th EXCEPT ![t] = r] /\ r = [m EXCEPT !.pc = "copy", !.at = @ + 1, !.curr = NoTable]
    BY <1>1, <1>2, <1>6 DEF Leave
  <1>8. /\ IsThread(m) /\ m.at = o.at /\ m.hi = o.hi /\ m.lo = o.lo /\ m.prev = p /\ m.val = o.val
        /\ m.latest = latest /\ m.j = 0 /\ m.old = Nil /\ m.slot = 0
    BY <1>1, <1>2, <1>3, <1>4, <1>6 DEF IsThread, Enter
  <1>9. /\ r.pc = "copy" /\ r.at = x /\ r.hi = o.hi /\ r.lo = o.lo /\ r.prev = p /\ r.val = o.val
        /\ r.latest = latest /\ r.j = 0 /\ r.old = Nil /\ r.slot = 0
    BY <1>5, <1>7, <1>8 DEF IsThread
  <1>10. x \in Nat /\ o.lo <= x /\ x <= o.hi
    BY <1>4, <1>5
  <1>11. Knows(r, d)
    BY <1>4, <1>9, <1>10 DEF Knows, RawIntern, Probing, Owning, Deciding, Holding
  <1>12. Onward(o, r, latest)
    <2>1. \A n \in Tables : InTable(r, n) => n = latest
      BY <1>9 DEF InTable, RawIntern
    <2>2. \A n \in Tables : Open(r, n) => n = latest
      BY <1>9 DEF Open, Probing
    <2>3. \A n \in Tables : ~Settled(r, n)
      BY <1>9 DEF Settled
    <2> QED
      BY <1>9, <2>1, <2>2, <2>3 DEF Onward, Owning, Deciding
  <1>13. \A y : ~Ready(o, latest, y)
    BY <1>2 DEF Ready
  <1>14. ASSUME NEW y \in Vals, ToCopy(th, latest, table, d, y), Holds(th, latest, table, d, y)
         PROVE  ToCopy(q, latest, table, d, y) \/ In(d, latest, y)
    <2>1. PICK i \in 0 .. Cap(p) - 1 : Waiting(th, table, p, i) /\ d[p][i] = Final(y)
      BY <1>3, <1>14 DEF ToCopy
    <2>2. CASE i = o.at
      <3>1. y = o.v
        BY <1>4, <2>1, <2>2, WordsDiffer
      <3>2. PICK k \in 0 .. Cap(latest) - 1 :
              d[latest][k] = Final(w) /\ w \in Vals /\ Key[w] = Key[y]
        BY <1>1, <1>3, <3>1 DEF Leaves, In
      <3>3. d[latest][k] # Empty /\ Key[d[latest][k].p] = Key[y]
        BY <3>2, WordsDiffer
      <3>4. ~Lacks(d, latest, Key[y])
        BY <3>3 DEF Lacks
      <3>5. \A u \in Threads : ~Ready(th[u], latest, y)
        <4> SUFFICES ASSUME NEW u \in Threads, Ready(th[u], latest, y)
                     PROVE  FALSE
          OBVIOUS
        <4>1. PICK a : a = th[u]
          OBVIOUS
        <4>2. Knows(a, d) /\ Ready(a, latest, y) /\ Tidy(d[latest], latest)
          BY <1>1, <1>2, <4>1 DEF CInv, WInv, Tidied
        <4>3. /\ a.cur = latest /\ a.pc \in Owning /\ Key[a.v] = Key[y] /\ a.v \in Vals
              /\ a.i \in 0 .. Cap(latest) - 1 /\ d[latest][Spot(a)] = Reserved(a.v)
          BY <4>2 DEF Ready, Knows, RawIntern, Owning, Deciding
        <4>4. a.i \in Nat
          BY <1>2, <4>3, CapIsNat
        <4>5. Spot(a) \in 0 .. Cap(latest) - 1
          BY <1>2, <4>3, <4>4, PlaceIsIn DEF Spot
        <4>6. d[latest][Spot(a)] # Empty /\ Key[d[latest][Spot(a)].p] = Key[y]
          BY <4>3, WordsDiffer
        <4>7. Spot(a) = k
          BY <1>2, <3>3, <4>2, <4>5, <4>6, OneEach
        <4> QED
          BY <3>2, <4>3, <4>7, WordsDiffer
      <3> QED
        BY <1>14, <3>4, <3>5 DEF Holds
    <2>3. CASE i # o.at
      <3>1. \A u \in Threads : q[u] = IF u = t THEN r ELSE th[u]
        BY <1>2, <1>7
      <3>2. Waiting(q, table, p, i)
        <4>1. CASE table[p].moved <= i
          BY <4>1 DEF Waiting
        <4>2. ASSUME NEW u \in Threads, Holding(th[u]), th[u].prev = p,
                     i \in th[u].at .. th[u].hi - 1
              PROVE  Waiting(q, table, p, i)
          <5>1. CASE u # t
            BY <3>1, <4>2, <5>1 DEF Waiting
          <5>2. CASE u = t
            <6>1. i \in x .. r.hi - 1
              BY <1>1, <1>4, <1>5, <1>9, <2>3, <4>2, <5>2
            <6> QED
              BY <1>9, <3>1, <6>1 DEF Waiting, Holding
          <5> QED
            BY <5>1, <5>2
        <4> QED
          BY <2>1, <4>1, <4>2 DEF Waiting
      <3>3. p # NoTable
        BY <1>4, TableNumbers
      <3> QED
        BY <1>3, <2>1, <3>2, <3>3 DEF ToCopy
    <2> QED
      BY <2>2, <2>3
  <1>15. /\ th' = q /\ Data(table') = d /\ table' = table /\ UNCHANGED latest /\ got' = got
         /\ Onward(th[t], r, latest) /\ \A y : ~Ready(th[t], latest, y)
    BY <1>1, <1>2, <1>12, <1>13
  <1>16. Unclaimed(latest, table) /\ RightKeys(got)
    BY DEF CInv, WInv
  <1> QED
    BY <1>1, <1>7, <1>11, <1>14, <1>15, <1>16, SoundMove

\* nbhs_intern returns a pointer that is in the latest table, or that another thread is to
\* copy there.
LEMMA LeaveReturns ==
    ASSUME IInv, CInv, NEW t \in Threads, th[t].slot # 2, NEW w,
           Leaves(th[t], Data(table), w), Leave(t, w), UNCHANGED <<latest, table>>
    PROVE  CInv'
  <1>1. PICK o, d, r, q, g : o = th[t] /\ d = Data(table) /\ r = Outside /\ q = th' /\ g = got'
    OBVIOUS
  <1>2. /\ Placed(o, latest, table) /\ Knows(o, d) /\ latest \in Tables /\ latest \in Nat
        /\ o.pc \in RawIntern \ Owning
    BY <1>1, TableNumbers DEF IInv, CInv, WInv, Leaves
  <1>3. /\ o.slot = 0 /\ o.cur \in Tables /\ o.cur <= latest /\ o.cur \in Nat
        /\ o.v = o.val /\ o.val \in Vals
    BY <1>1, <1>2, TableNumbers DEF Placed, Knows
  <1>4. /\ q = [th EXCEPT ![t] = r] /\ g = [got EXCEPT ![o.val] = w]
    BY <1>1 DEF Leave
  <1>5. /\ r.pc = "outside" /\ r.slot = 0 /\ r.j = 0 /\ r.old = Nil
    BY <1>1 DEF Outside
  <1>6. Knows(r, d)
    BY <1>5 DEF Knows, RawIntern, Probing, Owning, Deciding, Holding
  <1>7. Onward(o, r, latest)
    BY <1>5 DEF Onward, InTable, Open, Settled, Early, Detaching, RawIntern, Probing, Owning,
                Deciding
  <1>8. \A y : ~Ready(o, latest, y)
    BY <1>2 DEF Ready
  <1>9. RightKeys(got) /\ Unclaimed(latest, table)
    BY DEF CInv, WInv
  <1>10. \A v \in Vals : g[v] = IF v = o.val THEN w ELSE got[v]
    BY <1>3, <1>4, <1>9 DEF RightKeys
  <1>11. RightKeys(g)
    <2>1. g = [v \in Vals |-> g[v]]
      BY <1>4, <1>9 DEF RightKeys
    <2> QED
      BY <1>1, <1>3, <1>9, <1>10, <2>1 DEF RightKeys, Leaves
  <1>12. Fixed(th, latest, d, got, w) \/ In(d, latest, w)
    <2>1. InTable(o, o.cur)
      BY <1>2 DEF InTable
    <2>2. latest <= o.cur + 1
      BY <1>1, <1>3, <2>1 DEF CInv, Lag
    <2>3. CASE o.cur = latest
      BY <1>1, <2>3 DEF Leaves
    <2>4. CASE o.cur + 1 = latest
      <3>1. MayReturn(o, latest, d, w)
        BY <1>1, <1>3, <2>4 DEF MayReturn, Leaves
      <3> QED
        BY <1>1, <3>1 DEF Fixed
    <2> QED
      BY <1>2, <1>3, <2>2, <2>3, <2>4
  <1>13. \A v \in Vals : g[v] # got[v] => Fixed(th, latest, d, got, g[v]) \/ In(d, latest, g[v])
    BY <1>10, <1>12
  <1>14. ASSUME NEW y \in Vals, ToCopy(th, latest, table, d, y)
         PROVE  ToCopy(q, latest, table, d, y)
    <2>1. \A u \in Threads : Holding(th[u]) => q[u] = th[u]
      BY <1>1, <1>2, <1>3, <1>4 DEF Holding, IInv, RawIntern
    <2>2. \A n, i : Waiting(th, table, n, i) => Waiting(q, table, n, i)
      BY <2>1 DEF Waiting
    <2> QED
      BY <1>14, <2>2 DEF ToCopy
  <1>15. /\ th' = q /\ Data(table') = d /\ table' = table /\ UNCHANGED latest /\ got' = g
         /\ Onward(th[t], r, latest) /\ \A y : ~Ready(th[t], latest, y)
    BY <1>1, <1>7, <1>8
  <1> QED
    BY <1>1, <1>4, <1>6, <1>9, <1>11, <1>13, <1>14, <1>15, SoundMove

\* A pointer that a probe has come to may be returned.
LEMMA LeaveFound ==
    ASSUME IInv, HInv, CInv, NEW t \in Threads, th[t].pc \in Probing, NEW e,
           e = Data(table)[th[t].cur][Spot(th[t])], e # Empty, ~e.reserved,
           Key[e.p] = Key[th[t].v], Leave(t, e.p), UNCHANGED <<latest, table>>
    PROVE  CInv'
  <1>1. PICK o, d, w : o = th[t] /\ d = Data(table) /\ w = e.p
    OBVIOUS
  <1>2. /\ Placed(o, latest, table) /\ Knows(o, d) /\ o.cur \in Tables
        /\ o.pc \in RawIntern \ Owning
    BY <1>1 DEF IInv, Placed, CInv, WInv, Probing, RawIntern, Owning, Deciding
  <1>3. /\ o.i \in 0 .. Cap(o.cur) - 1 /\ o.v \in Vals
    BY <1>1, <1>2 DEF Knows
  <1>4. o.i \in Nat
    BY <1>2, <1>3, CapIsNat
  <1>5. Spot(o) \in 0 .. Cap(o.cur) - 1
    BY <1>2, <1>3, <1>4, PlaceIsIn DEF Spot
  <1>6. w \in Vals /\ e = Final(w)
    <2>1. AreWords(d[o.cur], o.cur)
      BY <1>1, <1>2 DEF CInv, WInv, Tidied
    <2>2. PICK v \in Vals : e \in {Reserved(v), Final(v)}
      BY <1>1, <1>5, <2>1 DEF AreWords
    <2>3. e = Final(v) /\ Final(v).p = v
      BY <2>2, WordsDiffer
    <2> QED
      BY <1>1, <2>3
  <1>7. In(d, o.cur, w)
    BY <1>1, <1>5, <1>6 DEF In
  <1>8. Leaves(o, d, w)
    BY <1>1, <1>2, <1>6, <1>7 DEF Leaves, Open
  <1> QED
    BY <1>1, <1>8, LeaveCopied, LeaveReturns

LEMMA ProbeKeeps ==
    ASSUME IInv, HInv, CInv, RetriesFit, NEW t \in Threads,
           Probe(t) \/ WaitEntry(t) \/ (Reserve(t) /\ Here(t) # Empty)
    PROVE  CInv'
  <1>1. PICK o, d, e : o = th[t] /\ d = Data(table) /\ e = Here(t)
    OBVIOUS
  <1>2. /\ Placed(o, latest, table) /\ IsThread(o) /\ Knows(o, d) /\ th = [u \in Threads |-> th[u]]
        /\ o.pc \in Probing /\ UNCHANGED <<latest, table>>
    BY <1>1 DEF IInv, Placed, CInv, WInv, Probe, WaitEntry, Reserve, Probing
  <1>3. o.cur \in Tables /\ o.pc \in RawIntern
    BY <1>2 DEF Placed, Probing, RawIntern
  <1>4. e = d[o.cur][Spot(o)]
    BY <1>1, <1>3 DEF Here, Data, Spot
  <1>5. CASE e = Empty
    <2>1. PICK r : r = th'[t]
      OBVIOUS
    <2>2. o.pc # "wait"
      BY <1>2, <1>4, <1>5 DEF Knows
    <2>3. /\ th' = [th EXCEPT ![t] = r] /\ r = [o EXCEPT !.pc = "reserve"] /\ UNCHANGED got
          /\ o.pc = "probe"
      BY <1>1, <1>2, <1>5, <2>1, <2>2 DEF Probe, WaitEntry
    <2>4. /\ r.pc = "reserve" /\ r.val = o.val /\ r.latest = o.latest /\ r.prev = o.prev
          /\ r.lo = o.lo /\ r.hi = o.hi /\ r.at = o.at /\ r.v = o.v /\ r.cur = o.cur
          /\ r.slot = o.slot /\ r.result = o.result /\ r.curr = o.curr /\ r.j = o.j
          /\ r.old = o.old /\ r.i = o.i
      BY <1>2, <2>3 DEF IsThread
    <2>5. Knows(r, d)
      BY <1>2, <2>3, <2>4 DEF Knows, RawIntern, Probing, Owning, Deciding, Holding
    <2>6. /\ r.pc \in RawIntern \ {"grow", "settle"} /\ r.pc \notin Owning /\ r.pc # "swap"
          /\ Open(o, o.cur) /\ \A w : ~Ready(o, latest, w)
      BY <2>3, <2>4 DEF RawIntern, Owning, Deciding, Open, Probing, Ready
    <2>7. /\ UNCHANGED <<latest, got>> /\ Data(table') = Data(table)
          /\ \A n \in Tables : table'[n].prev = table[n].prev /\ table'[n].moved = table[n].moved
      BY <1>2, <2>3
    <2>8. /\ o = th[t] /\ th' = [th EXCEPT ![t] = r] /\ o.pc \in RawIntern
          /\ Knows(r, Data(table)) /\ r.pc \notin Owning
      BY <1>1, <1>3, <2>3, <2>5, <2>6
    <2> QED
      BY <2>4, <2>6, <2>7, <2>8, RawMove
  <1>6. CASE e # Empty
    <2>1. CASE WaitEntry(t)
      <3>1. o.pc = "wait" /\ ~e.reserved /\ Leave(t, e.p)
        BY <1>1, <2>1 DEF WaitEntry
      <3>2. Key[e.p] = Key[o.v]
        BY <1>2, <1>4, <3>1 DEF Knows
      <3> QED
        BY <1>1, <1>2, <1>4, <1>6, <3>1, <3>2, LeaveFound
    <2>2. CASE ~WaitEntry(t)
      <3>1. TryEntry(t, e) /\ o.pc \in {"probe", "reserve"}
        BY <1>1, <1>6, <2>2 DEF Probe, Reserve
      <3>2. CASE Key[e.p] # Key[o.v] \/ e.reserved
        BY <1>1, <1>2, <1>4, <1>6, <3>1, <3>2, TryEntryStays
      <3>3. CASE Key[e.p] = Key[o.v] /\ ~e.reserved
        <4>1. Leave(t, e.p)
          BY <1>1, <3>1, <3>3 DEF TryEntry
        <4> QED
          BY <1>1, <1>2, <1>4, <1>6, <3>3, <4>1, LeaveFound
      <3> QED
        BY <3>2, <3>3
    <2> QED
      BY <2>1, <2>2
  <1> QED
    BY <1>5, <1>6

LEMMA SettleKeeps ==
    ASSUME IInv, HInv, CInv, NEW t \in Threads, Settle(t)
    PROVE  CInv'
  <1>1. CASE th[t].cur # th[t].curr \/ th[t].result = Nil
    BY <1>1, RetryKeeps
  <1>2. CASE th[t].cur = th[t].curr /\ th[t].result # Nil
    <2>1. PICK o, d, w : o = th[t] /\ d = Data(table) /\ w = th[t].result
      OBVIOUS
    <2>2. Knows(o, d) /\ o.pc = "settle"
      BY <2>1 DEF CInv, WInv, Settle
    <2>3. w \in Vals /\ Key[w] = Key[o.v] /\ In(d, o.cur, w)
      BY <1>2, <2>1, <2>2 DEF Knows
    <2>4. Leaves(o, d, w)
      BY <1>2, <2>1, <2>2, <2>3 DEF Leaves, Settled, RawIntern, Owning, Deciding
    <2>5. Leave(t, w) /\ UNCHANGED <<latest, table>>
      BY <1>2, <2>1 DEF Settle
    <2> QED
      BY <2>1, <2>4, <2>5, LeaveCopied, LeaveReturns
  <1> QED
    BY <1>1, <1>2

-----------------------------------------------------------------------------
(* The words that are written                                               *)

\* Word x of table c is set to e.
Sets(tb, c, x, e) == c \in Tables /\ tb = [table EXCEPT ![c].data[x] = e]

\* What tb then is.
SetTo(tb, c, x, e) ==
    /\ Data(tb)[c] = [Data(table)[c] EXCEPT ![x] = e]
    /\ \A n \in Tables : n # c => Data(tb)[n] = Data(table)[n]
    /\ \A n \in Tables : tb[n].prev = table[n].prev /\ tb[n].moved = table[n].moved

LEMMA Written ==
    ASSUME IInv, NEW c, NEW x, NEW e, NEW tb, Sets(tb, c, x, e)
    PROVE  SetTo(tb, c, x, e)
  <1>1. PICK a, b : a = table[c] /\ b = [a EXCEPT !.data = [a.data EXCEPT ![x] = e]]
    OBVIOUS
  <1>2. IsTable(a, c) /\ tb = [table EXCEPT ![c] = b]
    BY <1>1 DEF IInv, Sets
  <1>3. b.data = [a.data EXCEPT ![x] = e] /\ b.prev = a.prev /\ b.moved = a.moved
    BY <1>1, <1>2 DEF IsTable
  <1>4. tb[c] = b /\ \A n \in Tables : n # c => tb[n] = table[n]
    BY <1>2 DEF IInv, Sets
  <1>5. Data(tb)[c] = b.data /\ Data(table)[c] = a.data
    BY <1>1, <1>4 DEF Data, Sets
  <1>6. \A n \in Tables : n # c => Data(tb)[n] = Data(table)[n]
    BY <1>4 DEF Data
  <1>7. \A n \in Tables : tb[n].prev = table[n].prev /\ tb[n].moved = table[n].moved
    BY <1>1, <1>3, <1>4
  <1> QED
    BY <1>3, <1>5, <1>6, <1>7 DEF SetTo

\* Thread t writes to table c, so that the words are f, and goes on as r.
Writes(t, r, f, c) ==
    /\ c \in Tables /\ c <= latest /\ \A n \in Tables : n # c => f[n] = Data(table)[n]
    /\ AreWords(f[c], c) /\ Tidy(f[c], c) /\ Grows(Data(table)[c], f[c], c) /\ Knows(r, f)
    /\ \A u \in Threads : u # t /\ th[u].pc \in Owning /\ th[u].cur = c =>
         f[c][Spot(th[u])] = Reserved(th[u].v)

LEMMA WordsGrow ==
    ASSUME IInv, WInv, NEW t \in Threads, NEW r, NEW f, NEW c, Writes(t, r, f, c),
           NEW q, q = [th EXCEPT ![t] = r]
    PROVE  /\ \A n \in Tables : Grows(Data(table)[n], f[n], n)
           /\ Tidied(f) /\ Unused(latest, f) /\ \A u \in Threads : Knows(q[u], f)
  <1> USE DEF Writes
  <1>1. \A n \in Tables : Grows(Data(table)[n], f[n], n)
    BY DEF Grows
  <1>2. Tidied(f)
    BY DEF WInv, Tidied
  <1>3. Unused(latest, f)
    <2>1. \A n \in Tables : n > latest => n # c
      BY TableNumbers DEF IInv
    <2> QED
      BY <2>1 DEF WInv, Unused
  <1>4. ASSUME NEW u \in Threads
        PROVE  Knows(q[u], f)
    <2>1. CASE u = t
      BY <2>1 DEF IInv
    <2>2. CASE u # t
      <3>1. q[u] = th[u]
        BY <2>2 DEF IInv
      <3>2. th[u].pc \in Owning => f[th[u].cur][Spot(th[u])] = Reserved(th[u].v)
        <4> SUFFICES ASSUME th[u].pc \in Owning
                     PROVE  f[th[u].cur][Spot(th[u])] = Reserved(th[u].v)
          OBVIOUS
        <4>1. th[u].cur \in Tables
          BY DEF IInv, Placed, Owning, Deciding, RawIntern
        <4>2. Data(table)[th[u].cur][Spot(th[u])] = Reserved(th[u].v)
          BY DEF WInv, Knows
        <4> QED
          BY <2>2, <4>1, <4>2
      <3>3. Knows(th[u], f)
        BY <1>1, <3>2, StillKnows
      <3> QED
        BY <3>1, <3>3
    <2> QED
      BY <2>1, <2>2
  <1> QED
    BY <1>1, <1>2, <1>3, <1>4

\* It does not open or settle in a table that way, and still holds its batch; what the latest
\* table lacks, t has put in it or looks for.
Passes(t, r, f, tb) ==
    /\ InTable(th[t], r.cur) /\ SameHolding(th[t], r)
    /\ \A n \in Tables : ~Open(r, n) /\ ~Settled(r, n)
    /\ \A n \in Tables : tb[n].prev = table[n].prev /\ tb[n].moved = table[n].moved
    /\ \A w \in Vals : Lacks(Data(table), latest, Key[w]) \/ Ready(th[t], latest, w) =>
         In(f, latest, w) \/ Lacks(f, latest, Key[w]) \/ Ready(r, latest, w)

\* What is fixed stays where it is: in the latest table, or in the one before it, where then
\* nobody else is.
LEMMA ValuesGrow ==
    ASSUME IInv, CInv, NEW t \in Threads, NEW r, NEW f, Writes(t, r, f, r.cur),
           NEW tb, Passes(t, r, f, tb), NEW q, q = [th EXCEPT ![t] = r]
    PROVE  Values(q, latest, tb, f, got)
  <1>0. \A n \in Tables : Grows(Data(table)[n], f[n], n)
    BY WordsGrow DEF CInv
  <1> USE DEF Writes, Passes
  <1> SUFFICES ASSUME NEW w \in Vals, Fixed(q, latest, f, got, w)
               PROVE  Holds(q, latest, tb, f, w)
    BY DEF Values
  <1>1. /\ \A u \in Threads : q[u] = IF u = t THEN r ELSE th[u]
        /\ latest \in Tables /\ latest \in Nat
    BY TableNumbers DEF IInv
  <1>2. ASSUME NEW u \in Threads, MayReturn(q[u], latest, f, w)
        PROVE  MayReturn(th[u], latest, Data(table), w)
    <2>1. PICK p \in Tables : /\ p + 1 = latest
                              /\ \/ Open(q[u], p) /\ In(f, p, w)
                                 \/ Settled(q[u], p) /\ q[u].result = w
      BY <1>2 DEF MayReturn
    <2>2. u # t /\ q[u] = th[u] /\ p # latest
      <3>1. u # t
        BY <1>1, <2>1
      <3>2. p # latest
        BY <1>1, <2>1, TableNumbers
      <3> QED
        BY <1>1, <3>1, <3>2
    <2>3. InTable(th[u], p)
      BY <2>1, <2>2 DEF Open, Settled, InTable, Probing, RawIntern, Early, Detaching
    <2>4. p # r.cur
      BY <2>2, <2>3 DEF CInv, OneStale
    <2>5. f[p] = Data(table)[p]
      BY <2>4
    <2> QED
      BY <2>1, <2>2, <2>5 DEF MayReturn, In
  <1>3. Fixed(th, latest, Data(table), got, w)
    BY <1>2 DEF Fixed
  <1>4. Holds(th, latest, table, Data(table), w)
    BY <1>3 DEF CInv, Values
  <1>5. CASE In(Data(table), latest, w)
    BY <1>0, <1>1, <1>5 DEF In, Grows, Holds
  <1>6. CASE ~In(Data(table), latest, w)
    <2>1. /\ ToCopy(th, latest, table, Data(table), w)
          /\ Lacks(Data(table), latest, Key[w]) \/ \E u \in Threads : Ready(th[u], latest, w)
      BY <1>4, <1>6 DEF Holds
    <2>2. ToCopy(q, latest, tb, f, w)
      <3>1. PICK p : p = table[latest].prev
        OBVIOUS
      <3>2. p # NoTable /\ p \in Tables /\ tb[latest].prev = p
        BY <1>1, <2>1, <3>1 DEF ToCopy, IInv, Chained
      <3>3. PICK i \in 0 .. Cap(p) - 1 : Waiting(th, table, p, i) /\ Data(table)[p][i] = Final(w)
        BY <2>1, <3>1 DEF ToCopy
      <3>4. f[p][i] = Final(w)
        BY <1>0, <3>2, <3>3 DEF Grows
      <3>5. \A u \in Threads : Holding(th[u]) /\ th[u].prev = p
              /\ i \in th[u].at .. th[u].hi - 1 =>
                 Holding(q[u]) /\ q[u].prev = p /\ i \in q[u].at .. q[u].hi - 1
        BY <1>1 DEF SameHolding
      <3>6. Waiting(q, tb, p, i)
        BY <3>2, <3>3, <3>5 DEF Waiting
      <3> QED
        BY <3>2, <3>4, <3>6 DEF ToCopy
    <2>3. CASE \E u \in Threads : u # t /\ Ready(th[u], latest, w)
      <3>1. \E u \in Threads : Ready(q[u], latest, w)
        BY <1>1, <2>3
      <3> QED
        BY <2>2, <3>1 DEF Holds
    <2>4. CASE Lacks(Data(table), latest, Key[w]) \/ Ready(th[t], latest, w)
      <3>1. Ready(r, latest, w) => Ready(q[t], latest, w)
        BY <1>1
      <3> QED
        BY <2>2, <2>4, <3>1 DEF Holds
    <2> QED
      BY <2>1, <2>3, <2>4
  <1> QED
    BY <1>5, <1>6

\* From the values that stay to the invariant, when t writes to the table it probes.
LEMMA WriteMove ==
    ASSUME IInv, CInv, NEW t \in Threads, NEW r, NEW q, q = [th EXCEPT ![t] = r], th' = q,
           NEW f, NEW tb, table' = tb, Data(tb) = f, UNCHANGED <<latest, got>>,
           \A n \in Tables : tb[n].moved = table[n].moved,
           th[t].pc \in RawIntern, r.pc \in RawIntern \ {"grow", "swap", "settle"},
           r.cur = th[t].cur, r.slot = th[t].slot, r.latest = th[t].latest,
           Tidied(f), Unused(latest, f), \A u \in Threads : Knows(q[u], f), Owners(q),
           Values(q, latest, tb, f, got)
    PROVE  CInv'
  <1>1. \A n \in Tables : InTable(r, n) => InTable(th[t], n)
    BY DEF InTable, Early, Detaching, RawIntern
  <1>2. Lag(q, latest) /\ OneStale(q, latest)
    BY <1>1, StaleStays DEF CInv
  <1>3. Unclaimed(latest, tb) /\ RightKeys(got)
    BY DEF CInv, WInv, Unclaimed
  <1>4. WInv'
    <2>1. /\ Tidied(Data(table')) /\ \A u \in Threads : Knows(th'[u], Data(table'))
          /\ Owners(th') /\ Unused(latest', Data(table')) /\ Unclaimed(latest', table')
          /\ RightKeys(got')
      BY <1>3
    <2> QED
      BY <2>1 DEF WInv
  <1>5. /\ Lag(th', latest') /\ OneStale(th', latest')
        /\ Values(th', latest', table', Data(table'), got')
    BY <1>2
  <1> QED
    BY <1>4, <1>5 DEF CInv

LEMMA ReserveKeeps ==
    ASSUME IInv, HInv, CInv, NEW t \in Threads, Reserve(t), Here(t) = Empty
    PROVE  CInv'
  <1>1. PICK o, d, r, q, tb, c, x : /\ o = th[t] /\ d = Data(table) /\ r = th'[t] /\ q = th'
                                    /\ tb = table' /\ c = o.cur /\ x = Spot(o)
    OBVIOUS
  <1>2. PICK f, e : f = Data(tb) /\ e = Reserved(o.v)
    OBVIOUS
  <1>3. /\ Placed(o, latest, table) /\ IsThread(o) /\ Knows(o, d) /\ th = [u \in Threads |-> th[u]]
        /\ o.pc = "reserve" /\ UNCHANGED <<latest, got>>
    BY <1>1 DEF IInv, Placed, CInv, WInv, Reserve
  <1>4. /\ c \in Tables /\ c <= latest /\ o.v \in Vals /\ o.i \in 0 .. Cap(c) - 1
        /\ Reached(d[c], c, Key[o.v], o.i) /\ o.j = 0 /\ o.old = Nil
    BY <1>1, <1>3 DEF Placed, Knows, RawIntern, Probing, Deciding
  <1>5. d[c][x] = Empty
    BY <1>1, <1>4 DEF Here, Spot, Data
  <1>6. /\ tb = [table EXCEPT ![c].data[x] = e] /\ q = [th EXCEPT ![t] = r]
        /\ r = [o EXCEPT !.pc = "older"]
    BY <1>1, <1>2, <1>3 DEF Reserve, Spot
  <1>7. /\ r.pc = "older" /\ r.val = o.val /\ r.latest = o.latest /\ r.prev = o.prev
        /\ r.lo = o.lo /\ r.hi = o.hi /\ r.at = o.at /\ r.v = o.v /\ r.cur = o.cur
        /\ r.slot = o.slot /\ r.result = o.result /\ r.curr = o.curr /\ r.j = o.j
        /\ r.old = o.old /\ r.i = o.i
    BY <1>3, <1>6 DEF IsThread
  <1>8. /\ f[c] = [d[c] EXCEPT ![x] = e] /\ \A n \in Tables : n # c => f[n] = d[n]
        /\ \A n \in Tables : tb[n].prev = table[n].prev /\ tb[n].moved = table[n].moved
    <2>1. c \in Tables /\ table' = tb /\ tb = [table EXCEPT ![c].data[x] = e]
      BY <1>1, <1>4, <1>6
    <2>0. Sets(tb, c, x, e)
      BY <2>1 DEF Sets
    <2>2. SetTo(tb, c, x, e)
      BY <2>0, Written
    <2> QED
      BY <1>1, <1>2, <2>2 DEF SetTo
  <1>9. AreWords(d[c], c) /\ Tidy(d[c], c)
    BY <1>1, <1>4 DEF CInv, WInv, Tidied
  <1>10. PICK b, a : b = d[c] /\ a = f[c]
    OBVIOUS
  <1>11. /\ AreWords(a, c) /\ Tidy(a, c) /\ Grows(b, a, c) /\ a[x] = e /\ x \in 0 .. Cap(c) - 1
    <2>1. x = Place(c, Key[o.v], o.i) /\ Reached(b, c, Key[o.v], o.i)
      BY <1>1, <1>4, <1>10 DEF Spot
    <2>2. e \in {Reserved(o.v), Final(o.v)} /\ a = [b EXCEPT ![x] = e] /\ b[x] = Empty
      BY <1>2, <1>5, <1>8, <1>10
    <2>3. AreWords(b, c) /\ Tidy(b, c)
      BY <1>9, <1>10
    <2>4. PutAt(c, b, o.v, o.i, x, e, a)
      BY <1>4, <2>1, <2>2, <2>3 DEF PutAt
    <2> QED
      BY <1>4, <2>4, Put
  <1>12. o.i \in Nat /\ Spot(r) = x
    BY <1>1, <1>4, <1>7, CapIsNat DEF Spot
  <1>13. Knows(r, f)
    <2>1. Reached(f[c], c, Key[o.v], o.i)
      BY <1>4, <1>10, <1>11, <1>12, StillReached
    <2>2. r.slot = 2 => f[r.prev][r.at] = Final(r.v)
      <3> SUFFICES ASSUME r.slot = 2
                   PROVE  f[r.prev][r.at] = Final(r.v)
        OBVIOUS
      <3>1. o.prev \in Tables /\ d[o.prev][o.at] = Final(o.v) /\ o.latest = o.prev + 1
        BY <1>3, <1>7 DEF Placed, Holding, Knows
      <3>2. c = o.latest
        BY <1>1, <1>7, Rows, ZenonT(60) DEF Local
      <3>3. c # o.prev
        BY <3>1, <3>2, TableNumbers
      <3> QED
        BY <1>7, <1>8, <3>1, <3>3
    <2> QED
      <3>1. f[r.cur][Spot(r)] = Reserved(r.v)
        BY <1>1, <1>2, <1>7, <1>10, <1>11, <1>12
      <3>2. r.i \in 0 .. Cap(r.cur) - 1 /\ Reached(f[r.cur], r.cur, Key[r.v], r.i)
        BY <1>1, <1>4, <1>7, <2>1
      <3> QED
        BY <1>1, <1>3, <1>7, <2>2, <3>1, <3>2
        DEF Knows, RawIntern, Probing, Owning, Deciding, Holding
  <1>14. ASSUME NEW u \in Threads, u # t, th[u].pc \in Owning, th[u].cur = c
         PROVE  f[c][Spot(th[u])] = Reserved(th[u].v) /\ Key[th[u].v] # Key[o.v]
    <2>1. PICK w : w = th[u]
      OBVIOUS
    <2>2. Knows(w, d) /\ w.pc \in Owning /\ w.cur = c
      BY <1>1, <1>14, <2>1 DEF CInv, WInv
    <2>3. /\ b[Spot(w)] = Reserved(w.v) /\ w.v \in Vals /\ w.i \in 0 .. Cap(c) - 1
      BY <1>10, <2>2 DEF Knows, RawIntern, Owning, Deciding
    <2>4. Spot(w) \in 0 .. Cap(c) - 1
      <3>1. w.i \in Nat
        BY <1>4, <2>3, CapIsNat
      <3> QED
        BY <1>4, <2>2, <2>3, <3>1, PlaceIsIn DEF Spot
    <2>5. b[Spot(w)] # Empty /\ b[Spot(w)].p = w.v
      BY <2>3, WordsDiffer
    <2>6. Spot(w) # x
      BY <1>5, <1>10, <2>5
    <2>7. a[Spot(w)] = b[Spot(w)]
      BY <1>8, <1>9, <1>10, <2>4, <2>6 DEF AreWords
    <2>8. Key[w.v] # Key[o.v]
      <3> SUFFICES ASSUME Key[w.v] = Key[o.v]
                   PROVE  FALSE
        OBVIOUS
      <3>1. b[Place(c, Key[o.v], o.i)] # Empty
        BY <1>4, <1>9, <1>10, <1>12, <2>4, <2>5, Meets
      <3> QED
        BY <1>1, <1>5, <1>10, <3>1 DEF Spot
    <2> QED
      BY <1>10, <2>1, <2>3, <2>7, <2>8
  <1>15. /\ Writes(t, r, f, c)
         /\ Tidied(f) /\ Unused(latest, f) /\ \A u \in Threads : Knows(q[u], f)
    <2>1. \A u \in Threads : u # t /\ th[u].pc \in Owning /\ th[u].cur = c =>
            f[c][Spot(th[u])] = Reserved(th[u].v)
      BY <1>14
    <2>2. Writes(t, r, f, c)
      BY <1>1, <1>4, <1>8, <1>10, <1>11, <1>13, <2>1 DEF Writes
    <2> QED
      BY <1>1, <1>6, <2>2, WordsGrow DEF CInv
  <1>16. Owners(q)
    <2>1. \A u \in Threads : q[u] = IF u = t THEN r ELSE th[u]
      BY <1>3, <1>6
    <2>2. Owners(th)
      BY DEF CInv, WInv
    <2> QED
      BY <1>1, <1>7, <1>14, <2>1, <2>2 DEF Owners
  <1>17. SameHolding(o, r) /\ \A n \in Tables : ~Open(r, n) /\ ~Settled(r, n)
    BY <1>3, <1>7 DEF SameHolding, Holding, Open, Settled, Early, Detaching, Probing
  <1>18. ASSUME NEW w \in Vals, Lacks(d, latest, Key[w]) \/ Ready(o, latest, w)
         PROVE  Lacks(f, latest, Key[w]) \/ Ready(r, latest, w)
    <2>1. Lacks(d, latest, Key[w])
      BY <1>3, <1>18 DEF Ready, Owning, Deciding
    <2>2. CASE c # latest
      BY <1>8, <2>1, <2>2 DEF Lacks, IInv
    <2>3. CASE c = latest /\ Key[o.v] = Key[w]
      BY <1>1, <1>7, <2>3 DEF Ready, Owning, Deciding
    <2>4. CASE c = latest /\ Key[o.v] # Key[w]
      <3>1. \A i \in 0 .. Cap(c) - 1 : a[i] = IF i = x THEN e ELSE b[i]
        BY <1>8, <1>9, <1>10 DEF AreWords
      <3>2. e.p = o.v
        BY <1>2, WordsDiffer
      <3> QED
        BY <1>10, <2>1, <2>4, <3>1, <3>2 DEF Lacks
    <2> QED
      BY <2>2, <2>3, <2>4
  <1>19. InTable(o, c)
    BY <1>1, <1>3 DEF InTable, RawIntern
  <1>20. Values(q, latest, tb, f, got)
    <2>1. Passes(t, r, f, tb)
      BY <1>1, <1>7, <1>8, <1>17, <1>18, <1>19 DEF Passes
    <2>2. Writes(t, r, f, r.cur)
      BY <1>1, <1>7, <1>15
    <2> QED
      BY <1>6, <2>1, <2>2, ValuesGrow
  <1>21. /\ th[t].pc \in RawIntern /\ r.pc \in RawIntern \ {"grow", "swap", "settle"}
         /\ r.cur = th[t].cur /\ r.slot = th[t].slot /\ r.latest = th[t].latest
         /\ th' = q /\ table' = tb /\ Data(tb) = f
    BY <1>1, <1>2, <1>3, <1>7 DEF RawIntern
  <1>22. UNCHANGED <<latest, got>> /\ \A n \in Tables : tb[n].moved = table[n].moved
    BY <1>3, <1>8
  <1>23. Tidied(f) /\ Unused(latest, f) /\ \A u \in Threads : Knows(q[u], f)
    BY <1>15
  <1>24. q = [th EXCEPT ![t] = r]
    BY <1>6
  <1> QED
    BY <1>16, <1>20, <1>21, <1>22, <1>23, <1>24, WriteMove, ZenonT(60)

LEMMA CommitKeeps ==
    ASSUME IInv, HInv, CInv, NEW t \in Threads, Commit(t)
    PROVE  CInv'
  <1>1. PICK o, d, r, q, tb, c, x : /\ o = th[t] /\ d = Data(table) /\ r = th'[t] /\ q = th'
                                    /\ tb = table' /\ c = o.cur /\ x = Spot(o)
    OBVIOUS
  <1>2. PICK f, k, e : /\ f = Data(tb) /\ k = (IF o.old # Nil THEN o.old ELSE o.v)
                       /\ e = Final(k)
    OBVIOUS
  <1>3. /\ Placed(o, latest, table) /\ IsThread(o) /\ Knows(o, d) /\ th = [u \in Threads |-> th[u]]
        /\ o.pc = "commit" /\ UNCHANGED <<latest, got>>
    BY <1>1 DEF IInv, Placed, CInv, WInv, Commit
  <1>4. /\ c \in Tables /\ c <= latest /\ o.v \in Vals /\ o.i \in 0 .. Cap(c) - 1
        /\ Reached(d[c], c, Key[o.v], o.i) /\ o.j = 0 /\ d[c][x] = Reserved(o.v)
        /\ o.old = Nil \/ (o.old \in Vals /\ Key[o.old] = Key[o.v])
    BY <1>1, <1>3 DEF Placed, Knows, RawIntern, Owning, Deciding
  <1>5. k \in Vals /\ Key[k] = Key[o.v] /\ k # Nil
    BY <1>2, <1>4, NbhsAssumption
  <1>6. /\ tb = [table EXCEPT ![c].data[x] = e] /\ q = [th EXCEPT ![t] = r]
        /\ r = [o EXCEPT !.result = k, !.old = Nil, !.pc = "again"]
    BY <1>1, <1>2, <1>3 DEF Commit, Spot
  <1>7. /\ r.pc = "again" /\ r.val = o.val /\ r.latest = o.latest /\ r.prev = o.prev
        /\ r.lo = o.lo /\ r.hi = o.hi /\ r.at = o.at /\ r.v = o.v /\ r.cur = o.cur
        /\ r.slot = o.slot /\ r.result = k /\ r.curr = o.curr /\ r.j = o.j
        /\ r.old = Nil /\ r.i = o.i
    BY <1>3, <1>6 DEF IsThread
  <1>8. /\ f[c] = [d[c] EXCEPT ![x] = e] /\ \A n \in Tables : n # c => f[n] = d[n]
        /\ \A n \in Tables : tb[n].prev = table[n].prev /\ tb[n].moved = table[n].moved
    <2>1. Sets(tb, c, x, e)
      BY <1>1, <1>4, <1>6 DEF Sets
    <2>2. SetTo(tb, c, x, e)
      BY <2>1, Written
    <2> QED
      BY <1>1, <1>2, <2>2 DEF SetTo
  <1>9. AreWords(d[c], c) /\ Tidy(d[c], c)
    BY <1>1, <1>4 DEF CInv, WInv, Tidied
  <1>10. PICK b, a : b = d[c] /\ a = f[c]
    OBVIOUS
  <1>11. /\ AreWords(a, c) /\ Tidy(a, c) /\ Grows(b, a, c) /\ a[x] = e /\ x \in 0 .. Cap(c) - 1
    <2>1. x = Place(c, Key[k], o.i) /\ Reached(b, c, Key[k], o.i)
      BY <1>1, <1>4, <1>5, <1>10 DEF Spot
    <2>2. e \in {Reserved(k), Final(k)} /\ a = [b EXCEPT ![x] = e] /\ b[x] = Reserved(o.v)
      BY <1>2, <1>4, <1>8, <1>10
    <2>3. AreWords(b, c) /\ Tidy(b, c)
      BY <1>9, <1>10
    <2>4. b[x] = Empty \/ \E y : b[x] = Reserved(y) /\ Key[y] = Key[k]
      BY <1>5, <2>2
    <2>5. PutAt(c, b, k, o.i, x, e, a)
      BY <1>4, <1>5, <2>1, <2>2, <2>3, <2>4 DEF PutAt
    <2> QED
      BY <1>4, <2>5, Put
  <1>12. o.i \in Nat /\ Spot(r) = x
    BY <1>1, <1>4, <1>7, CapIsNat DEF Spot
  <1>13. Knows(r, f)
    <2>1. r.slot = 2 => f[r.prev][r.at] = Final(r.v)
      <3> SUFFICES ASSUME r.slot = 2
                   PROVE  f[r.prev][r.at] = Final(r.v)
        OBVIOUS
      <3>1. o.prev \in Tables /\ d[o.prev][o.at] = Final(o.v) /\ o.latest = o.prev + 1
        BY <1>3, <1>7 DEF Placed, Holding, Knows
      <3>2. c = o.latest
        BY <1>1, <1>7, Rows, ZenonT(60) DEF Local
      <3>3. c # o.prev
        BY <3>1, <3>2, TableNumbers
      <3> QED
        BY <1>7, <1>8, <3>1, <3>3
    <2>2. In(f, r.cur, r.result)
      BY <1>1, <1>2, <1>7, <1>10, <1>11 DEF In
    <2> QED
      BY <1>1, <1>3, <1>4, <1>5, <1>7, <2>1, <2>2
      DEF Knows, RawIntern, Probing, Owning, Deciding, Holding
  <1>14. ASSUME NEW u \in Threads, u # t, th[u].pc \in Owning, th[u].cur = c
         PROVE  f[c][Spot(th[u])] = Reserved(th[u].v)
    <2>1. PICK w : w = th[u]
      OBVIOUS
    <2>2. Knows(w, d) /\ w.pc \in Owning /\ w.cur = c
      BY <1>1, <1>14, <2>1 DEF CInv, WInv
    <2>3. /\ b[Spot(w)] = Reserved(w.v) /\ w.v \in Vals /\ w.i \in 0 .. Cap(c) - 1
      BY <1>10, <2>2 DEF Knows, RawIntern, Owning, Deciding
    <2>4. Spot(w) \in 0 .. Cap(c) - 1
      <3>1. w.i \in Nat
        BY <1>4, <2>3, CapIsNat
      <3> QED
        BY <1>4, <2>2, <2>3, <3>1, PlaceIsIn DEF Spot
    <2>5. Key[w.v] # Key[o.v]
      <3>1. o.pc \in Owning
        BY <1>3 DEF Owning, Deciding
      <3> QED
        BY <1>1, <1>14, <2>1, <3>1 DEF CInv, WInv, Owners
    <2>6. Spot(w) # x
      BY <1>4, <1>10, <2>3, <2>5, WordsDiffer
    <2>7. a[Spot(w)] = b[Spot(w)]
      BY <1>8, <1>9, <1>10, <2>4, <2>6 DEF AreWords
    <2> QED
      BY <1>10, <2>1, <2>3, <2>7
  <1>15. /\ Writes(t, r, f, c)
         /\ Tidied(f) /\ Unused(latest, f) /\ \A u \in Threads : Knows(q[u], f)
    <2>1. \A u \in Threads : u # t /\ th[u].pc \in Owning /\ th[u].cur = c =>
            f[c][Spot(th[u])] = Reserved(th[u].v)
      BY <1>14
    <2>2. Writes(t, r, f, c)
      BY <1>1, <1>4, <1>8, <1>10, <1>11, <1>13, <2>1 DEF Writes
    <2> QED
      BY <1>1, <1>6, <2>2, WordsGrow DEF CInv
  <1>16. Owners(q)
    <2>1. \A u \in Threads : q[u] = IF u = t THEN r ELSE th[u]
      BY <1>3, <1>6
    <2>2. r.pc \notin Owning
      BY <1>7 DEF Owning, Deciding
    <2> QED
      BY <2>1, <2>2 DEF CInv, WInv, Owners
  <1>17. SameHolding(o, r) /\ \A n \in Tables : ~Open(r, n) /\ ~Settled(r, n)
    BY <1>3, <1>5, <1>7 DEF SameHolding, Holding, Open, Settled, Early, Detaching, Probing
  <1>18. ASSUME NEW w \in Vals, Lacks(d, latest, Key[w]) \/ Ready(o, latest, w)
         PROVE  In(f, latest, w) \/ Lacks(f, latest, Key[w])
    <2>1. CASE c # latest
      <3>1. ~Ready(o, latest, w)
        BY <1>1, <2>1 DEF Ready
      <3> QED
        BY <1>8, <1>18, <2>1, <3>1 DEF Lacks, IInv
    <2>2. CASE c = latest /\ Ready(o, latest, w)
      <3>1. o.old = w /\ w # Nil
        BY <1>3, <2>2, NbhsAssumption DEF Ready, Deciding
      <3>2. a[x] = Final(w)
        BY <1>2, <1>11, <3>1
      <3> QED
        BY <1>10, <1>11, <2>2, <3>2 DEF In
    <2>3. CASE c = latest /\ Lacks(d, latest, Key[w])
      <3>1. \A i \in 0 .. Cap(c) - 1 : a[i] = IF i = x THEN e ELSE b[i]
        BY <1>8, <1>9, <1>10 DEF AreWords
      <3>2. Key[o.v] # Key[w]
        <4>1. d[c][x] # Empty /\ d[c][x].p = o.v
          BY <1>4, WordsDiffer
        <4> QED
          BY <1>11, <2>3, <4>1 DEF Lacks
      <3>3. e.p = k
        BY <1>2, WordsDiffer
      <3> QED
        BY <1>5, <1>10, <2>3, <3>1, <3>2, <3>3 DEF Lacks
    <2> QED
      BY <1>18, <2>1, <2>2, <2>3
  <1>19. InTable(o, c)
    BY <1>1, <1>3 DEF InTable, RawIntern
  <1>20. Values(q, latest, tb, f, got)
    <2>1. Passes(t, r, f, tb)
      BY <1>1, <1>7, <1>8, <1>17, <1>18, <1>19 DEF Passes
    <2>2. Writes(t, r, f, r.cur)
      BY <1>1, <1>7, <1>15
    <2> QED
      BY <1>6, <2>1, <2>2, ValuesGrow
  <1>21. /\ th[t].pc \in RawIntern /\ r.pc \in RawIntern \ {"grow", "swap", "settle"}
         /\ r.cur = th[t].cur /\ r.slot = th[t].slot /\ r.latest = th[t].latest
         /\ th' = q /\ table' = tb /\ Data(tb) = f
    BY <1>1, <1>2, <1>3, <1>7 DEF RawIntern
  <1>22. UNCHANGED <<latest, got>> /\ \A n \in Tables : tb[n].moved = table[n].moved
    BY <1>3, <1>8
  <1>23. Tidied(f) /\ Unused(latest, f) /\ \A u \in Threads : Knows(q[u], f)
    BY <1>15
  <1>24. q = [th EXCEPT ![t] = r]
    BY <1>6
  <1> QED
    BY <1>16, <1>20, <1>21, <1>22, <1>23, <1>24, WriteMove, ZenonT(60)

-----------------------------------------------------------------------------
(* A new table                                                              *)

\* What a thread is in is not freed.
LEMMA InTableIsKept ==
    ASSUME IInv, HInv, NEW u \in Threads, NEW n \in Tables, InTable(th[u], n)
    PROVE  n \notin freed
  <1>1. PICK w : w = th[u]
    OBVIOUS
  <1>2. Placed(w, latest, table) /\ Local(w, hazard[u])
    BY <1>1, Rows DEF IInv
  <1>3. 0 \in Slots /\ 4 \in Slots
    BY DEF Slots
  <1>4. CASE w.pc = "hold" /\ n = w.cur
    BY <1>1, <1>4 DEF HInv, Held
  <1>5. CASE ~(w.pc = "hold" /\ n = w.cur)
    <2>1. \E s \in Slots : Protects(w, s, n)
      BY <1>1, <1>2, <1>3, <1>5 DEF InTable, Protects, Local, Placed
    <2> QED
      BY <1>1, <2>1 DEF HInv, Safe
  <1> QED
    BY <1>4, <1>5

\* When a table without one before it is the latest, nobody else is in an older one.
LEMMA NoneIsBehind ==
    ASSUME IInv, HInv, AtMostTwo, NEW t \in Threads, th[t].pc = "swap",
           table[latest].prev = NoTable, NEW u \in Threads, u # t,
           NEW n \in Tables, InTable(th[u], n)
    PROVE  latest <= n
  <1> SUFFICES ASSUME n < latest
               PROVE  FALSE
    BY TableNumbers DEF IInv
  <1>1. n \notin freed /\ table[latest].prev # n
    BY InTableIsKept, TableNumbers
  <1>2. PICK w \in Threads : th[w].pc \in {"scan", "wait_hazards"} /\ th[w].prev = n
    BY <1>1 DEF HInv, Live
  <1>3. w = u
    BY <1>2 DEF AtMostTwo
  <1>4. th[u].latest = n + 1 /\ th[u].slot = 0 /\ n + 1 # n
    BY <1>2, <1>3, TableNumbers DEF IInv, Placed, Detaching, RawIntern
  <1> QED
    BY <1>2, <1>3, <1>4 DEF InTable, RawIntern

LEMMA SwapCopies ==
    ASSUME IInv, HInv, CInv, AtMostTwo, NEW t \in Threads, SwapLatest(t), latest = th[t].cur
    PROVE  CInv'
  <1>1. PICK o, d, r, q, tb, l : /\ o = th[t] /\ d = Data(table) /\ r = th'[t] /\ q = th'
                                 /\ tb = table' /\ l = latest'
    OBVIOUS
  <1>2. /\ Placed(o, latest, table) /\ IsThread(o) /\ Knows(o, d) /\ Local(o, hazard[t])
        /\ th = [u \in Threads |-> th[u]] /\ latest \in Tables /\ latest \in Nat
        /\ table = [n \in Tables |-> table[n]]
        /\ o.pc = "swap" /\ UNCHANGED got
    BY <1>1, Rows, TableNumbers DEF IInv, Placed, CInv, WInv, SwapLatest
  <1>3. /\ l = latest + 1 /\ l \in Tables /\ q = [th EXCEPT ![t] = r]
        /\ tb = [table EXCEPT ![l] = [Blank(l) EXCEPT !.prev = latest]]
        /\ r = [o EXCEPT !.cur = l, !.pc = "hold"]
    BY <1>1, <1>2 DEF SwapLatest
  <1>4. /\ r.pc = "hold" /\ r.val = o.val /\ r.latest = o.latest /\ r.prev = o.prev
        /\ r.lo = o.lo /\ r.hi = o.hi /\ r.at = o.at /\ r.v = o.v /\ r.cur = l
        /\ r.slot = o.slot /\ r.result = o.result /\ r.curr = o.curr /\ r.j = o.j
        /\ r.old = o.old /\ r.i = o.i
    BY <1>2, <1>3 DEF IsThread
  <1>5. table[latest].prev = NoTable
    BY <1>1, <1>2 DEF Placed
  <1>6. o.slot = 0
    <2> SUFFICES ASSUME o.slot # 0
                 PROVE  FALSE
      OBVIOUS
    <2>1. Holding(o)
      BY <1>2 DEF Placed, Holding
    <2> QED
      BY <1>1, <1>2, <1>5, <2>1, HoldersAreLatest DEF Placed
  <1>7. /\ tb[l].prev = latest /\ tb[l].moved = 0 /\ tb[l].data = Blank(l).data
        /\ \A n \in Tables : n # l => tb[n] = table[n]
    <2>1. PICK b : b = Blank(l)
      OBVIOUS
    <2>2. PICK a : a = [b EXCEPT !.prev = latest]
      OBVIOUS
    <2>3. b = [data |-> b.data, prev |-> NoTable, moved |-> 0, move_done |-> 0, count |-> 0]
      BY <2>1 DEF Blank
    <2>4. a.prev = latest /\ a.moved = 0 /\ a.data = b.data
      BY <2>2, <2>3
    <2>5. tb = [table EXCEPT ![l] = a]
      BY <1>3, <2>1, <2>2
    <2> QED
      BY <1>2, <1>3, <2>1, <2>4, <2>5
  <1>8. latest < l /\ latest # l /\ l \in Nat
    BY <1>2, <1>3
  <1>9. d[l] = Blank(l).data
    BY <1>1, <1>3, <1>8 DEF CInv, WInv, Unused
  <1>10. Data(tb) = d
    <2>1. \A n \in Tables : tb[n].data = d[n]
      <3>1. \A n \in Tables : d[n] = table[n].data
        BY <1>1 DEF Data
      <3> QED
        BY <1>7, <1>9, <3>1
    <2> QED
      BY <1>1, <2>1 DEF Data
  <1>11. Unclaimed(l, tb) /\ table[latest].moved = 0
    <2>1. Unclaimed(latest, table)
      BY DEF CInv, WInv
    <2>2. \A n \in Tables : n >= l => n >= latest
      BY <1>2, <1>3, TableNumbers
    <2>3. latest >= latest
      BY <1>2
    <2> QED
      BY <1>2, <1>7, <2>1, <2>2, <2>3 DEF Unclaimed
  <1>12. Knows(r, d)
    BY <1>2, <1>4, <1>6 DEF Knows, RawIntern, Probing, Owning, Deciding, Holding
  <1>13. WInv'
    <2>1. RightKeys(got')
      BY <1>2 DEF CInv, WInv
    <2>2. r.pc \notin Owning
      BY <1>4 DEF Owning, Deciding
    <2>3. Data(table') = Data(table) /\ th' = [th EXCEPT ![t] = r]
      BY <1>1, <1>3, <1>10
    <2>4. latest' \in Tables /\ latest <= latest' /\ Unclaimed(latest', table')
      BY <1>1, <1>2, <1>3, <1>8, <1>11
    <2>5. Knows(r, Data(table))
      BY <1>1, <1>12
    <2> QED
      BY <2>1, <2>2, <2>3, <2>4, <2>5, WordsStay DEF CInv
  <1>14. \A u \in Threads : q[u] = IF u = t THEN r ELSE th[u]
    BY <1>2, <1>3
  <1>15. \A n \in Tables : InTable(r, n) => n = l
    BY <1>4, <1>6 DEF InTable, Early, Detaching
  <1>16. Lag(q, l)
    <2> SUFFICES ASSUME NEW u \in Threads, NEW n \in Tables, InTable(q[u], n)
                 PROVE  l <= n + 1
      BY DEF Lag
    <2>1. CASE u = t
      BY <1>8, <1>14, <1>15, <2>1
    <2>2. CASE u # t
      <3>1. latest <= n
        BY <1>1, <1>2, <1>5, <1>14, <2>2, NoneIsBehind
      <3> QED
        BY <1>2, <1>3, <3>1, TableNumbers
    <2> QED
      BY <2>1, <2>2
  <1>17. OneStale(q, l)
    BY <1>14, <1>15 DEF OneStale, AtMostTwo
  <1>18. ASSUME NEW w \in Vals, Fixed(q, l, d, got, w)
         PROVE  In(d, latest, w)
    <2>1. CASE \E v \in Vals : got[v] = w
      <3>1. Holds(th, latest, table, d, w)
        BY <1>1, <2>1 DEF CInv, Values, Fixed
      <3> QED
        BY <1>5, <3>1 DEF Holds, ToCopy
    <2>2. CASE \E u \in Threads : MayReturn(q[u], l, d, w)
      <3>1. PICK u \in Threads, p \in Tables :
              /\ p + 1 = l
              /\ \/ Open(q[u], p) /\ In(d, p, w)
                 \/ Settled(q[u], p) /\ q[u].result = w
        BY <2>2 DEF MayReturn
      <3>2. p = latest
        BY <1>2, <1>3, <3>1, TableNumbers
      <3>3. CASE Settled(q[u], p) /\ q[u].result = w
        <4>1. q[u] = th[u]
          BY <1>4, <1>14, <3>3 DEF Settled
        <4>2. Knows(th[u], d) /\ th[u].pc = "settle" /\ th[u].result = w /\ w # Nil
              /\ th[u].cur = latest
          BY <1>1, <3>2, <3>3, <4>1 DEF Settled, CInv, WInv
        <4> QED
          BY <4>2 DEF Knows
      <3> QED
        BY <3>1, <3>2, <3>3
    <2> QED
      BY <1>18, <2>1, <2>2 DEF Fixed
  <1>19. Values(q, l, tb, d, got)
    <2> SUFFICES ASSUME NEW w \in Vals, Fixed(q, l, d, got, w)
                 PROVE  Holds(q, l, tb, d, w)
      BY DEF Values
    <2>1. PICK i \in 0 .. Cap(latest) - 1 : d[latest][i] = Final(w)
      BY <1>18 DEF In
    <2>2. Waiting(q, tb, latest, i)
      <3>1. tb[latest].moved = 0 /\ i \in Nat
        BY <1>2, <1>7, <1>8, <1>11, CapIsNat
      <3> QED
        BY <3>1 DEF Waiting
    <2>3. latest # NoTable
      BY <1>2, TableNumbers
    <2>4. ToCopy(q, l, tb, d, w)
      BY <1>7, <2>1, <2>2, <2>3 DEF ToCopy
    <2>5. Lacks(d, l, Key[w])
      BY <1>9 DEF Lacks, Blank
    <2> QED
      BY <2>4, <2>5 DEF Holds
  <1>20. /\ Lag(th', latest') /\ OneStale(th', latest')
         /\ Values(th', latest', table', Data(table'), got')
    BY <1>1, <1>2, <1>10, <1>16, <1>17, <1>19
  <1> QED
    BY <1>13, <1>20 DEF CInv

-----------------------------------------------------------------------------
(* The table that nbhs_alloc and the raw inserts make                       *)

LEMMA Least ==
    ASSUME NEW S, S \subseteq Nat, S # {}
    PROVE  \E n \in S : \A m \in S : n <= m
  <1>1. PICK R : R = OpToRel(<, Nat)
    OBVIOUS
  <1>2. IsWellFoundedOn(R, Nat)
    BY <1>1, NatLessThanWellFounded
  <1>3. PICK n \in S : \A m \in S : <<m, n>> \notin R
    BY <1>2, WFMin
  <1>4. R = {p \in Nat \X Nat : p[1] < p[2]}
    BY <1>1, Zenon DEF OpToRel
  <1>5. ASSUME NEW m \in S
        PROVE  n <= m
    <2>1. ~(m < n)
      <3> SUFFICES ASSUME m < n
                   PROVE  FALSE
        OBVIOUS
      <3>1. <<m, n>> \in R
        BY <1>4
      <3> QED
        BY <1>3, <3>1
    <2> QED
      BY <2>1
  <1> QED
    BY <1>5

\* A probe comes to every word.
LEMMA EveryPlace ==
    ASSUME NEW n \in Tables, NEW v \in Vals, NEW i \in 0 .. Cap(n) - 1
    PROVE  \E j \in 0 .. Cap(n) - 1 : Place(n, Key[v], j) = i
  <1>1. PICK h, c : h = Hash[Key[v]] /\ c = Cap(n)
    OBVIOUS
  <1>2. h \in Nat /\ c \in Nat /\ c > 0 /\ i \in 0 .. c - 1
    BY <1>1, CapIsNat, NbhsAssumption
  <1>3. PICK q, r : q = h \div c /\ r = h % c
    OBVIOUS
  <1>4. q \in Nat /\ r \in 0 .. c - 1 /\ h = c * q + r
    BY <1>2, <1>3
  <1>5. \A k \in Nat : (c * k + i) % c = i
    BY <1>2
  <1>6. \E j \in 0 .. c - 1 : (h + j) % c = i
    <2>1. CASE i >= r
      <3>1. i - r \in 0 .. c - 1 /\ h + (i - r) = c * q + i
        BY <1>2, <1>4, <2>1
      <3> QED
        BY <1>4, <1>5, <3>1
    <2>2. CASE i < r
      <3>1. (i - r) + c \in 0 .. c - 1 /\ h + ((i - r) + c) = c * (q + 1) + i
        BY <1>2, <1>4, <2>2
      <3>2. q + 1 \in Nat
        BY <1>4
      <3> QED
        BY <1>5, <3>1, <3>2
    <2> QED
      BY <1>2, <1>4, <2>1, <2>2
  <1> QED
    BY <1>1, <1>6 DEF Place

\* Inserts is the function that its definition describes.
LEMMA InsertsAre ==
    Inserts = [n \in 0 .. Len(Preloaded) |->
                 IF n = 0 THEN Blank(0).data ELSE RawInsert(Inserts[n - 1], Preloaded[n])]
  <1>1. PICK base, L : base = Blank(0).data /\ L = Len(Preloaded)
    OBVIOUS
  <1>2. L \in Nat
    BY <1>1, NbhsAssumption
  <1> DEFINE Fun(g, m) == g = [n \in 0 .. m |->
                                 IF n = 0 THEN base ELSE RawInsert(g[n - 1], Preloaded[n])]
             Bad == {m \in 0 .. L : ~ \E g : Fun(g, m)}
  <1>3. Bad = {}
    <2> SUFFICES ASSUME Bad # {}
                 PROVE  FALSE
      OBVIOUS
    <2>1. Bad \subseteq Nat
      BY <1>2
    <2>2. PICK m \in Bad : \A n \in Bad : m <= n
      <3> HIDE DEF Bad
      <3> QED
        BY <2>1, Least
    <2>3. m # 0
      <3> SUFFICES ASSUME m = 0
                   PROVE  FALSE
        OBVIOUS
      <3>1. PICK g : g = [n \in 0 .. 0 |-> base]
        OBVIOUS
      <3>2. \A n \in 0 .. 0 : n = 0
        OBVIOUS
      <3>3. Fun(g, 0)
        BY <3>1, <3>2
      <3> QED
        BY <2>2, <3>3
    <2>4. m \in Nat /\ m - 1 \in 0 .. L /\ m <= L
      BY <1>2, <2>2, <2>3
    <2>5. m - 1 \notin Bad
      BY <2>2, <2>4
    <2>6. PICK g : Fun(g, m - 1)
      BY <2>4, <2>5
    <2>7. PICK h : h = [n \in 0 .. m |-> IF n = m THEN RawInsert(g[m - 1], Preloaded[m]) ELSE g[n]]
      OBVIOUS
    <2>8. ASSUME NEW n \in 0 .. m
          PROVE  h[n] = IF n = 0 THEN base ELSE RawInsert(h[n - 1], Preloaded[n])
      <3>1. CASE n = m
        <4>1. n # 0 /\ m - 1 \in 0 .. m /\ m - 1 # m
          BY <2>3, <2>4, <3>1
        <4> QED
          BY <2>7, <3>1, <4>1
      <3>2. CASE n # m /\ n = 0
        <4>1. n \in 0 .. m - 1
          BY <2>3, <2>4, <3>2
        <4> QED
          BY <2>6, <2>7, <3>2, <4>1
      <3>3. CASE n # m /\ n # 0
        <4>1. n \in 0 .. m - 1 /\ n - 1 \in 0 .. m /\ n - 1 # m
          BY <2>4, <3>3
        <4>2. g[n] = RawInsert(g[n - 1], Preloaded[n])
          BY <2>6, <3>3, <4>1
        <4>3. h[n] = g[n] /\ h[n - 1] = g[n - 1]
          BY <2>7, <3>3, <4>1
        <4> QED
          BY <3>3, <4>2, <4>3
      <3> QED
        BY <3>1, <3>2, <3>3
    <2>9. Fun(h, m)
      <3>1. h = [n \in 0 .. m |-> h[n]]
        BY <2>7
      <3> QED
        BY <2>8, <3>1
    <2> QED
      BY <2>2, <2>9
  <1>4. PICK g : Fun(g, L)
    <2>1. L \in 0 .. L
      BY <1>2
    <2> QED
      BY <1>3, <2>1
  <1>5. g = [n \in 0 .. Len(Preloaded) |->
               IF n = 0 THEN Blank(0).data ELSE RawInsert(g[n - 1], Preloaded[n])]
    BY <1>1, <1>4
  <1> QED
    BY <1>5, Zenon DEF Inserts

\* The words b of the first table are the first n of the preloaded pointers, where probes
\* find them.
Filled(b, n) ==
    /\ AreWords(b, 0) /\ Tidy(b, 0)
    /\ \A i \in 0 .. Cap(0) - 1 : b[i] = Empty \/ \E m \in 1 .. n : b[i] = Final(Preloaded[m])
    /\ \A m \in 1 .. n : \E i \in 0 .. Cap(0) - 1 : b[i] = Final(Preloaded[m])

LEMMA RawInsertFills ==
    ASSUME NEW n \in 1 .. Len(Preloaded), NEW b, Filled(b, n - 1)
    PROVE  Filled(RawInsert(b, Preloaded[n]), n)
  <1>1. PICK v, k, C : v = Preloaded[n] /\ k = Key[v] /\ C = Cap(0)
    OBVIOUS
  <1>2. /\ 0 \in Tables /\ C \in Nat /\ C > 0 /\ n \in Nat /\ n >= 1 /\ n <= C
        /\ \A m \in 1 .. n : m \in DOMAIN Preloaded /\ Preloaded[m] \in Vals
    <2>1. 0 \in Tables
      BY TableNumbers DEF Tables
    <2>2. Len(Preloaded) \in Nat /\ Len(Preloaded) < C
      BY <1>1, NbhsAssumption
    <2> QED
      BY <1>1, <2>1, <2>2, CapIsNat, NbhsAssumption
  <1>3. /\ v \in Vals /\ AreWords(b, 0) /\ Tidy(b, 0)
        /\ \A i \in 0 .. C - 1 : b[i] = Empty \/ \E m \in 1 .. n - 1 : b[i] = Final(Preloaded[m])
        /\ \A m \in 1 .. n - 1 : \E i \in 0 .. C - 1 : b[i] = Final(Preloaded[m])
    BY <1>1, <1>2 DEF Filled
  <1>4. \E i \in 0 .. C - 1 : b[i] = Empty
    <2> SUFFICES ASSUME \A i \in 0 .. C - 1 : b[i] # Empty
                 PROVE  FALSE
      OBVIOUS
    <2>1. PICK f : f = [i \in 0 .. C - 1 |-> CHOOSE m \in 1 .. n - 1 : b[i] = Final(Preloaded[m])]
      OBVIOUS
    <2>2. \A i \in 0 .. C - 1 : f[i] \in 1 .. n - 1 /\ b[i] = Final(Preloaded[f[i]])
      BY <1>3, <2>1
    <2>3. f \in [0 .. C - 1 -> 1 .. n - 1]
      BY <2>1, <2>2
    <2>4. /\ IsFiniteSet(0 .. C - 1) /\ Cardinality(0 .. C - 1) = C
          /\ IsFiniteSet(1 .. n - 1) /\ Cardinality(1 .. n - 1) = n - 1
      <3>1. C - 1 \in Int /\ n - 1 \in Int /\ 0 \in Int /\ 1 \in Int
        BY <1>2
      <3>2. ~(0 > C - 1) /\ C - 1 - 0 + 1 = C
        BY <1>2
      <3>3. 1 > n - 1 => n - 1 = 0
        BY <1>2
      <3>4. n - 1 - 1 + 1 = n - 1
        BY <1>2
      <3>5. /\ IsFiniteSet(0 .. C - 1) /\ Cardinality(0 .. C - 1) = C - 1 - 0 + 1
            /\ IsFiniteSet(1 .. n - 1)
            /\ Cardinality(1 .. n - 1) = IF 1 > n - 1 THEN 0 ELSE n - 1 - 1 + 1
        BY <3>1, <3>2, FS_Interval
      <3> QED
        BY <3>2, <3>3, <3>4, <3>5
    <2>5. n - 1 < C
      BY <1>2
    <2>6. PICK i, m \in 0 .. C - 1 : i # m /\ f[i] = f[m]
      BY <2>3, <2>4, <2>5, FS_PigeonHole
    <2>7. b[i] = b[m] /\ b[i] # Empty
      BY <2>2, <2>6
    <2> QED
      BY <1>1, <1>2, <1>3, <2>6, <2>7, OneEach, ZenonT(60)
  <1>5. PICK free : free = {j \in 0 .. C - 1 : b[Place(0, k, j)] = Empty}
    OBVIOUS
  <1>6. free # {} /\ free \subseteq Nat
    <2>1. PICK i \in 0 .. C - 1 : b[i] = Empty
      BY <1>4
    <2>2. PICK j \in 0 .. C - 1 : Place(0, k, j) = i
      BY <1>1, <1>2, <1>3, EveryPlace
    <2>3. j \in free
      BY <1>5, <2>1, <2>2
    <2> QED
      BY <1>2, <1>5, <2>3
  <1>7. PICK j : j = CHOOSE h \in free : \A m \in free : h <= m
    OBVIOUS
  <1>8. j \in free /\ \A m \in free : j <= m
    BY <1>6, <1>7, Least
  <1>9. PICK x, c : x = Place(0, k, j) /\ c = [b EXCEPT ![x] = Final(v)]
    OBVIOUS
  <1>10. RawInsert(b, Preloaded[n]) = c
    BY <1>1, <1>5, <1>7, <1>9 DEF RawInsert
  <1>11. j \in 0 .. C - 1 /\ b[x] = Empty
    BY <1>5, <1>8, <1>9
  <1>12. Reached(b, 0, k, j)
    <2> SUFFICES ASSUME NEW m \in 0 .. j - 1
                 PROVE  b[Place(0, k, m)] # Empty /\ Key[b[Place(0, k, m)].p] # k
      BY DEF Reached
    <2>1. m \in 0 .. C - 1 /\ m \in Nat /\ ~(j <= m)
      BY <1>2, <1>11
    <2>2. b[Place(0, k, m)] # Empty
      BY <1>5, <1>8, <2>1
    <2>3. Place(0, k, m) \in 0 .. C - 1
      BY <1>1, <1>2, <1>3, <2>1, PlaceIsIn
    <2>4. PICK y \in 1 .. n - 1 : b[Place(0, k, m)] = Final(Preloaded[y])
      BY <1>3, <2>2, <2>3
    <2>5. y \in DOMAIN Preloaded /\ n \in DOMAIN Preloaded /\ y # n
      BY <1>2
    <2>6. Key[Preloaded[y]] # k
      BY <1>1, <2>5, NbhsAssumption
    <2> QED
      BY <2>2, <2>4, <2>6, WordsDiffer
  <1>13. AreWords(c, 0) /\ Tidy(c, 0) /\ Grows(b, c, 0) /\ c[x] = Final(v) /\ x \in 0 .. C - 1
    <2>1. PutAt(0, b, v, j, x, Final(v), c)
      BY <1>1, <1>3, <1>9, <1>11, <1>12 DEF PutAt
    <2> QED
      BY <1>1, <1>2, <2>1, Put
  <1>14. \A i \in 0 .. C - 1 : i # x => c[i] = b[i]
    BY <1>1, <1>3, <1>9 DEF AreWords
  <1>15. \A i \in 0 .. C - 1 : c[i] = Empty \/ \E m \in 1 .. n : c[i] = Final(Preloaded[m])
    <2>1. n \in 1 .. n /\ \A m \in 1 .. n - 1 : m \in 1 .. n
      BY <1>2
    <2> QED
      BY <1>1, <1>3, <1>13, <1>14, <2>1
  <1>16. \A m \in 1 .. n : \E i \in 0 .. C - 1 : c[i] = Final(Preloaded[m])
    <2> SUFFICES ASSUME NEW m \in 1 .. n
                 PROVE  \E i \in 0 .. C - 1 : c[i] = Final(Preloaded[m])
      OBVIOUS
    <2>1. CASE m = n
      BY <1>1, <1>13, <2>1
    <2>2. CASE m # n
      <3>1. m \in 1 .. n - 1
        BY <1>2, <2>2
      <3> QED
        BY <1>1, <1>2, <1>3, <1>13, <3>1 DEF Grows
    <2> QED
      BY <2>1, <2>2
  <1> QED
    BY <1>1, <1>10, <1>13, <1>15, <1>16 DEF Filled

LEMMA InsertsFill ==
    \A n \in 0 .. Len(Preloaded) : Filled(Inserts[n], n)
  <1>1. PICK L : L = Len(Preloaded)
    OBVIOUS
  <1>2. L \in Nat
    BY <1>1, NbhsAssumption
  <1> DEFINE Bad == {n \in 0 .. L : ~Filled(Inserts[n], n)}
  <1> SUFFICES ASSUME Bad # {}
               PROVE  FALSE
    BY <1>1
  <1>3. Bad \subseteq Nat
    BY <1>2
  <1>4. PICK m \in Bad : \A n \in Bad : m <= n
    <2> HIDE DEF Bad
    <2> QED
      BY <1>3, Least
  <1>5. CASE m = 0
    <2>1. Inserts[0] = Blank(0).data
      BY <1>1, <1>4, <1>5, InsertsAre
    <2>2. PICK b : b = [i \in 0 .. Cap(0) - 1 |-> Empty]
      OBVIOUS
    <2>3. Blank(0).data = b
      BY <2>2 DEF Blank
    <2>4. \A i \in 0 .. Cap(0) - 1 : b[i] = Empty
      BY <2>2
    <2>5. b = [i \in 0 .. Cap(0) - 1 |-> b[i]]
      BY <2>2
    <2>6. Filled(b, 0)
      BY <2>4, <2>5 DEF Filled, AreWords, Tidy
    <2> QED
      BY <1>4, <1>5, <2>1, <2>3, <2>6
  <1>6. CASE m # 0
    <2>1. m \in 1 .. L /\ m - 1 \in 0 .. L /\ ~(m <= m - 1)
      BY <1>2, <1>4, <1>6
    <2>2. Filled(Inserts[m - 1], m - 1)
      BY <1>4, <2>1
    <2>3. Inserts[m] = RawInsert(Inserts[m - 1], Preloaded[m])
      BY <1>1, <1>6, <2>1, InsertsAre
    <2>4. Filled(Inserts[m], m)
      BY <1>1, <2>1, <2>2, <2>3, RawInsertFills
    <2> QED
      BY <1>4, <2>4
  <1> QED
    BY <1>5, <1>6

LEMMA InitCInv ==
    ASSUME Init
    PROVE  CInv
  <1>1. PICK r, d, b : r = Outside /\ d = Data(table) /\ b = Inserts[Len(Preloaded)]
    OBVIOUS
  <1>2. /\ 0 \in Tables /\ latest = 0 /\ \A t \in Threads : th[t] = r
        /\ got = [v \in Vals |-> IF v \in Interned THEN v ELSE Nil]
    BY <1>1, TableNumbers DEF Init, Tables
  <1>3. /\ r.pc = "outside" /\ r.latest = NoTable /\ r.slot = 0 /\ r.j = 0 /\ r.old = Nil
    BY <1>1 DEF Outside
  <1>4. Filled(b, Len(Preloaded)) /\ Len(Preloaded) \in Nat
    BY <1>1, InsertsFill, NbhsAssumption
  <1>5. Loaded.data = b /\ Loaded.moved = 0
    <2>1. PICK x : x = Blank(0)
      OBVIOUS
    <2>2. PICK y, c : y = [x EXCEPT !.data = b, !.count = c] /\ c = Len(Preloaded)
      OBVIOUS
    <2>3. x = [data |-> x.data, prev |-> NoTable, moved |-> 0, move_done |-> 0, count |-> 0]
      BY <2>1 DEF Blank
    <2>4. y.data = b /\ y.moved = 0
      BY <2>2, <2>3
    <2> QED
      BY <1>1, <2>1, <2>2, <2>4 DEF Loaded
  <1>6. /\ d[0] = b /\ \A n \in Tables : n # 0 => d[n] = Blank(n).data
        /\ \A n \in Tables : table[n].moved = 0
    <2>1. \A n \in Tables : table[n] = IF n = 0 THEN Loaded ELSE Blank(n)
      BY DEF Init
    <2>2. \A n \in Tables : d[n] = table[n].data
      BY <1>1 DEF Data
    <2>3. \A n \in Tables : Blank(n).moved = 0
      BY DEF Blank
    <2> QED
      BY <1>2, <1>5, <2>1, <2>2, <2>3
  <1>7. Tidied(d)
    <2> SUFFICES ASSUME NEW n \in Tables
                 PROVE  AreWords(d[n], n) /\ Tidy(d[n], n)
      BY DEF Tidied
    <2>1. CASE n = 0
      BY <1>4, <1>6, <2>1 DEF Filled
    <2>2. CASE n # 0
      <3>1. d[n] = [i \in 0 .. Cap(n) - 1 |-> Empty]
        BY <1>6, <2>2 DEF Blank
      <3> QED
        BY <3>1 DEF AreWords, Tidy
    <2> QED
      BY <2>1, <2>2
  <1>8. \A t \in Threads : Knows(th[t], d)
    <2>1. Knows(r, d)
      BY <1>3 DEF Knows, RawIntern, Probing, Owning, Deciding, Holding
    <2> QED
      BY <1>2, <2>1
  <1>9. Owners(th) /\ Lag(th, latest) /\ OneStale(th, latest)
    <2>1. r.pc \notin Owning /\ \A n : ~InTable(r, n)
      BY <1>3 DEF InTable, Owning, Deciding, RawIntern, Early, Detaching
    <2> QED
      BY <1>2, <2>1 DEF Owners, Lag, OneStale
  <1>10. Unused(latest, d) /\ Unclaimed(latest, table)
    <2>1. \A n \in Tables : n > 0 => n # 0
      BY TableNumbers
    <2> QED
      BY <1>2, <1>6, <2>1 DEF Unused, Unclaimed
  <1>11. \A v \in Vals : Nil # v
    BY NbhsAssumption
  <1>12. RightKeys(got)
    BY <1>2 DEF RightKeys
  <1>13. Values(th, latest, table, d, got)
    <2> SUFFICES ASSUME NEW w \in Vals, Fixed(th, latest, d, got, w)
                 PROVE  Holds(th, latest, table, d, w)
      BY DEF Values
    <2>1. \A n : ~Open(r, n) /\ ~Settled(r, n)
      BY <1>3 DEF Open, Settled, Early, Detaching, Probing
    <2>2. \A t \in Threads : ~MayReturn(th[t], latest, d, w)
      BY <1>2, <2>1 DEF MayReturn
    <2>3. PICK v \in Vals : got[v] = w
      BY <2>2 DEF Fixed
    <2>4. w \in Interned
      BY <1>2, <1>11, <2>3
    <2>5. PICK m \in DOMAIN Preloaded : w = Preloaded[m]
      BY <2>4 DEF Interned
    <2>6. m \in 1 .. Len(Preloaded)
      BY NbhsAssumption
    <2>7. In(d, 0, w)
      BY <1>4, <1>6, <2>5, <2>6 DEF Filled, In
    <2> QED
      BY <1>2, <2>7 DEF Holds
  <1> QED
    BY <1>1, <1>7, <1>8, <1>9, <1>10, <1>12, <1>13 DEF CInv, WInv

LEMMA StepKeepsCInv ==
    ASSUME IInv, IInv', HInv, CInv, AtMostTwo, RetriesFit, [Next]_vars
    PROVE  CInv'
  <1>1. CASE UNCHANGED vars
    BY <1>1 DEF CInv, WInv, vars
  <1>2. CASE Next
    <2>1. PICK t \in Threads : Begin(t) \/ Step(t)
      BY <1>2 DEF Next
    <2>2. CASE Reserve(t)
      BY <2>2, ReserveKeeps, ProbeKeeps
    <2>3. CASE SwapLatest(t)
      BY <2>3, SwapFailKeeps, SwapCopies
    <2>4. CASE \/ Begin(t) \/ Register(t) \/ LookMoved(t) \/ LoadList(t) \/ WaitHazard(t)
               \/ FreePrev(t)
      BY <2>4, PlainSteps
    <2>5. CASE AccessLatest(t) \/ AccessPrev(t) \/ AccessOlder(t) \/ AccessAgain(t)
      BY <2>5, AccessKeeps
    <2>6. CASE Grow(t) \/ Hold(t) \/ Unhold(t) \/ Count(t)
      BY <2>6, QuietRawSteps
    <2>7. CASE Probe(t) \/ WaitEntry(t)
      BY <2>7, ProbeKeeps
    <2>8. CASE ClaimBatch(t) \/ CopyEntry(t) \/ CountMoved(t) \/ Detach(t) \/ Skip(t)
      BY <2>8, ClaimCopies, CopyKeeps, CountMovedKeeps, DetachLosesNone, SkipKeeps
    <2>9. CASE Lookup(t) \/ Commit(t) \/ Settle(t)
      BY <2>9, LookupKeeps, CommitKeeps, SettleKeeps
    <2> QED
      BY <2>1, <2>2, <2>3, <2>4, <2>5, <2>6, <2>7, <2>8, <2>9 DEF Step
  <1> QED
    BY <1>1, <1>2

-----------------------------------------------------------------------------
(* No more keys than words of the first table                               *)

Keys == {Key[v] : v \in Vals}
FewKeys == IsFiniteSet(Keys) /\ Cardinality(Keys) <= Cap(0)

LEMMA TablesGrow ==
    ASSUME NEW n \in Tables
    PROVE  Cap(0) <= Cap(n)
  <1>1. InitExp \in Nat /\ InitExp + n \in Nat /\ InitExp + 0 = InitExp
    BY NbhsAssumption, TableNumbers
  <1> DEFINE S(m) == SUBSET (1 .. m)
  <1>2. \A m \in Nat : IsFiniteSet(S(m)) /\ Cardinality(S(m)) = 2 ^ m
    <2> SUFFICES ASSUME NEW m \in Nat
                 PROVE  IsFiniteSet(S(m)) /\ Cardinality(S(m)) = 2 ^ m
      OBVIOUS
    <2>1. IsFiniteSet(1 .. m) /\ Cardinality(1 .. m) = m
      BY FS_Interval
    <2> QED
      BY <2>1, FS_SUBSET
  <1>3. 1 .. InitExp \subseteq 1 .. InitExp + n
    BY <1>1, TableNumbers
  <1>4. S(InitExp) \subseteq S(InitExp + n)
    BY <1>3
  <1>5. Cardinality(S(InitExp)) <= Cardinality(S(InitExp + n))
    <2> HIDE DEF S
    <2> QED
      BY <1>1, <1>2, <1>4, FS_Subset
  <1> QED
    BY <1>1, <1>2, <1>5 DEF Cap

\* A table that has a word for every key is not full of other keys.
LEMMA FewKeysFit ==
    ASSUME FewKeys, IInv, CInv
    PROVE  RetriesFit
  <1> SUFFICES ASSUME NEW t \in Threads, th[t].pc \in {"probe", "reserve"}, NEW b,
                      b = Data(table)[th[t].cur],
                      \A j \in 0 .. Cap(th[t].cur) - 1 :
                         LET e == b[Place(th[t].cur, Key[th[t].v], j)]
                         IN  e # Empty /\ Key[e.p] # Key[th[t].v]
               PROVE  FALSE
    BY DEF RetriesFit, Fits
  <1>1. PICK n, v, k, C : n = th[t].cur /\ v = th[t].v /\ k = Key[v] /\ C = Cap(n)
    OBVIOUS
  <1>2. n \in Tables /\ v \in Vals
    BY <1>1 DEF IInv, Placed, CInv, WInv, Knows, RawIntern
  <1>3. AreWords(b, n) /\ Tidy(b, n) /\ C \in Nat /\ C > 0 /\ Cap(0) <= C /\ Cap(0) \in Nat
    <2>1. AreWords(b, n) /\ Tidy(b, n)
      BY <1>1, <1>2 DEF CInv, WInv, Tidied
    <2>2. C \in Nat /\ C > 0 /\ Cap(0) <= C
      BY <1>1, <1>2, CapIsNat, TablesGrow
    <2>3. 0 \in Tables
      BY TableNumbers DEF Tables
    <2> QED
      BY <2>1, <2>2, <2>3, CapIsNat
  <1>4. \A i \in 0 .. C - 1 : b[i] # Empty /\ Key[b[i].p] \in Keys \ {k}
    <2> SUFFICES ASSUME NEW i \in 0 .. C - 1
                 PROVE  b[i] # Empty /\ Key[b[i].p] \in Keys \ {k}
      OBVIOUS
    <2>1. PICK j \in 0 .. C - 1 : Place(n, k, j) = i
      <3>1. PICK j \in 0 .. Cap(n) - 1 : Place(n, Key[v], j) = i
        BY <1>1, <1>2, EveryPlace
      <3> QED
        BY <1>1, <3>1
    <2>2. b[i] # Empty /\ Key[b[i].p] # k
      BY <1>1, <2>1
    <2>3. b[i].p \in Vals
      <3>1. PICK w \in Vals : b[i] \in {Reserved(w), Final(w)}
        BY <1>1, <1>3, <2>2 DEF AreWords
      <3> QED
        BY <3>1, WordsDiffer
    <2> QED
      BY <2>2, <2>3 DEF Keys
  <1>5. PICK f, K : f = [i \in 0 .. C - 1 |-> Key[b[i].p]] /\ K = Keys \ {k}
    OBVIOUS
  <1>6. f \in [0 .. C - 1 -> K]
    BY <1>4, <1>5
  <1>7. IsFiniteSet(0 .. C - 1) /\ Cardinality(0 .. C - 1) = C
    <2>1. C - 1 \in Int /\ 0 \in Int /\ ~(0 > C - 1) /\ C - 1 - 0 + 1 = C
      BY <1>3
    <2>2. IsFiniteSet(0 .. C - 1) /\ Cardinality(0 .. C - 1) = C - 1 - 0 + 1
      BY <2>1, FS_Interval
    <2> QED
      BY <2>1, <2>2
  <1>8. IsFiniteSet(K) /\ Cardinality(K) < C
    <2>1. k \in Keys
      BY <1>1, <1>2 DEF Keys
    <2>2. IsFiniteSet(K) /\ Cardinality(K) = Cardinality(Keys) - 1
      BY <1>5, <2>1, FS_RemoveElement DEF FewKeys
    <2>3. Cardinality(Keys) \in Nat /\ Cardinality(Keys) <= Cap(0)
      BY FS_CardinalityType DEF FewKeys
    <2> QED
      <3>1. PICK k1, k2, c : k1 = Cardinality(K) /\ k2 = Cardinality(Keys) /\ c = Cap(0)
        OBVIOUS
      <3>2. k1 = k2 - 1 /\ k2 \in Nat /\ k2 <= c /\ c \in Nat /\ C \in Nat /\ c <= C
        BY <1>3, <2>2, <2>3, <3>1
      <3>3. k1 < C
        BY <3>2
      <3> QED
        BY <2>2, <3>1, <3>3
  <1>9. PICK i, m \in 0 .. C - 1 : i # m /\ f[i] = f[m]
    <2>1. PICK S : S = 0 .. C - 1
      OBVIOUS
    <2>2. f \in [S -> K] /\ IsFiniteSet(S) /\ Cardinality(K) < Cardinality(S)
      BY <1>6, <1>7, <1>8, <2>1
    <2>3. \E i, m \in S : i # m /\ f[i] = f[m]
      BY <1>8, <2>2, FS_PigeonHole
    <2> QED
      BY <2>1, <2>3
  <1>10. Key[b[i].p] = Key[b[m].p] /\ b[i] # Empty /\ b[m] # Empty
    BY <1>4, <1>5, <1>9
  <1> QED
    BY <1>1, <1>2, <1>3, <1>9, <1>10, OneEach

-----------------------------------------------------------------------------
(* One pointer for each key, and none lost                                  *)

\* A probe of a table finds the word of its key.
LEMMA FoundIs ==
    ASSUME NEW n \in Tables, Tidy(table[n].data, n),
           NEW i \in 0 .. Cap(n) - 1, NEW e, e = table[n].data[i], e # Empty
    PROVE  Found(n, Key[e.p]) = e
  <1>1. PICK b, k : b = table[n].data /\ k = Key[e.p]
    OBVIOUS
  <1>2. PICK j \in 0 .. Cap(n) - 1 : i = Place(n, k, j) /\ Reached(b, n, k, j)
    BY <1>1 DEF Tidy
  <1>3. PICK stop : stop = {m \in 0 .. Cap(n) - 1 :
                              b[Place(n, k, m)] = Empty \/ Key[b[Place(n, k, m)].p] = k}
    OBVIOUS
  <1>4. j \in stop
    BY <1>1, <1>2, <1>3
  <1>5. Cap(n) \in Nat /\ j \in Nat /\ stop \subseteq Nat
    BY <1>2, <1>3, CapIsNat
  <1>6. \A m \in stop : j <= m
    <2> SUFFICES ASSUME NEW m \in stop, m < j
                 PROVE  FALSE
      BY <1>5
    <2>1. m \in 0 .. j - 1
      BY <1>5
    <2> QED
      BY <1>2, <1>3, <2>1 DEF Reached
  <1>7. PICK h : h = CHOOSE m \in stop : \A x \in stop : m <= x
    OBVIOUS
  <1>8. h \in stop /\ \A x \in stop : h <= x
    BY <1>4, <1>6, <1>7
  <1>9. h = j
    BY <1>4, <1>5, <1>6, <1>8
  <1>10. Found(n, k) = b[Place(n, k, h)]
    BY <1>1, <1>3, <1>4, <1>7 DEF Found
  <1> QED
    BY <1>1, <1>2, <1>9, <1>10

\* A probe finds nothing for a key that the table lacks.
LEMMA FoundNone ==
    ASSUME NEW n \in Tables, NEW v \in Vals, Lacks(Data(table), n, Key[v])
    PROVE  Found(n, Key[v]) = Empty
  <1>1. PICK b, k : b = table[n].data /\ k = Key[v]
    OBVIOUS
  <1>2. \A i \in 0 .. Cap(n) - 1 : b[i] = Empty \/ Key[b[i].p] # k
    BY <1>1 DEF Lacks, Data
  <1>3. PICK stop : stop = {m \in 0 .. Cap(n) - 1 :
                              b[Place(n, k, m)] = Empty \/ Key[b[Place(n, k, m)].p] = k}
    OBVIOUS
  <1>4. Cap(n) \in Nat
    BY CapIsNat
  <1>5. \A m \in stop : b[Place(n, k, m)] = Empty
    <2> SUFFICES ASSUME NEW m \in stop
                 PROVE  b[Place(n, k, m)] = Empty
      OBVIOUS
    <2>1. m \in Nat
      BY <1>3, <1>4
    <2>2. Place(n, k, m) \in 0 .. Cap(n) - 1
      BY <1>1, <2>1, PlaceIsIn
    <2> QED
      BY <1>2, <1>3, <2>2
  <1>6. CASE stop = {}
    BY <1>1, <1>3, <1>6 DEF Found
  <1>7. CASE stop # {}
    <2>1. PICK h : h = CHOOSE m \in stop : \A x \in stop : m <= x
      OBVIOUS
    <2>2. stop \subseteq Nat
      BY <1>3, <1>4
    <2>3. h \in stop
      BY <1>7, <2>1, <2>2, Least
    <2>4. Found(n, k) = b[Place(n, k, h)]
      BY <1>1, <1>3, <1>7, <2>1 DEF Found
    <2> QED
      BY <1>1, <1>5, <2>3, <2>4
  <1> QED
    BY <1>6, <1>7

\* Who has reserved the key of w in the latest table.
LEMMA ReadyReserved ==
    ASSUME IInv, CInv, NEW u \in Threads, NEW w \in Vals, Ready(th[u], latest, w)
    PROVE  \E i \in 0 .. Cap(latest) - 1, v \in Vals :
              Data(table)[latest][i] = Reserved(v) /\ Key[v] = Key[w]
  <1>1. PICK r, d : r = th[u] /\ d = Data(table)
    OBVIOUS
  <1>2. /\ Knows(r, d) /\ r.pc \in Owning /\ r.cur = latest /\ Key[r.v] = Key[w]
        /\ latest \in Tables
    BY <1>1 DEF IInv, CInv, WInv, Ready
  <1>3. /\ r.v \in Vals /\ r.i \in 0 .. Cap(latest) - 1 /\ d[latest][Spot(r)] = Reserved(r.v)
    BY <1>2 DEF Knows, RawIntern, Owning, Deciding
  <1>4. Spot(r) \in 0 .. Cap(latest) - 1
    <2>1. r.i \in Nat
      BY <1>2, <1>3, CapIsNat
    <2> QED
      BY <1>2, <1>3, <2>1, PlaceIsIn DEF Spot
  <1> QED
    BY <1>1, <1>2, <1>3, <1>4

\* Two pointers of one key are not both in the tables.
LEMMA OneOfAKey ==
    ASSUME IInv, CInv, NEW v \in Vals, NEW w \in Vals, Key[v] = Key[w],
           Holds(th, latest, table, Data(table), v), Holds(th, latest, table, Data(table), w)
    PROVE  v = w
  <1>1. PICK d, p : d = Data(table) /\ p = table[latest].prev
    OBVIOUS
  <1>2. latest \in Tables /\ \A n \in Tables : Tidy(d[n], n)
    BY <1>1 DEF IInv, CInv, WInv, Tidied
  <1>3. p # NoTable => p \in Tables
    BY <1>1, <1>2 DEF IInv, Chained
  <1>4. ASSUME NEW n \in Tables, NEW x \in Vals, NEW y \in Vals, Key[x] = Key[y],
               In(d, n, x), In(d, n, y)
        PROVE  x = y
    <2>1. PICK i \in 0 .. Cap(n) - 1 : d[n][i] = Final(x)
      BY <1>4 DEF In
    <2>2. PICK m \in 0 .. Cap(n) - 1 : d[n][m] = Final(y)
      BY <1>4 DEF In
    <2>3. i = m
      BY <1>2, <1>4, <2>1, <2>2, OneEach, WordsDiffer
    <2> QED
      BY <2>1, <2>2, <2>3, WordsDiffer
  <1>5. ASSUME NEW x \in Vals, NEW y \in Vals, Key[x] = Key[y], In(d, latest, x),
               Holds(th, latest, table, d, y)
        PROVE  In(d, latest, y)
    <2> SUFFICES ASSUME Lacks(d, latest, Key[y]) \/ \E u \in Threads : Ready(th[u], latest, y)
                 PROVE  FALSE
      BY <1>5 DEF Holds
    <2>1. PICK i \in 0 .. Cap(latest) - 1 : d[latest][i] = Final(x)
      BY <1>5 DEF In
    <2>2. ~Lacks(d, latest, Key[y])
      BY <1>5, <2>1, WordsDiffer DEF Lacks
    <2>3. PICK m \in 0 .. Cap(latest) - 1, z \in Vals :
            d[latest][m] = Reserved(z) /\ Key[z] = Key[y]
      BY <1>1, <2>2, ReadyReserved
    <2>4. i = m
      BY <1>2, <1>5, <2>1, <2>3, OneEach, WordsDiffer
    <2> QED
      BY <2>1, <2>3, <2>4, WordsDiffer
  <1>6. CASE In(d, latest, v) \/ In(d, latest, w)
    BY <1>1, <1>2, <1>4, <1>5, <1>6
  <1>7. CASE ~In(d, latest, v) /\ ~In(d, latest, w)
    <2>1. p # NoTable /\ In(d, p, v) /\ In(d, p, w)
      BY <1>1, <1>7 DEF Holds, ToCopy, In
    <2> QED
      BY <1>3, <1>4, <2>1
  <1> QED
    BY <1>6, <1>7

LEMMA CInvIsCanonical ==
    ASSUME IInv, CInv
    PROVE  OneRepresentative
  <1> SUFFICES ASSUME NEW v \in Vals, NEW w \in Vals, got[v] # Nil, got[w] # Nil
               PROVE  got[v] = got[w] <=> Key[v] = Key[w]
    BY DEF OneRepresentative
  <1>1. PICK x, y : x = got[v] /\ y = got[w]
    OBVIOUS
  <1>2. x \in Vals /\ y \in Vals /\ Key[x] = Key[v] /\ Key[y] = Key[w]
    BY <1>1 DEF CInv, WInv, RightKeys
  <1>3. Holds(th, latest, table, Data(table), x) /\ Holds(th, latest, table, Data(table), y)
    BY <1>1, <1>2 DEF CInv, Values, Fixed
  <1> QED
    BY <1>1, <1>2, <1>3, OneOfAKey

LEMMA CInvLosesNone ==
    ASSUME IInv, CInv
    PROVE  NothingLost
  <1> SUFFICES ASSUME NEW v \in Vals, got[v] # Nil
               PROVE  LET e == Found(latest, Key[v])
                          p == table[latest].prev
                      IN  e = Final(got[v]) \/ (/\ e = Empty \/ e.reserved
                                                /\ p # NoTable /\ Found(p, Key[v]) = Final(got[v]))
    BY DEF NothingLost
  <1>1. PICK w, d, e, p, k : /\ w = got[v] /\ d = Data(table) /\ e = Found(latest, Key[v])
                             /\ p = table[latest].prev /\ k = Key[v]
    OBVIOUS
  <1>2. w \in Vals /\ Key[w] = k /\ latest \in Tables
    BY <1>1 DEF CInv, WInv, RightKeys, IInv
  <1>3. \A n \in Tables : d[n] = table[n].data /\ Tidy(table[n].data, n)
    BY <1>1 DEF Data, CInv, WInv, Tidied
  <1>4. ASSUME NEW n \in Tables, In(d, n, w)
        PROVE  Found(n, k) = Final(w)
    <2>1. PICK i \in 0 .. Cap(n) - 1 : table[n].data[i] = Final(w)
      BY <1>3, <1>4 DEF In
    <2>2. Final(w) # Empty /\ Final(w).p = w
      BY <1>2, WordsDiffer
    <2> QED
      BY <1>2, <1>3, <2>1, <2>2, FoundIs
  <1>5. Holds(th, latest, table, d, w)
    BY <1>1, <1>2 DEF CInv, Values, Fixed
  <1>6. CASE In(d, latest, w)
    BY <1>1, <1>2, <1>4, <1>6
  <1>7. CASE ~In(d, latest, w)
    <2>1. /\ ToCopy(th, latest, table, d, w)
          /\ Lacks(d, latest, Key[w]) \/ \E u \in Threads : Ready(th[u], latest, w)
      BY <1>5, <1>7 DEF Holds
    <2>2. p # NoTable /\ p \in Tables
      BY <1>1, <1>2, <2>1 DEF ToCopy, IInv, Chained
    <2>3. In(d, p, w)
      BY <1>1, <2>1 DEF ToCopy, In
    <2>4. Found(p, k) = Final(w)
      BY <1>4, <2>2, <2>3
    <2>5. CASE Lacks(d, latest, Key[w])
      <3>1. Found(latest, Key[w]) = Empty
        BY <1>1, <1>2, <2>5, FoundNone
      <3> QED
        BY <1>1, <1>2, <2>2, <2>4, <3>1
    <2>6. CASE \E u \in Threads : Ready(th[u], latest, w)
      <3>1. PICK i \in 0 .. Cap(latest) - 1, x \in Vals :
              d[latest][i] = Reserved(x) /\ Key[x] = Key[w]
        BY <1>1, <1>2, <2>6, ReadyReserved
      <3>2. /\ table[latest].data[i] = Reserved(x) /\ Reserved(x) # Empty /\ Reserved(x).p = x
            /\ Reserved(x).reserved
        BY <1>2, <1>3, <3>1, WordsDiffer
      <3>3. Found(latest, Key[Reserved(x).p]) = Reserved(x)
        BY <1>2, <1>3, <3>2, FoundIs
      <3>4. e.reserved
        BY <1>1, <1>2, <3>1, <3>2, <3>3
      <3> QED
        BY <1>1, <2>2, <2>4, <3>4
    <2> QED
      BY <2>1, <2>5, <2>6
  <1> QED
    BY <1>6, <1>7

LEMMA SoundWhileRoom ==
    ASSUME Cardinality(Threads) <= 2
    PROVE  Spec /\ []RetriesFit => [](IInv /\ HInv /\ CInv)
  <1>1. AtMostTwo
    BY TwoThreads
  <1>2. Init => IInv /\ HInv /\ CInv
    BY InitIInv, InitHInv, InitCInv
  <1>3. IInv /\ HInv /\ CInv /\ RetriesFit /\ [Next]_vars => (IInv /\ HInv /\ CInv)'
    BY <1>1, StepKeeps, StepKeepsHInv, StepKeepsCInv
  <1> QED
    BY <1>2, <1>3, PTL DEF Spec

\* Interning is canonical between two threads, while no call that probes again for what it has
\* put in a replaced table goes round a full table: equal keys have one pointer, and what has
\* been returned is found in the latest table, or waits to be copied into it from the one
\* before.
THEOREM TwoInternOnce ==
    Cardinality(Threads) <= 2 =>
        (Spec /\ []RetriesFit => [](OneRepresentative /\ NothingLost))
  <1> SUFFICES ASSUME Cardinality(Threads) <= 2
               PROVE  Spec /\ []RetriesFit => [](OneRepresentative /\ NothingLost)
    OBVIOUS
  <1>1. IInv /\ CInv => OneRepresentative /\ NothingLost
    BY CInvIsCanonical, CInvLosesNone
  <1> QED
    BY <1>1, SoundWhileRoom, PTL

LEMMA SoundForFewKeys ==
    ASSUME Cardinality(Threads) <= 2, FewKeys
    PROVE  Spec => [](IInv /\ HInv /\ CInv)
  <1>1. AtMostTwo
    BY TwoThreads
  <1>2. Init => IInv /\ HInv /\ CInv
    BY InitIInv, InitHInv, InitCInv
  <1>3. IInv /\ HInv /\ CInv /\ [Next]_vars => (IInv /\ HInv /\ CInv)'
    BY <1>1, StepKeeps, StepKeepsHInv, StepKeepsCInv, FewKeysFit
  <1> QED
    BY <1>2, <1>3, PTL DEF Spec

\* Interning is canonical between two threads, however often the table is resized, if there
\* are no more keys than words of the first table: calls return the same pointer exactly when
\* what they were given compares equal.
THEOREM TwoReturnOnePointer ==
    Cardinality(Threads) <= 2 /\ FewKeys => (Spec => []OneRepresentative)
  <1> SUFFICES ASSUME Cardinality(Threads) <= 2, FewKeys
               PROVE  Spec => []OneRepresentative
    OBVIOUS
  <1> QED
    BY CInvIsCanonical, SoundForFewKeys, PTL

\* With so few keys two threads lose nothing in a migration: a probe of the latest table, or
\* else of the one before it, finds what a call has returned for a key.
THEOREM TwoLoseNothing ==
    Cardinality(Threads) <= 2 /\ FewKeys => (Spec => []NothingLost)
  <1> SUFFICES ASSUME Cardinality(Threads) <= 2, FewKeys
               PROVE  Spec => []NothingLost
    OBVIOUS
  <1> QED
    BY CInvLosesNone, SoundForFewKeys, PTL
================================================================================

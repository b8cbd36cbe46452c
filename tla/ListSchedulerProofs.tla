-------------------------- MODULE ListSchedulerProofs --------------------------
(***************************************************************************)
(* Theorems about ListScheduler, for blocks of any size and any latencies: *)
(*   - the state stays well typed,                                         *)
(*   - what stops has every node of the block,                             *)
(*   - where calls have no memory the order is one BlockOrder allows, and  *)
(*   - a branch comes last, behind what it tests, when it alone needs that.*)
(* The inductive invariant says what ready_set is for (it holds the nodes  *)
(* that are ready or placed) and when a node may be left out of it: while  *)
(* something it waits for is not placed, or is in flight and will ask.     *)
(***************************************************************************)
EXTENDS ListScheduler, TLAPS

\* What is ready is not placed, and was ready by the code's test.
ReadyIsReady ==
    /\ readied = ready \cup Placed
    /\ ready \cap Placed = {}
    /\ \A n \in ready : IsNodeReady(n, Placed)

Asks(m, n) == n \in Users(m) \cup Sharers(m)

\* A node that could be ready is, or will be asked about when the active one retires.
AskedInTime ==
    \A n \in Nodes \ readied : IsNodeReady(n, Placed) => active # 0 /\ Asks(active, n)

\* The inductive invariant.
IInv == TypeOK /\ ReadyIsReady /\ AskedInTime

-----------------------------------------------------------------------------
(* Schedules                                                                *)

\* A node that is appended is placed, and nothing else changes.
LEMMA AppendPlaces ==
    ASSUME NEW S, NEW s \in Seq(S), NEW n \in S
    PROVE  {Append(s, n)[i] : i \in DOMAIN Append(s, n)} = {s[i] : i \in DOMAIN s} \cup {n}
  <1> DEFINE t == Append(s, n)
  <1>1. /\ DOMAIN s = 1 .. Len(s) /\ Len(s) \in Nat
        /\ DOMAIN t = 1 .. (Len(s) + 1)
        /\ \A i \in 1 .. Len(s) : t[i] = s[i]
        /\ t[Len(s) + 1] = n
    OBVIOUS
  <1>2. \A i \in DOMAIN t : t[i] \in {s[j] : j \in DOMAIN s} \cup {n}
    <2>1. SUFFICES ASSUME NEW i \in DOMAIN t, i # Len(s) + 1
                   PROVE  t[i] \in {s[j] : j \in DOMAIN s}
      BY <1>1
    <2>2. i \in DOMAIN s /\ t[i] = s[i]
      BY <1>1, <2>1
    <2> QED
      BY <2>2
  <1>3. \A j \in DOMAIN s : j \in DOMAIN t /\ t[j] = s[j]
    BY <1>1
  <1>4. Len(s) + 1 \in DOMAIN t
    BY <1>1
  <1> HIDE DEF t
  <1> QED
    BY <1>1, <1>2, <1>3, <1>4 DEF t

\* The nodes a block is made of.
LEMMA BlockShape ==
    ASSUME block \in Blocks
    PROVE  /\ Order!IsBlock(block)
           /\ Nodes \subseteq Nat \ {0}
           /\ \A n \in Nodes : block.in[n] \subseteq Nodes /\ AntiDeps(n) \subseteq Nodes \ {n}
           /\ block.end \in Nodes => ~IsMemOut(block.end)
  <1>1. Order!IsBlock(block)
    BY ListSchedulerAssumption
  <1>2. Nodes \subseteq Nat \ {0} /\ \A n \in Nodes : block.in[n] \subseteq Nodes
    BY <1>1 DEF Order!IsBlock, Nodes
  <1>3. \A n \in Nodes : AntiDeps(n) \subseteq Nodes \ {n}
    BY DEF AntiDeps, Order!ReadersOf, Nodes
  <1>4. block.end \in Nodes => ~IsMemOut(block.end)
    BY <1>1 DEF Order!IsBlock, Nodes, IsMemOut
  <1> QED
    BY <1>1, <1>2, <1>3, <1>4

\* Whoever waits for m hears of it when m retires.
LEMMA WaitersAreAsked ==
    ASSUME block \in Blocks, NEW m \in Nodes, NEW n \in Nodes,
           m \in block.in[n] \cup AntiDeps(n)
    PROVE  Asks(m, n)
  <1>1. CASE m \in block.in[n]
    BY <1>1 DEF Asks, Users
  <1>2. CASE m \in AntiDeps(n)
    <2>1. IsMemOut(n) /\ IsMemIn(n) /\ m # n /\ block.mem[m] = block.mem[n]
      BY <1>2 DEF AntiDeps, Order!ReadersOf
    <2>2. IsMemIn(m) /\ n \in Order!ReadersOf(block, m)
      BY <2>1 DEF IsMemIn, Order!ReadersOf, Nodes
    <2>3. n # block.end
      BY <2>1, BlockShape
    <2> QED
      BY <2>2, <2>3 DEF Asks, Sharers
  <1> QED
    BY <1>1, <1>2

-----------------------------------------------------------------------------
(* The steps                                                                *)

LEMMA InitIInv == Init => IInv
  <1> SUFFICES ASSUME Init
               PROVE  IInv
    OBVIOUS
  <1>1. block \in Blocks /\ Placed = {}
    BY DEF Init, Placed, Order!Placed
  <1>2. TypeOK
    BY <1>1 DEF Init, TypeOK
  <1>3. ReadyIsReady
    BY <1>1 DEF Init, ReadyIsReady
  <1>4. AskedInTime
    BY <1>1 DEF Init, AskedInTime
  <1> QED
    BY <1>2, <1>3, <1>4 DEF IInv

\* What a dispatch does to the state.
LEMMA DispatchPlaces ==
    ASSUME IInv, NEW n, n \in Best, placed' = Append(placed, n), UNCHANGED block
    PROVE  n \in ready /\ n \in Nodes /\ Placed' = Placed \cup {n} /\ Nodes' = Nodes
  <1>1. n \in ready
    BY DEF Best
  <1>2. n \in Nodes /\ placed \in Seq(Nodes)
    BY <1>1 DEF IInv, TypeOK
  <1>3. Placed' = Placed \cup {n}
    BY <1>2, AppendPlaces DEF Placed, Order!Placed
  <1> QED
    BY <1>1, <1>2, <1>3 DEF Nodes

LEMMA DispatchIInv ==
    ASSUME IInv, Dispatch
    PROVE  IInv'
  <1>1. PICK n \in Best : ready' = ready \ {n} /\ placed' = Append(placed, n) /\ active' = n
    BY DEF Dispatch
  <1>2. UNCHANGED <<block, readied, since, time>> /\ active = 0
    BY DEF Dispatch
  <1>3. n \in ready /\ n \in Nodes /\ Placed' = Placed \cup {n} /\ Nodes' = Nodes
    BY <1>1, <1>2, DispatchPlaces
  <1>4. block \in Blocks /\ n # 0
    BY <1>3, BlockShape DEF IInv, TypeOK
  <1>5. \A m : IsMemOut(m)' = IsMemOut(m) /\ IsMemIn(m)' = IsMemIn(m) /\ AntiDeps(m)' = AntiDeps(m)
    BY <1>2 DEF IsMemOut, IsMemIn, AntiDeps, Order!ReadersOf
  <1>6. \A m : Asks(active, m)' <=> Asks(n, m)
    BY <1>1, <1>2, <1>3 DEF Asks, Users, Sharers, IsMemIn, Order!ReadersOf
  <1>7. TypeOK'
    BY <1>1, <1>2, <1>3 DEF IInv, TypeOK
  <1>8. ReadyIsReady'
    <2>1. readied' = ready' \cup Placed' /\ ready' \cap Placed' = {}
      BY <1>1, <1>2, <1>3 DEF IInv, ReadyIsReady
    <2>2. ASSUME NEW m \in ready'
          PROVE  IsNodeReady(m, Placed)'
      BY <1>1, <1>2, <1>3, <1>5, <2>2 DEF IInv, ReadyIsReady, IsNodeReady
    <2> QED
      BY <2>1, <2>2 DEF ReadyIsReady
  <1>9. AskedInTime'
    <2> SUFFICES ASSUME NEW m \in Nodes \ readied, IsNodeReady(m, Placed)'
                 PROVE  active' # 0 /\ Asks(active, m)'
      BY <1>2, <1>3 DEF AskedInTime
    <2>1. block.in[m] \cup AntiDeps(m) \subseteq Placed \cup {n}
      BY <1>2, <1>3, <1>5 DEF IsNodeReady
    <2>2. ~(block.in[m] \cup AntiDeps(m) \subseteq Placed)
      BY <1>2 DEF IInv, AskedInTime, IsNodeReady
    <2>3. n \in block.in[m] \cup AntiDeps(m)
      BY <2>1, <2>2
    <2> QED
      BY <1>1, <1>3, <1>4, <1>6, <2>3, WaitersAreAsked
  <1> QED
    BY <1>7, <1>8, <1>9 DEF IInv

LEMMA RetireIInv ==
    ASSUME IInv, Retire
    PROVE  IInv'
  <1> DEFINE new == {u \in Users(active) \cup Sharers(active) : CanReadyUser(u)}
  <1>1. /\ ready' = ready \cup new /\ readied' = readied \cup new
        /\ since' = [n \in Nodes |-> IF n \in new THEN time + 1 ELSE since[n]]
        /\ time' = time + 1 /\ active' = 0 /\ active # 0
    BY DEF Retire
  <1>2. UNCHANGED <<block, placed>> /\ Placed' = Placed /\ Nodes' = Nodes
    BY DEF Retire, Placed, Order!Placed, Nodes
  <1>3. \A m : IsNodeReady(m, Placed)' <=> IsNodeReady(m, Placed)
    BY <1>2 DEF IsNodeReady, AntiDeps, IsMemOut, IsMemIn, Order!ReadersOf
  <1>4. \A u \in new : u \in Nodes \ (readied \cup Placed) /\ IsNodeReady(u, Placed)
    BY DEF CanReadyUser, Users, Sharers, Order!ReadersOf, Nodes
  <1>5. \A u \in Nodes \ (readied \cup Placed) : Asks(active, u) /\ IsNodeReady(u, Placed) => u \in new
    BY DEF Asks, CanReadyUser
  <1> HIDE DEF new
  <1>6. TypeOK'
    BY <1>1, <1>2, <1>4 DEF IInv, TypeOK
  <1>7. ReadyIsReady'
    BY <1>1, <1>2, <1>3, <1>4 DEF IInv, ReadyIsReady
  <1>8. AskedInTime'
    BY <1>1, <1>2, <1>3, <1>5 DEF IInv, AskedInTime, ReadyIsReady
  <1> QED
    BY <1>6, <1>7, <1>8 DEF IInv

LEMMA StepIInv == IInv /\ [Next]_vars => IInv'
  <1> SUFFICES ASSUME IInv, [Next]_vars
               PROVE  IInv'
    OBVIOUS
  <1>1. CASE Dispatch
    BY <1>1, DispatchIInv
  <1>2. CASE Retire
    BY <1>2, RetireIInv
  <1>3. CASE UNCHANGED vars
    BY <1>3 DEF vars, IInv, TypeOK, ReadyIsReady, AskedInTime, IsNodeReady, AntiDeps, IsMemOut, IsMemIn,
       Asks, Users, Sharers, Placed, Order!Placed, Nodes, Order!ReadersOf
  <1> QED
    BY <1>1, <1>2, <1>3 DEF Next

-----------------------------------------------------------------------------
(* Theorems                                                                 *)

LEMMA Invariance == Spec => []IInv
  BY InitIInv, StepIInv, PTL DEF Spec

\* The schedule, the ready list and the instruction in flight stay what their types say.
THEOREM TypeCorrect == Spec => []TypeOK
  BY Invariance, PTL DEF IInv

\* When tb_list_scheduler has nothing ready and nothing in flight, all of the block is in
\* the schedule: no node's last chance to get ready is missed, the anti-dependencies of
\* stores included, whatever the block and its latencies are.
THEOREM NothingIsLeft == Spec => []NothingLeft
  <1>1. IInv => NothingLeft
    <2> SUFFICES ASSUME IInv, Stopped
                 PROVE  Placed = Nodes
      BY DEF NothingLeft
    <2> DEFINE S == Nodes \ Placed
    <2>1. readied = Placed /\ active = 0 /\ Placed \subseteq Nodes /\ block \in Blocks
      BY DEF IInv, ReadyIsReady, Stopped, TypeOK
    <2>2. SUFFICES ASSUME S # {}
                   PROVE  FALSE
      BY <2>1
    <2>3. PICK n \in S : Order!MustFollow(block, n) \cap S = {}
      BY <2>1, <2>2, BlockShape DEF Order!IsBlock, Order!Orderable, Nodes
    <2>4. block.in[n] \cup AntiDeps(n) \subseteq Order!MustFollow(block, n)
      BY DEF Order!MustFollow, Order!Replaces, AntiDeps, IsMemOut, IsMemIn
    <2>5. block.in[n] \cup AntiDeps(n) \subseteq Nodes
      BY <2>1, BlockShape
    <2>6. IsNodeReady(n, Placed)
      BY <2>3, <2>4, <2>5 DEF IsNodeReady
    <2> QED
      BY <2>1, <2>6 DEF IInv, AskedInTime
  <1> QED
    BY <1>1, Invariance, PTL

\* Where no call of a block has memory, every schedule tb_list_scheduler makes is one
\* BlockOrder allows: each node once, after its inputs, each store after the others that
\* read the memory it replaces.
THEOREM ImplementsBlockOrder ==
    ASSUME \A b \in Blocks : \A n \in DOMAIN b.op : b.op[n] = "call" => b.mem[n] = NoMemory
    PROVE  Spec => OrderedAsPromised
  <1>1. Init => Order!Init
    BY DEF Init, Order!Init
  <1>2. IInv /\ [Next]_vars => [Order!Next]_(Order!vars)
    <2> SUFFICES ASSUME IInv, [Next]_vars
                 PROVE  [Order!Next]_(Order!vars)
      OBVIOUS
    <2>1. CASE Dispatch
      <3>1. PICK n \in Best : placed' = Append(placed, n) /\ UNCHANGED block
        BY <2>1 DEF Dispatch
      <3>2. n \in ready /\ n \in Nodes /\ n \notin Placed /\ IsNodeReady(n, Placed)
        BY <3>1, DispatchPlaces DEF IInv, ReadyIsReady
      <3>3. block \in Blocks
        BY DEF IInv, TypeOK
      <3>4. Order!MustFollow(block, n) \subseteq Placed
        BY <3>2, <3>3 DEF IsNodeReady, AntiDeps, IsMemOut, IsMemIn, Order!MustFollow, Order!Replaces, Nodes, Order!Nodes
      <3>5. Order!Place(n)
        BY <3>1, <3>2, <3>4 DEF Order!Place, Placed
      <3> QED
        BY <3>2, <3>5 DEF Order!Next, Nodes
    <2>2. CASE Retire
      BY <2>2 DEF Retire, Order!vars
    <2>3. CASE UNCHANGED vars
      BY <2>3 DEF vars, Order!vars
    <2> QED
      BY <2>1, <2>2, <2>3 DEF Next
  <1> QED
    BY <1>1, <1>2, Invariance, PTL DEF Spec, OrderedAsPromised, Order!Spec

-----------------------------------------------------------------------------
(* The branch at the end                                                    *)

\* What the branch tests, when nothing else needs it.
Test(n) == n \in Nodes /\ block.lat[n] = 0 /\ NeededByBranch(n)

AtLast(n, i) == placed[i] = n /\ i + 1 = Len(placed) /\ placed[i + 1] = block.end

\* Once n is placed only the branch is left, or it has been put right after n.
ThenBranch(n) ==
    /\ block.end \in Placed => n \in Placed
    /\ n \in Placed =>
        /\ Nodes \ Placed \subseteq {block.end}
        /\ block.end \notin Placed => Len(placed) > 0 /\ placed[Len(placed)] = n
        /\ block.end \in Placed => \E i \in DOMAIN placed : AtLast(n, i)

TestsThenBranch == \A n \in Nodes : Test(n) => ThenBranch(n)

\* What the assumption says of a block with something tested.
LEMMA TestShape ==
    ASSUME block \in Blocks, NEW n \in Nodes, block.lat[n] = 0
    PROVE  /\ block.end \in Nodes /\ n \in block.in[block.end]
           /\ \A m \in Nodes : block.end \notin Order!MustFollow(block, m)
           /\ \A m \in Nodes : block.lat[m] \in Nat /\ (block.lat[m] = 0 => m = n)
  <1>1. Order!IsBlock(block)
    BY ListSchedulerAssumption
  <1>2. Order!TestIsFree(block) /\ \A m \in Nodes : block.lat[m] \in Nat
    BY <1>1 DEF Order!IsBlock, Nodes
  <1>3. block.end \in Nodes /\ block.op[block.end] = "branch" /\ n \in block.in[block.end]
    BY <1>2 DEF Order!TestIsFree, Nodes
  <1> QED
    BY <1>2, <1>3 DEF Order!TestIsFree, Nodes

\* When the tested node is taken nothing else was ready: it is the only one that is free.
LEMMA FreeIsTakenLast ==
    ASSUME IInv, NEW n \in Best, block.lat[n] = 0
    PROVE  ready = {n}
  <1>1. n \in ready /\ ready \subseteq Nodes /\ block \in Blocks
    BY DEF Best, IInv, TypeOK
  <1>2. SUFFICES ASSUME NEW m \in ready
                 PROVE  m = n
    BY <1>1
  <1>3. block.lat[m] \in Nat /\ (block.lat[m] = 0 => m = n)
    BY <1>1, TestShape
  <1>4. block.lat[m] < block.lat[n] \/ block.lat[m] = block.lat[n]
    BY DEF Best
  <1> QED
    BY <1>3, <1>4

\* When the tested node is all that is ready, no other node but the branch is left.
LEMMA OnlyBranchLeft ==
    ASSUME IInv, active = 0, NEW c, ready = {c}, Test(c)
    PROVE  Nodes \ Placed \subseteq {c, block.end}
  <1> DEFINE S == Nodes \ (Placed \cup {c, block.end})
  <1>1. block \in Blocks /\ readied = Placed \cup {c}
    BY DEF IInv, TypeOK, ReadyIsReady
  <1>2. SUFFICES ASSUME S # {}
                 PROVE  FALSE
    OBVIOUS
  <1>3. PICK n \in S : Order!MustFollow(block, n) \cap S = {}
    BY <1>1, <1>2, BlockShape DEF Order!IsBlock, Order!Orderable, Nodes
  <1>4. block.in[n] \cup AntiDeps(n) \subseteq Order!MustFollow(block, n)
    BY DEF Order!MustFollow, Order!Replaces, AntiDeps, IsMemOut, IsMemIn
  <1>5. block.in[n] \cup AntiDeps(n) \subseteq Nodes
    BY <1>1, BlockShape
  <1>6. c \notin Order!MustFollow(block, n) /\ block.end \notin Order!MustFollow(block, n)
    BY <1>1, TestShape DEF Test, NeededByBranch
  <1>7. IsNodeReady(n, Placed)
    BY <1>3, <1>4, <1>5, <1>6 DEF IsNodeReady
  <1> QED
    BY <1>1, <1>7 DEF IInv, AskedInTime

LEMMA DispatchThenBranch ==
    ASSUME IInv, NEW c \in Nodes, Test(c), ThenBranch(c), Dispatch
    PROVE  ThenBranch(c)'
  <1>1. PICK n \in Best : placed' = Append(placed, n)
    BY DEF Dispatch
  <1>2. UNCHANGED block /\ active = 0
    BY DEF Dispatch
  <1>3. n \in ready /\ n \in Nodes /\ Placed' = Placed \cup {n} /\ Nodes' = Nodes
    BY <1>1, <1>2, DispatchPlaces
  <1>4. n \notin Placed /\ IsNodeReady(n, Placed)
    BY <1>3 DEF IInv, ReadyIsReady
  <1>5. /\ block \in Blocks /\ placed \in Seq(Nodes)
        /\ Len(placed) \in Nat /\ Len(placed') = Len(placed) + 1 /\ placed'[Len(placed) + 1] = n
        /\ \A i \in 1 .. Len(placed) : placed'[i] = placed[i]
        /\ DOMAIN placed' = 1 .. (Len(placed) + 1)
    BY <1>1, <1>3 DEF IInv, TypeOK
  <1>6. c \in block.in[block.end] /\ block.end # c
    BY <1>5, TestShape DEF Test, Order!MustFollow
  <1>7. CASE n = c
    <2>1. ready = {c}
      BY <1>1, <1>7, FreeIsTakenLast DEF Test
    <2>2. Nodes \ Placed \subseteq {c, block.end}
      BY <1>2, <2>1, OnlyBranchLeft
    <2>3. block.end \notin Placed'
      BY <1>3, <1>4, <1>6, <1>7 DEF ThenBranch
    <2> QED
      BY <1>2, <1>3, <1>5, <1>7, <2>2, <2>3 DEF ThenBranch
  <1>8. CASE n = block.end
    <2>1. c \in Placed
      BY <1>4, <1>6, <1>8 DEF IsNodeReady
    <2>2. Len(placed) > 0 /\ placed[Len(placed)] = c /\ Nodes \ Placed \subseteq {block.end}
      BY <1>4, <1>8, <2>1 DEF ThenBranch
    <2>3. PICK k \in Nat : k = Len(placed)
      BY <1>5
    <2>4. k \in DOMAIN placed' /\ AtLast(c, k)'
      BY <1>2, <1>5, <1>8, <2>2, <2>3 DEF AtLast
    <2> QED
      BY <1>2, <1>3, <1>8, <2>1, <2>2, <2>4 DEF ThenBranch
  <1>9. CASE n # c /\ n # block.end
    <2>1. c \notin Placed
      BY <1>3, <1>4, <1>9 DEF ThenBranch
    <2> QED
      BY <1>2, <1>3, <1>9, <2>1 DEF ThenBranch
  <1> QED
    BY <1>7, <1>8, <1>9

\* Of a block whose branch tests a value that nothing else in the block needs, the schedule
\* ends with that value and the branch: latency 0 puts it behind all that does not need it.
THEOREM BranchFollowsTest == Spec => []TestThenBranch
  <1>1. Init => TestsThenBranch
    BY DEF Init, TestsThenBranch, ThenBranch, Placed, Order!Placed
  <1>2. IInv /\ TestsThenBranch /\ [Next]_vars => TestsThenBranch'
    <2> SUFFICES ASSUME IInv, TestsThenBranch, [Next]_vars, NEW c \in Nodes', Test(c)'
                 PROVE  ThenBranch(c)'
      BY DEF TestsThenBranch
    <2>1. UNCHANGED block
      BY DEF Next, Dispatch, Retire, vars
    <2>2. c \in Nodes /\ Test(c)
      BY <2>1 DEF Test, NeededByBranch, Nodes, Order!MustFollow, Order!Replaces, Order!ReadersOf, Order!Nodes
    <2>3. ThenBranch(c)
      BY <2>2 DEF TestsThenBranch
    <2>4. CASE Dispatch
      BY <2>2, <2>3, <2>4, DispatchThenBranch
    <2>5. CASE UNCHANGED <<block, placed>>
      BY <2>3, <2>5 DEF ThenBranch, AtLast, Placed, Order!Placed, Nodes
    <2> QED
      BY <2>4, <2>5 DEF Next, Retire, vars
  <1>3. IInv /\ TestsThenBranch /\ NothingLeft => TestThenBranch
    <2> SUFFICES ASSUME IInv, TestsThenBranch, NothingLeft, Stopped,
                        NEW n \in Nodes, block.lat[n] = 0, NeededByBranch(n)
                 PROVE  EndsWith(n)
      BY DEF TestThenBranch
    <2>1. ThenBranch(n)
      BY DEF TestsThenBranch, Test
    <2>2. n \in Placed /\ block.end \in Placed
      BY TestShape DEF IInv, TypeOK, NothingLeft
    <2> QED
      BY <2>1, <2>2 DEF ThenBranch, AtLast, EndsWith
  <1> QED
    BY <1>1, <1>2, <1>3, Invariance, NothingIsLeft, PTL DEF Spec
===============================================================================

--------------------------- MODULE PoolListProofs ---------------------------
(***************************************************************************)
(* The two lists of the custom memory pool, which share one link per       *)
(* block: what the free list is with one thread that pops, what the list   *)
(* of all blocks is to a single thread and to threads that never free, and *)
(* what follows for the walks over it.                                     *)
(***************************************************************************)
EXTENDS PoolHeapProofs, WellFoundedInduction, NaturalsInduction

-----------------------------------------------------------------------------
(* Chains in any memory m.  A fact about every block of a chain is proved   *)
(* by showing that the blocks it holds of are closed under the links.       *)
Cells == [size : Nat, used : BOOLEAN, address : Nat, next : Links]

LEMMA ChainLeast ==
  ASSUME NEW m, NEW h, NEW S \in SUBSET Blocks, Follows(m, h, S)
  PROVE  ChainIn(m, h) \subseteq S
BY DEF ChainIn

LEMMA ChainFollows ==
  ASSUME NEW m \in [Blocks -> Cells], NEW h \in Links
  PROVE  Follows(m, h, ChainIn(m, h)) /\ ChainIn(m, h) \subseteq Blocks
<1>1. ASSUME h # 0 PROVE h \in ChainIn(m, h)
  BY <1>1 DEF ChainIn, Follows, Links, Blocks
<1>2. ASSUME NEW b \in ChainIn(m, h), m[b].next # 0 PROVE m[b].next \in ChainIn(m, h)
  <2>1. b \in Blocks BY DEF ChainIn
  <2>2. m[b].next \in Blocks BY <1>2, <2>1 DEF Cells, Links, Blocks
  <2> QED BY <1>2, <2>2 DEF ChainIn, Follows
<1> QED BY <1>1, <1>2 DEF Follows, ChainIn

\* The chain is the same when no block of it gets another link.
LEMMA ChainKept ==
  ASSUME NEW m \in [Blocks -> Cells], NEW n \in [Blocks -> Cells], NEW h \in Links,
         \A b \in ChainIn(m, h) : n[b].next = m[b].next
  PROVE  ChainIn(n, h) = ChainIn(m, h)
<1>1. Follows(n, h, ChainIn(m, h)) BY ChainFollows DEF Follows
<1>2. ChainIn(n, h) \subseteq ChainIn(m, h) BY <1>1, ChainFollows, ChainLeast
<1>3. Follows(m, h, ChainIn(n, h)) BY <1>2, ChainFollows DEF Follows
<1>4. ChainIn(m, h) \subseteq ChainIn(n, h) BY <1>3, ChainFollows, ChainLeast
<1> QED BY <1>2, <1>4

\* A block b put in front of a chain that does not visit it.
LEMMA ChainPush ==
  ASSUME NEW m \in [Blocks -> Cells], NEW h \in Links, NEW b \in Blocks,
         b \notin ChainIn(m, h), NEW n \in [Blocks -> Cells], n[b].next = h,
         \A c \in ChainIn(m, h) : n[c].next = m[c].next
  PROVE  ChainIn(n, b) = ChainIn(m, h) \cup {b}
<1> DEFINE C == ChainIn(m, h)
<1>1. b \in Links /\ b # 0 BY DEF Links, Blocks
<1>2. Follows(n, b, C \cup {b})
  BY <1>1, ChainFollows DEF Follows
<1>3. ChainIn(n, b) \subseteq C \cup {b} BY <1>2, ChainFollows, ChainLeast
<1>4. Follows(n, b, ChainIn(n, b)) BY <1>1, ChainFollows
<1>5. Follows(n, h, ChainIn(n, b)) /\ b \in ChainIn(n, b)
  BY <1>1, <1>4 DEF Follows
<1>6. ChainIn(n, h) \subseteq ChainIn(n, b) BY <1>1, <1>5, ChainFollows, ChainLeast
<1>7. ChainIn(n, h) = C BY ChainKept
<1> QED BY <1>3, <1>5, <1>6, <1>7

\* A chain is its first block and the chain of that block's link.
LEMMA ChainFirst ==
  ASSUME NEW m \in [Blocks -> Cells], NEW h \in Blocks
  PROVE  /\ h \in ChainIn(m, h)
         /\ ChainIn(m, h) \subseteq {h} \cup ChainIn(m, m[h].next)
<1>1. h \in Links /\ h # 0 /\ m[h].next \in Links BY DEF Links, Blocks, Cells
<1>2. h \in ChainIn(m, h) BY <1>1, ChainFollows DEF Follows
<1>3. Follows(m, h, {h} \cup ChainIn(m, m[h].next)) BY <1>1, ChainFollows DEF Follows
<1> QED BY <1>1, <1>2, <1>3, ChainFollows, ChainLeast

-----------------------------------------------------------------------------
(* Sums over the blocks.  What a sum by recursion is follows from the least *)
(* number of blocks for which it would be something else.                   *)
LEMMA LeastNumber ==
  ASSUME NEW S, S \subseteq Nat, S # {}
  PROVE  \E x \in S : \A y \in S : x <= y
<1> DEFINE Less == OpToRel(<, Nat)
<1>1. Less = {p \in Nat \X Nat : p[1] < p[2]} BY DEF OpToRel
<1>2. IsWellFoundedOn(Less, Nat) BY NatLessThanWellFounded
<1> HIDE DEF Less
<1>3. PICK x \in S : \A y \in S : ~(<<y, x>> \in Less) BY <1>2, WFMin, Zenon
<1>4. ASSUME NEW y \in S PROVE x <= y
  <2> DEFINE p == <<y, x>>
  <2>1. SUFFICES ASSUME y < x PROVE FALSE OBVIOUS
  <2>2. p \in Nat \X Nat /\ p[1] < p[2] BY <2>1
  <2>3. p \notin Less BY <1>3
  <2> HIDE DEF p
  <2> QED BY <1>1, <2>2, <2>3
<1> QED BY <1>4

Sum(w, n, g) == /\ g \in [0 .. n -> Nat] /\ g[0] = 0
                /\ \A k \in 1 .. n : g[k] = g[k - 1] + w[k]

LEMMA SumExists ==
  ASSUME NEW M \in Nat, NEW w \in [1 .. M -> Nat]
  PROVE  \E g : Sum(w, M, g)
<1> DEFINE Without == {n \in 0 .. M : ~\E g : Sum(w, n, g)}
<1>0. M \in 0 .. M OBVIOUS
<1> SUFFICES ASSUME Without # {} PROVE FALSE BY <1>0, Zenon DEF Without
<1>1. PICK n \in Without : \A k \in Without : n <= k
  <2>1. Without \subseteq Nat BY DEF Without
  <2> HIDE DEF Without
  <2> QED BY <2>1, LeastNumber
<1>2. n \in 0 .. M /\ ~\E g : Sum(w, n, g) BY DEF Without
<1>3. CASE n = 0
  <2>1. Sum(w, 0, [k \in 0 .. 0 |-> 0]) BY DEF Sum
  <2> QED BY <1>2, <1>3, <2>1
<1>4. CASE n > 0
  <2>1. n - 1 \in 0 .. M /\ n - 1 \notin Without BY <1>1, <1>2, <1>4
  <2>2. PICK g : Sum(w, n - 1, g) BY <2>1
  <2> DEFINE h == [k \in 0 .. n |-> IF k = n THEN g[n - 1] + w[n] ELSE g[k]]
  <2>3. g[n - 1] \in Nat /\ w[n] \in Nat BY <1>2, <1>4, <2>2 DEF Sum
  <2>4. h \in [0 .. n -> Nat] BY <1>2, <1>4, <2>2, <2>3 DEF Sum
  <2>5. h[0] = 0 BY <1>2, <1>4, <2>2 DEF Sum
  <2>6. ASSUME NEW k \in 1 .. n PROVE h[k] = h[k - 1] + w[k]
    <3>0. n \in Nat BY <1>2
    <3>1. CASE k = n BY <3>0, <3>1
    <3>2. CASE k # n
      <4>1. k \in 1 .. n - 1 /\ k - 1 # n /\ k \in 0 .. n /\ k - 1 \in 0 .. n BY <3>0, <3>2
      <4>2. g[k] = g[k - 1] + w[k] BY <2>2, <4>1 DEF Sum
      <4> QED BY <3>2, <4>1, <4>2
    <3> QED BY <3>1, <3>2
  <2>7. Sum(w, n, h) BY <2>4, <2>5, <2>6 DEF Sum
  <2> QED BY <1>2, <2>7
<1> QED BY <1>2, <1>3, <1>4

LEMMA TotalsSum ==
  ASSUME NEW w \in [Blocks -> Nat]
  PROVE  Sum(w, MaxBlocks, Totals(w))
<1> DEFINE Term(f, n) == IF n = 0 THEN 0 ELSE f[n - 1] + w[n]
           Sums(f) == f = [n \in 0 .. MaxBlocks |-> Term(f, n)]
<1>1. PICK g : Sum(w, MaxBlocks, g) BY SumExists, SizesAssumption DEF Blocks
<1>2. Sums(g)
  <2>1. MaxBlocks \in Nat BY SizesAssumption
  <2>2. g = [n \in 0 .. MaxBlocks |-> g[n]] BY <1>1 DEF Sum
  <2>3. \A n \in 0 .. MaxBlocks : g[n] = Term(g, n) BY <1>1, <2>1 DEF Sum
  <2> QED BY <2>2, <2>3
<1>3. Totals(w) = CHOOSE f : Sums(f) BY DEF Totals
<1>4. Sums(Totals(w)) BY <1>2, <1>3
<1> DEFINE T == Totals(w)
<1>5. T = [n \in 0 .. MaxBlocks |-> Term(T, n)] BY <1>4
<1> HIDE DEF T
<1>6. MaxBlocks \in Nat BY SizesAssumption
<1>7. T[0] = 0 /\ \A k \in 1 .. MaxBlocks : T[k] = T[k - 1] + w[k] BY <1>5, <1>6
<1>8. \A k \in 0 .. MaxBlocks : T[k] \in Nat
  <2> DEFINE Other == {k \in 0 .. MaxBlocks : T[k] \notin Nat}
  <2> SUFFICES ASSUME Other # {} PROVE FALSE OBVIOUS
  <2>1. PICK k \in Other : \A j \in Other : k <= j
    <3>1. Other \subseteq Nat OBVIOUS
    <3> HIDE DEF Other
    <3> QED BY <3>1, LeastNumber
  <2>2. k # 0 /\ k \in 1 .. MaxBlocks BY <1>6, <1>7
  <2>3. k - 1 \in 0 .. MaxBlocks /\ k - 1 \notin Other BY <1>6, <2>1, <2>2
  <2>4. T[k - 1] \in Nat /\ w[k] \in Nat BY <2>2, <2>3 DEF Blocks
  <2> QED BY <1>7, <2>2, <2>4
<1>9. T \in [0 .. MaxBlocks -> Nat] BY <1>5, <1>8
<1> QED BY <1>7, <1>9 DEF Sum, T

LEMMA TotalsMonotone ==
  ASSUME NEW w \in [Blocks -> Nat], NEW i \in 0 .. MaxBlocks, NEW j \in 0 .. MaxBlocks, i <= j
  PROVE  Totals(w)[i] <= Totals(w)[j]
<1> DEFINE T == Totals(w)
           Lower == {k \in i .. MaxBlocks : ~(T[i] <= T[k])}
<1>1. /\ T \in [0 .. MaxBlocks -> Nat] /\ MaxBlocks \in Nat
      /\ \A k \in 1 .. MaxBlocks : T[k] = T[k - 1] + w[k] /\ w[k] \in Nat
  BY TotalsSum, SizesAssumption DEF Sum, Blocks
<1> HIDE DEF T
<1> SUFFICES ASSUME Lower # {} PROVE FALSE BY DEF T
<1>2. PICK k \in Lower : \A m \in Lower : k <= m
  <2>1. Lower \subseteq Nat OBVIOUS
  <2> HIDE DEF Lower
  <2> QED BY <2>1, LeastNumber
<1>3. k # i BY <1>1
<1>4. k \in 1 .. MaxBlocks /\ k - 1 \in i .. MaxBlocks /\ k - 1 \notin Lower BY <1>1, <1>2, <1>3
<1>5. T[i] <= T[k - 1] /\ T[k] = T[k - 1] + w[k] /\ w[k] \in Nat BY <1>1, <1>4
<1>6. T[i] \in Nat /\ T[k - 1] \in Nat BY <1>1, <1>4
<1> QED BY <1>5, <1>6

-----------------------------------------------------------------------------
(* The free list, with one thread that pops and any number that free. *)
LEMMA ExactNext ==
  ASSUME TypeOK, TypeOK', IndInv, FreeListExact, [Next]_vars
  PROVE  FreeListExact'
<1> SUFFICES ASSUME Running' PROVE ChainIn(mem', freeList') = onFree'
  BY DEF FreeListExact, Chain
<1> USE DEF memory, arena, client
<1>1. CASE UNCHANGED vars
  BY <1>1 DEF vars, FreeListExact, Chain, Running
<1>2. CASE ~UNCHANGED vars
  <2>0. Next /\ Running
    BY <1>2, CallRuns, StepRuns DEF Next, Stopped
  <2>1. /\ mem \in [Blocks -> Cells] /\ mem' \in [Blocks -> Cells]
        /\ freeList \in Links /\ freeList' \in Links
    BY DEF TypeOK, Cells
  <2>2. ChainIn(mem, freeList) = onFree BY <2>0 DEF FreeListExact, Chain
  <2>3. \A b \in onFree : mem'[b].next = mem[b].next BY <2>0, FreeLinkKept
  <2>4. CASE UNCHANGED <<freeList, onFree>> BY <2>1, <2>2, <2>3, <2>4, ChainKept
  <2>5. ASSUME NEW t \in Threads, InitStores(t) PROVE ChainIn(mem', freeList') = onFree'
    <3>1. onFree' = {} /\ freeList' = 0
      BY <2>0, <2>5 DEF InitStores, At, IndInv, CallSound, MallocSound, Startup
    <3>2. Follows(mem', 0, {}) BY DEF Follows
    <3> QED BY <3>1, <3>2, ChainLeast
  <2>6. ASSUME NEW t \in Threads, PopCAS(t), ~UNCHANGED <<freeList, onFree>>
        PROVE  ChainIn(mem', freeList') = onFree'
    <3> DEFINE b == th[t].blk
    <3>1. /\ th[t].pc = "m_cas" /\ freeList = b /\ freeList' = th[t].lnk
          /\ onFree' = onFree \ {b} /\ mem' = mem
      BY <2>6 DEF PopCAS, At, PopWins
    <3>2. b \in onFree /\ th[t].lnk = mem[b].next
      BY <2>0, <3>1 DEF IndInv, CallSound, MallocSound
    <3>3. /\ b \in Blocks /\ mem[b].next \in onFree' \cup {0}
          /\ \A c \in onFree' : mem[c].next \in onFree' \cup {0}
      BY <2>0, <3>1, <3>2 DEF IndInv, FreeListShape, TypeOK
    <3>4. Follows(mem, freeList', onFree') BY <3>1, <3>2, <3>3 DEF Follows
    <3>5. ChainIn(mem, freeList') \subseteq onFree' BY <3>4, ChainLeast DEF TypeOK
    <3>6. onFree \subseteq {b} \cup ChainIn(mem, freeList')
      BY <2>1, <2>2, <3>1, <3>2, <3>3, ChainFirst
    <3> QED BY <3>1, <3>5, <3>6
  <2>7. ASSUME NEW t \in Threads, PushCAS(t), ~UNCHANGED <<freeList, onFree>>
        PROVE  ChainIn(mem', freeList') = onFree'
    <3> DEFINE b == th[t].blk
    <3>1. /\ th[t].pc = "f_cas" /\ freeList = th[t].lnk /\ freeList' = b
          /\ onFree' = onFree \cup {b} /\ mem' = mem
      BY <2>7 DEF PushCAS, At, PushWins
    <3>2. b \in Blocks /\ b \notin onFree /\ mem[b].next = freeList
      BY <2>0, <3>1, BlocksMade DEF IndInv, CallSound, FreeSound
    <3> QED BY <2>1, <2>2, <3>1, <3>2, ChainPush
  <2>8. ASSUME NEW t \in Threads, CleanupEnd(t) PROVE FALSE BY <2>8 DEF CleanupEnd, Running
  <2>9. ASSUME NEW t \in Threads, Call(t) PROVE UNCHANGED <<freeList, onFree>>
    BY <2>9 DEF Call, MallocCall, CallocCall, FreeCall, DoubleFreeCall, ReallocCall,
                UsageCall, CleanupCall
  <2>10. ASSUME NEW t \in Threads, Step(t), ~InitStores(t), ~PushCAS(t), ~PopCAS(t),
                ~CleanupEnd(t)
        PROVE  UNCHANGED <<freeList, onFree>>
    BY <2>10 DEF Step, InitPool, PopLoad, PopReadNext, MallocTake, MallocAdd, MallocLink,
                WalkLock, WalkOn, FreeFound, FreeClear, PushLoad, PushLink, ReallocFound,
                UsageStep, UsageUnlock, UsageLog, CleanupDelete
  <2>11. PICK t \in Threads : Call(t) \/ Step(t) BY <1>2, <2>0 DEF Next, Stopped
  <2> QED BY <2>4, <2>5, <2>6, <2>7, <2>8, <2>9, <2>10, <2>11
<1> QED BY <1>1, <1>2

\* The chain from freeList visits exactly the blocks that PushFreeBlock put there
\* and PopFreeBlock has not taken, whatever the races: none is lost, none comes
\* back.
THEOREM FreeListExactHolds ==
  ASSUME SinglePopper
  PROVE  Spec => []FreeListExact
<1>1. Init => FreeListExact
  <2> SUFFICES ASSUME Init PROVE ChainIn(mem, 0) \subseteq {}
    BY DEF Init, FreeListExact, Chain
  <2>1. Follows(mem, 0, {}) BY DEF Follows
  <2> QED BY <2>1, ChainLeast
<1>2. TypeOK /\ TypeOK' /\ IndInv /\ FreeListExact /\ [Next]_vars => FreeListExact'
  BY ExactNext
<1> QED BY <1>1, <1>2, Inductive, PTL DEF Spec

-----------------------------------------------------------------------------
(* The list of all blocks, with one thread.                                 *)
OneThread == \A x, y \in Threads : x = y

\* The chain from head, as the proofs below use it.
LEMMA HeadChain ==
  ASSUME TypeOK, LinksMade, HeadDescends, Running
  PROVE  /\ mem \in [Blocks -> Cells] /\ head \in Links /\ freeList \in Links
         /\ nblocks \in Nat /\ Chain(head) \subseteq 1 .. nblocks /\ 1 .. nblocks \subseteq Blocks
         /\ Follows(mem, head, Chain(head)) /\ Chain(head) = ChainIn(mem, head)
<1>1. /\ mem \in [Blocks -> Cells] /\ head \in Links /\ freeList \in Links /\ nblocks \in Nat
  BY SizesAssumption DEF TypeOK, Cells, Links
<1>2. Follows(mem, head, Chain(head)) /\ Chain(head) \subseteq Blocks
  BY <1>1, ChainFollows DEF Chain
<1>3. head <= nblocks /\ head \in Nat BY <1>1 DEF LinksMade
<1>4. \A b \in Chain(head) : b <= head BY DEF HeadDescends
<1>5. Chain(head) \subseteq 1 .. nblocks BY <1>1, <1>2, <1>3, <1>4 DEF Blocks
<1> QED BY <1>1, <1>2, <1>5, BlocksMade DEF Chain

\* What every step of the one thread t starts from.
Sequential(t) ==
  /\ TypeOK /\ TypeOK' /\ LinksMade /\ IndInv /\ FreeListExact /\ SequentialInv
  /\ Running /\ OneThread /\ t \in Threads

LEMMA SequentialFacts ==
  ASSUME NEW t, Sequential(t)
  PROVE  /\ TypeOK /\ TypeOK' /\ LinksMade /\ Running /\ t \in Threads /\ th[t] \in Locals
         /\ HeadDescends /\ PushOrdered(t) /\ WalkOrdered(t) /\ OwnersFound(t) /\ CountSound(t)
         /\ LinkSound(t) /\ MallocSound(t) /\ FreeSound(t) /\ BlocksTile /\ FreeListShape
         /\ \A u \in Threads : u = t
BY DEF Sequential, TypeOK, LinksMade, SequentialInv, IndInv, CallSound, OneThread

\* A step that writes no link of the memory and moves no head.
LEMMA LinksStay ==
  ASSUME NEW t, Sequential(t), UNCHANGED <<head, freeList, onFree>>,
         \A b \in Blocks : mem'[b].next = mem[b].next
  PROVE  Chain(head)' = Chain(head) /\ HeadDescends'
<1>0. TypeOK /\ TypeOK' /\ LinksMade /\ HeadDescends /\ Running BY SequentialFacts
<1>1. mem' \in [Blocks -> Cells] BY <1>0 DEF TypeOK, Cells
<1>2. Chain(head)' = Chain(head) BY <1>0, <1>1, HeadChain, ChainKept DEF Chain
<1>3. Chain(head) \subseteq Blocks /\ onFree \subseteq Blocks BY <1>0, HeadChain DEF TypeOK
<1> QED BY <1>0, <1>2, <1>3 DEF HeadDescends

LEMMA SequentialKept ==
  ASSUME NEW t, Sequential(t), UNCHANGED <<head, freeList, onFree>>,
         \A b \in Blocks : mem'[b].next = mem[b].next,
         PushOrdered(t)', WalkOrdered(t)', OwnersFound(t)', CountSound(t)'
  PROVE  SequentialInv'
BY SequentialFacts, LinksStay DEF SequentialInv

\* Where a thread is neither walking, counting nor pushing.
Elsewhere == {"idle", "m_init", "m_setup", "m_pop", "m_next", "m_cas", "m_take", "m_add",
              "m_link", "f_lock", "r_lock"}

LEMMA ElsewhereOrdered ==
  ASSUME NEW t, Sequential(t), th'[t].pc \in Elsewhere, th[t].pc # "c_walk", UNCHANGED deleted,
         th'[t].usedMemory = 0, th'[t].freeMemory = 0
  PROVE  PushOrdered(t)' /\ WalkOrdered(t)' /\ CountSound(t)'
<1>1. deleted' = {} BY SequentialFacts DEF WalkOrdered
<1> QED BY <1>1 DEF PushOrdered, WalkOrdered, CountSound, Walks, Elsewhere

LEMMA ReturnSequential ==
  ASSUME NEW t, Sequential(t), InMalloc(t) \/ th[t].pc \in {"idle", "r_walk"},
         NEW p \in Int, NEW s, MallocReturn(t, p, s), UNCHANGED <<head, freeList, onFree, deleted>>,
         \A b \in Blocks : mem'[b].next = mem[b].next /\ mem'[b].address = mem[b].address,
         \A b \in Blocks : mem'[b].used => mem[b].used \/ (p # 0 /\ mem[b].address = p)
  PROVE  SequentialInv'
<1> DEFINE l == th[t]  k == th'[t]
<1>0. /\ TypeOK /\ LinksMade /\ Running /\ HeadDescends /\ t \in Threads /\ l \in Locals
      /\ OwnersFound(t)
  BY SequentialFacts
<1>1. \/ k = Idle /\ (p = 0 \/ l.ptr = 0)
      \/ k = [Idle EXCEPT !.pc = "f_lock", !.ptr = l.ptr, !.res = p] /\ p # 0
  BY <1>0 DEF MallocReturn, TypeOK
<1>2. /\ k.pc \in {"idle", "f_lock"} /\ k.usedMemory = 0 /\ k.freeMemory = 0
      /\ p # 0 /\ l.ptr # 0 => k.pc = "f_lock" /\ k.ptr = l.ptr
  <2>1. CASE k = Idle /\ (p = 0 \/ l.ptr = 0) BY <2>1 DEF Idle
  <2>2. CASE k = [Idle EXCEPT !.pc = "f_lock", !.ptr = l.ptr, !.res = p] BY <2>2 DEF Idle
  <2> QED BY <1>1, <2>1, <2>2
<1>3. Chain(head)' = Chain(head) BY LinksStay
<1>4. ASSUME NEW b \in Chain(head), mem'[b].used PROVE Owned(b)' \/ UsedFound(b, t)'
  <2>1. b \in 1 .. nblocks /\ b \in Blocks BY <1>0, HeadChain
  <2>2. CASE p # 0 /\ mem[b].address = p
    <3>1. [addr |-> p, size |-> s] \in live' BY <2>2 DEF MallocReturn, LiveAfter, Granted
    <3> QED BY <2>1, <2>2, <3>1 DEF Owned
  <2>3. CASE mem[b].used
    <3>1. l.pc \notin {"f_lock", "f_walk", "f_clear"} BY DEF InMalloc
    <3>2. PICK e \in live : e.addr = mem[b].address
      BY <1>0, <2>3, <3>1 DEF OwnersFound, UsedFound, Owned
    <3>3. mem[b].address # 0 BY <1>0, <2>1 DEF LinksMade
    <3>4. CASE p = 0 \/ e.addr # l.ptr
      <4>1. e \in live' BY <3>4 DEF MallocReturn, LiveAfter, Granted
      <4> QED BY <2>1, <3>2, <4>1 DEF Owned
    <3>5. CASE p # 0 /\ e.addr = l.ptr
      BY <1>2, <2>1, <3>2, <3>3, <3>5 DEF UsedFound
    <3> QED BY <3>4, <3>5
  <2>4. mem[b].used \/ (p # 0 /\ mem[b].address = p) BY <1>4, <2>1, Zenon
  <2> QED BY <2>2, <2>3, <2>4, Zenon
<1>5. OwnersFound(t)' BY <1>3, <1>4 DEF OwnersFound
<1>6. l.pc # "c_walk" BY DEF InMalloc
<1> QED BY <1>2, <1>5, <1>6, ElsewhereOrdered, SequentialKept DEF Elsewhere

\* A step to one of those places that hands nothing out, from one of them.
LEMMA ElsewhereSequential ==
  ASSUME NEW t, Sequential(t), th'[t].pc \in Elsewhere, th[t].pc \notin {"c_walk", "u_walk", "u_log"},
         UNCHANGED <<head, freeList, onFree, deleted>>,
         th'[t].usedMemory = th[t].usedMemory, th'[t].freeMemory = th[t].freeMemory,
         \A b \in Blocks : mem'[b].next = mem[b].next /\ mem'[b].address = mem[b].address,
         \A b \in Chain(head) : mem'[b].used => Owned(b)' \/ UsedFound(b, t)'
  PROVE  SequentialInv'
<1>1. th'[t].usedMemory = 0 /\ th'[t].freeMemory = 0 BY SequentialFacts DEF CountSound
<1>2. OwnersFound(t)' BY LinksStay DEF OwnersFound
<1> QED BY <1>1, <1>2, ElsewhereOrdered, SequentialKept

LEMMA EnterMallocSequential ==
  ASSUME NEW t, Sequential(t), th[t].pc \in {"idle", "r_walk"}, NEW s, EnterMalloc(t, s),
         UNCHANGED <<head, freeList, onFree, mem, deleted>>
  PROVE  SequentialInv'
<1> DEFINE l == th[t]  k == th'[t]
<1>0. TypeOK /\ t \in Threads /\ l \in Locals /\ OwnersFound(t) BY SequentialFacts
<1>1. CASE MallocReturn(t, 0, s) BY <1>1, ReturnSequential
<1>2. CASE \E c \in (1 .. MaxCrt) \ crtHeap : MallocReturn(t, -c, s)
  <2>1. PICK c \in (1 .. MaxCrt) \ crtHeap : MallocReturn(t, -c, s) BY <1>2
  <2>2. -c \in Int BY SizesAssumption
  <2> QED BY <2>1, <2>2, ReturnSequential
<1>3. CASE th' = [th EXCEPT ![t].pc = "m_init", ![t].req = s] /\ UNCHANGED live
  <2>1. k = [l EXCEPT !.pc = "m_init", !.req = s] BY <1>0, <1>3 DEF TypeOK
  <2>2. k.pc = "m_init" /\ k.usedMemory = l.usedMemory /\ k.freeMemory = l.freeMemory
    BY <1>0, <2>1 DEF Locals
  <2>3. \A b \in Chain(head) : mem'[b].used => Owned(b)'
    BY <1>0, <1>3 DEF OwnersFound, UsedFound, Owned
  <2> QED BY <2>2, <2>3, ElsewhereSequential DEF Elsewhere
<1> QED BY <1>1, <1>2, <1>3 DEF EnterMalloc

\* The sums that DebugMemoryUsage is compared with do not move under a walk.
LEMMA SumsStay ==
  ASSUME UNCHANGED <<mem, live, nblocks>>
  PROVE  /\ OwnedSizes' = OwnedSizes /\ LiveBytes' = LiveBytes
         /\ \A b : UpTo(b)' = UpTo(b) /\ Owned(b)' = Owned(b)
         /\ \A b : Totals(OwnedSizes)'[b] = Totals(OwnedSizes)[b]
BY DEF OwnedSizes, LiveBytes, Owned, UpTo

LEMMA SizesOwned ==
  ASSUME TypeOK
  PROVE  OwnedSizes \in [Blocks -> Nat]
BY DEF TypeOK, OwnedSizes

LEMMA CallSequential ==
  ASSUME NEW t, Sequential(t), Call(t)
  PROVE  SequentialInv'
<1> USE DEF memory, arena, client
<1> DEFINE l == th[t]  k == th'[t]  C == Chain(head)
<1>0. /\ TypeOK /\ LinksMade /\ Running /\ t \in Threads /\ l \in Locals /\ OwnersFound(t)
      /\ HeadDescends /\ BlocksTile
  BY SequentialFacts
<1>1. C \subseteq 1 .. nblocks /\ 1 .. nblocks \subseteq Blocks BY <1>0, HeadChain
<1>2. l.pc = "idle"
  BY <1>0 DEF Call, MallocCall, CallocCall, FreeCall, DoubleFreeCall, ReallocCall, UsageCall,
              CleanupCall, MayCall, At
<1>3. ASSUME NEW b \in C, mem[b].used PROVE Owned(b) /\ ~(mem[b].address < 0)
  BY <1>0, <1>1, <1>2, <1>3, AddressNotNull DEF OwnersFound, UsedFound
<1>4. ASSUME NEW s, MallocCall(t, s) PROVE SequentialInv'
  BY <1>2, <1>4, EnterMallocSequential DEF MallocCall
<1>5. ASSUME NEW e \in live, FreeCall(t, e) PROVE SequentialInv'
  <2>1. ASSUME NEW b \in C, mem[b].used, e.addr # mem[b].address PROVE Owned(b)'
    <3>1. PICK g \in live : g.addr = mem[b].address BY <1>3, <2>1 DEF Owned
    <3>2. g \in live' BY <1>5, <2>1, <3>1 DEF FreeCall
    <3> QED BY <1>5, <3>1, <3>2 DEF FreeCall, Owned
  <2>2. CASE th' = [th EXCEPT ![t].pc = "f_lock", ![t].ptr = e.addr]
    <3>1. k = [l EXCEPT !.pc = "f_lock", !.ptr = e.addr] BY <1>0, <2>2 DEF TypeOK
    <3>2. /\ k.pc = "f_lock" /\ k.ptr = e.addr /\ k.usedMemory = l.usedMemory
          /\ k.freeMemory = l.freeMemory
      BY <1>0, <3>1 DEF Locals
    <3>3. mem' = mem BY <1>5 DEF FreeCall
    <3>4. \A b \in C : mem'[b].used => Owned(b)' \/ UsedFound(b, t)'
      BY <2>1, <3>2, <3>3 DEF UsedFound
    <3> QED BY <1>2, <1>5, <3>2, <3>3, <3>4, ElsewhereSequential DEF FreeCall, Elsewhere
  <2>3. CASE UNCHANGED th /\ e.addr < 0
    <3>1. ASSUME NEW b \in C, mem[b].used PROVE Owned(b)'
      <4>1. e.addr # mem[b].address BY <1>3, <2>3, <3>1
      <4> QED BY <2>1, <3>1, <4>1
    <3> QED BY <1>2, <1>5, <2>3, <3>1, ElsewhereSequential DEF FreeCall, Elsewhere
  <2>4. CASE UNCHANGED th /\ pool = 0
    <3>1. C = {} BY <1>0, <1>1, <2>4, SizesAssumption DEF BlocksTile
    <3> QED BY <1>2, <1>5, <2>4, <3>1, ElsewhereSequential DEF FreeCall, Elsewhere
  <2>5. CASE status' = "corrupt" BY <2>5 DEF SequentialInv, Running
  <2> QED BY <1>5, <2>2, <2>3, <2>4, <2>5 DEF FreeCall
<1>6. ASSUME NEW b \in onFree, DoubleFreeCall(t, b) PROVE SequentialInv'
  <2>1. k = [l EXCEPT !.pc = "f_lock", !.ptr = mem[b].address] BY <1>0, <1>6 DEF DoubleFreeCall, TypeOK
  <2>2. k.pc = "f_lock" /\ k.usedMemory = l.usedMemory /\ k.freeMemory = l.freeMemory
    BY <1>0, <2>1 DEF Locals
  <2>3. \A c \in C : mem[c].used => Owned(c)' BY <1>3, <1>6 DEF DoubleFreeCall, Owned
  <2> QED BY <1>2, <1>6, <2>2, <2>3, ElsewhereSequential DEF DoubleFreeCall, Elsewhere
<1>7. ASSUME NEW e \in live, NEW s, ReallocCall(t, e, s) PROVE SequentialInv'
  <2>1. mem' = mem /\ UNCHANGED <<head, freeList, onFree, deleted>> BY <1>7 DEF ReallocCall
  <2>2. CASE /\ th' = [th EXCEPT ![t].pc = "r_lock", ![t].ptr = e.addr, ![t].req = s]
             /\ UNCHANGED live
    <3>1. k = [l EXCEPT !.pc = "r_lock", !.ptr = e.addr, !.req = s] BY <1>0, <2>2 DEF TypeOK
    <3>2. k.pc = "r_lock" /\ k.usedMemory = l.usedMemory /\ k.freeMemory = l.freeMemory
      BY <1>0, <3>1 DEF Locals
    <3>3. \A b \in C : mem[b].used => Owned(b)' BY <1>3, <2>1, <2>2 DEF Owned
    <3> QED BY <1>2, <2>1, <3>2, <3>3, ElsewhereSequential DEF Elsewhere
  <2>3. CASE UNCHANGED th /\ e.addr < 0 /\ live \ {e} \subseteq live'
    <3>1. ASSUME NEW b \in C, mem[b].used PROVE Owned(b)'
      <4>1. PICK g \in live : g.addr = mem[b].address BY <1>3, <3>1 DEF Owned
      <4>2. g # e BY <1>3, <2>3, <3>1, <4>1
      <4> QED BY <2>1, <2>3, <4>1, <4>2 DEF Owned
    <3> QED BY <1>2, <2>1, <2>3, <3>1, ElsewhereSequential DEF Elsewhere
  <2>4. CASE status' = "corrupt" BY <2>4 DEF SequentialInv, Running
  <2> QED BY <1>7, <2>2, <2>3, <2>4 DEF ReallocCall
<1>8. ASSUME NEW x \in {"u_walk", "c_walk"}, th' = [th EXCEPT ![t].pc = x, ![t].blk = head],
             UNCHANGED <<head, freeList, onFree, nblocks, mem, live, deleted>>
      PROVE  SequentialInv'
  <2>1. k = [l EXCEPT !.pc = x, !.blk = head] BY <1>0, <1>8 DEF TypeOK
  <2>2. k.pc = x /\ k.blk = head /\ k.usedMemory = 0 /\ k.freeMemory = 0
    BY <1>0, <1>2, <2>1, SequentialFacts DEF Locals, CountSound
  <2>3. Chain(head)' = C BY <1>8, LinksStay
  <2>4. PushOrdered(t)' BY <2>2 DEF PushOrdered
  <2>5. WalkOrdered(t)'
    <3>1. head \in C \cup {0} BY <1>0, HeadChain DEF Follows
    <3>2. deleted = {} BY <1>2, SequentialFacts DEF WalkOrdered
    <3> QED BY <1>8, <2>2, <2>3, <3>1, <3>2 DEF WalkOrdered
  <2>6. OwnersFound(t)' BY <1>3, <1>8, <2>3, SumsStay DEF OwnersFound
  <2>7. CountSound(t)'
    <3>1. head \in 0 .. nblocks /\ nblocks \in 0 .. MaxBlocks /\ head \in 0 .. MaxBlocks
      BY <1>0 DEF LinksMade, TypeOK, Links
    <3>2. Totals(OwnedSizes)[head] <= LiveBytes
      BY <1>0, <3>1, SizesOwned, TotalsMonotone DEF LiveBytes
    <3>3. Totals(OwnedSizes)[head] \in Nat BY <1>0, <3>1, SizesOwned, TotalsSum DEF Sum
    <3>4. UpTo(head) <= TotalPoolSize /\ UpTo(head) \in Int
      <4>1. CASE head = 0 BY <4>1, SizesAssumption DEF UpTo
      <4>2. CASE head # 0
        <5>1. head \in 1 .. nblocks /\ head \in Blocks BY <3>1, <4>2, <1>1
        <5>2. mem[head].address \in Nat /\ mem[head].size \in Nat BY <1>0, <5>1 DEF TypeOK
        <5> QED BY <1>0, <4>2, <5>1, <5>2, SizesAssumption DEF UpTo, BlocksTile
      <4> QED BY <4>1, <4>2
    <3> QED BY <1>8, <2>2, <3>2, <3>3, <3>4, SumsStay DEF CountSound
  <2> QED BY <1>8, <2>4, <2>5, <2>6, <2>7, SequentialKept
<1>9. CASE UsageCall(t) BY <1>8, <1>9 DEF UsageCall
<1>10. CASE CleanupCall(t) BY <1>8, <1>10 DEF CleanupCall
<1> QED BY <1>4, <1>5, <1>6, <1>7, <1>9, <1>10 DEF Call, CallocCall

\* A new block comes before all others: the chain gains it, in order.
LEMMA MallocLinkSequential ==
  ASSUME NEW t, Sequential(t), MallocLink(t)
  PROVE  SequentialInv'
<1> USE DEF arena
<1> DEFINE l == th[t]  k == th'[t]  C == Chain(head)  n == nblocks + 1  p == pool + l.off
<1>0. /\ TypeOK /\ TypeOK' /\ LinksMade /\ Running /\ t \in Threads /\ l \in Locals /\ HeadDescends
      /\ OwnersFound(t) /\ FreeListShape /\ LinkSound(t)
  BY SequentialFacts
<1>1. /\ C \subseteq 1 .. nblocks /\ 1 .. nblocks \subseteq Blocks /\ nblocks \in Nat
      /\ C = ChainIn(mem, head) /\ head \in Links /\ mem \in [Blocks -> Cells]
  BY <1>0, HeadChain
<1>2. l.pc = "m_link" BY DEF MallocLink, At
<1>3. CASE status' = "exited" BY <1>3 DEF SequentialInv, Running
<1>4. CASE /\ nblocks < MaxBlocks /\ nblocks' = n /\ head' = n
           /\ mem' = [mem EXCEPT ![n] = NewBlock(t, p)]
           /\ MallocReturn(t, p, l.req)
  <2>1. n \in Blocks /\ n \notin C /\ n \notin 1 .. nblocks
    BY <1>1, <1>4, SizesAssumption DEF Blocks
  <2>2. /\ mem'[n].next = head /\ mem'[n].address = p /\ \A b \in 1 .. nblocks : mem'[b] = mem[b]
    BY <1>0, <1>1, <1>4, <2>1 DEF NewBlock, BlockOf, TypeOK
  <2>3. Chain(head)' = C \cup {n}
    <3>1. mem' \in [Blocks -> Cells] BY <1>0 DEF TypeOK, Cells
    <3>2. \A b \in C : mem'[b].next = mem[b].next BY <1>1, <2>2
    <3>3. ChainIn(mem', n) = ChainIn(mem, head) \cup {n} BY <1>1, <2>1, <2>2, <3>1, <3>2, ChainPush
    <3> QED BY <1>1, <1>4, <3>3 DEF Chain
  <2>4. UNCHANGED <<onFree, freeList, deleted>> BY DEF MallocLink
  <2>5. HeadDescends'
    <3>1. head \in 0 .. nblocks BY <1>0 DEF LinksMade
    <3>2. onFree \subseteq 1 .. nblocks /\ onFree \subseteq C BY <1>0 DEF FreeListShape, HeadDescends
    <3>3. ASSUME NEW b \in C \cup {n} PROVE mem'[b].next < b /\ b <= n
      BY <1>0, <1>1, <2>2, <3>1, <3>3 DEF HeadDescends
    <3>4. ASSUME NEW b \in C \cup {n}, NEW c \in C \cup {n}, c < b PROVE c <= mem'[b].next
      <4>1. CASE b = n BY <1>0, <1>1, <2>2, <3>1, <3>4, <4>1 DEF HeadDescends
      <4>2. CASE b # n
        <5>1. c # n BY <1>1, <3>4, <4>2
        <5> QED BY <1>0, <1>1, <2>2, <3>4, <4>2, <5>1 DEF HeadDescends
      <4> QED BY <4>1, <4>2
    <3>5. ASSUME NEW b \in (C \cup {n}) \ onFree, NEW c \in onFree PROVE c < b
      BY <1>0, <1>1, <3>2 DEF HeadDescends
    <3>6. \A b \in onFree : b <= freeList BY <1>0 DEF HeadDescends
    <3> QED BY <1>4, <2>3, <2>4, <3>2, <3>3, <3>4, <3>5, <3>6 DEF HeadDescends
  <2>6. \/ k = Idle /\ l.ptr = 0
        \/ k = [Idle EXCEPT !.pc = "f_lock", !.ptr = l.ptr, !.res = p] /\ l.ptr # 0
    BY <1>0, <1>2, <1>4, SizesAssumption DEF MallocReturn, TypeOK, LinkSound, InMalloc, Locals, Sizes
  <2>7. /\ k.pc \in {"idle", "f_lock"} /\ k.usedMemory = 0 /\ k.freeMemory = 0
        /\ l.ptr # 0 => k.pc = "f_lock" /\ k.ptr = l.ptr
    <3>1. CASE k = Idle /\ l.ptr = 0 BY <3>1 DEF Idle
    <3>2. CASE k = [Idle EXCEPT !.pc = "f_lock", !.ptr = l.ptr, !.res = p] BY <3>2 DEF Idle
    <3> QED BY <2>6, <3>1, <3>2
  <2>8. live' = Granted(t, p, l.req)
    BY <1>0, <1>2, <1>4, SizesAssumption DEF MallocReturn, LiveAfter, LinkSound, InMalloc, Locals, Sizes
  <2>9. OwnersFound(t)'
    <3>1. ASSUME NEW b \in C, mem[b].used PROVE Owned(b)' \/ UsedFound(b, t)'
      <4>1. PICK e \in live : e.addr = mem[b].address
        BY <1>0, <1>2, <3>1 DEF OwnersFound, UsedFound, Owned
      <4>2. b \in 1 .. nblocks /\ mem'[b] = mem[b] /\ mem[b].address # 0
        BY <1>0, <1>1, <2>2 DEF LinksMade
      <4>3. CASE e.addr = l.ptr BY <2>7, <4>1, <4>2, <4>3 DEF UsedFound
      <4>4. CASE e.addr # l.ptr
        <5>1. e \in live' BY <2>8, <4>4 DEF Granted
        <5> QED BY <4>1, <4>2, <5>1 DEF Owned
      <4> QED BY <4>3, <4>4
    <3>2. ASSUME NEW b, b = n PROVE Owned(b)'
      <4>1. [addr |-> p, size |-> l.req] \in live' BY <2>8 DEF Granted
      <4>2. mem'[b].address = p BY <2>2, <3>2
      <4> QED BY <4>1, <4>2 DEF Owned
    <3>3. \A b \in C : mem'[b] = mem[b] BY <1>1, <2>2
    <3>4. \A b \in Chain(head)' : b \in C \/ b = n BY <2>3
    <3> QED BY <3>1, <3>2, <3>3, <3>4 DEF OwnersFound
  <2>10. PushOrdered(t)' /\ WalkOrdered(t)' /\ CountSound(t)'
    BY <1>2, <2>4, <2>7, ElsewhereOrdered DEF Elsewhere
  <2> QED BY <2>5, <2>9, <2>10, SequentialFacts DEF SequentialInv
<1> QED BY <1>3, <1>4 DEF MallocLink

\* Linked to the free list, a block drops from the chain what lay between it and
\* the free list, and nothing else.
LEMMA PushLinkSequential ==
  ASSUME NEW t, Sequential(t), PushLink(t)
  PROVE  SequentialInv'
<1> USE DEF memory, arena, client
<1> DEFINE l == th[t]  k == th'[t]  C == Chain(head)  b == l.blk
           D == {x \in C : b <= x} \cup onFree
<1>0. /\ TypeOK /\ TypeOK' /\ LinksMade /\ Running /\ t \in Threads /\ l \in Locals /\ HeadDescends
      /\ OwnersFound(t) /\ FreeListShape /\ PushOrdered(t) /\ FreeSound(t) /\ FreeListExact
  BY SequentialFacts DEF Sequential
<1>1. /\ C \subseteq 1 .. nblocks /\ 1 .. nblocks \subseteq Blocks /\ nblocks \in Nat
      /\ C = ChainIn(mem, head) /\ head \in Links /\ mem \in [Blocks -> Cells]
      /\ Follows(mem, head, C) /\ freeList \in Links
  BY <1>0, HeadChain
<1>2. l.pc = "f_link" /\ UNCHANGED <<head, freeList, onFree, nblocks, live, deleted>> BY DEF PushLink, At
<1>3. b \in C /\ l.lnk = freeList /\ b \notin onFree /\ ~mem[b].used
  BY <1>0, <1>2 DEF PushOrdered, FreeSound
<1>4. /\ mem'[b].next = freeList /\ mem'[b].address = mem[b].address /\ ~mem'[b].used
      /\ \A x \in Blocks : x # b => mem'[x] = mem[x]
      /\ mem' \in [Blocks -> Cells]
  BY <1>0, <1>1, <1>3 DEF PushLink, TypeOK, Cells
<1>5. k = [l EXCEPT !.pc = "f_cas"] BY <1>0 DEF PushLink, TypeOK
<1>6. /\ k.pc = "f_cas" /\ k.blk = b /\ k.lnk = freeList /\ k.usedMemory = 0 /\ k.freeMemory = 0
  BY <1>0, <1>2, <1>3, <1>5, SequentialFacts DEF Locals, CountSound
<1>7. /\ onFree \subseteq C /\ freeList \in onFree \cup {0}
      /\ \A x \in onFree : mem[x].next \in onFree \cup {0}
  BY <1>0 DEF HeadDescends, FreeListShape
<1>8. Chain(head)' \subseteq D
  <2>1. head # 0 => head \in D
    BY <1>0, <1>1, <1>3 DEF HeadDescends, Follows
  <2>2. ASSUME NEW x \in D, mem'[x].next # 0 PROVE mem'[x].next \in D
    <3>1. CASE x = b BY <1>4, <1>7, <2>2, <3>1
    <3>2. CASE x \in onFree BY <1>1, <1>3, <1>4, <1>7, <2>2, <3>2
    <3>3. CASE x # b /\ x \notin onFree
      <4>1. x \in C /\ b < x /\ mem'[x].next = mem[x].next BY <1>1, <1>3, <1>4, <3>3
      <4>2. b <= mem[x].next BY <1>0, <1>3, <4>1 DEF HeadDescends
      <4> QED BY <1>1, <2>2, <4>1, <4>2 DEF Follows
    <3> QED BY <3>1, <3>2, <3>3
  <2>3. Follows(mem', head, D) BY <2>1, <2>2 DEF Follows
  <2> QED BY <1>1, <1>2, <1>7, <2>3, ChainLeast DEF Chain
<1>9. Follows(mem', head, Chain(head)') /\ Chain(head)' \subseteq Blocks
  BY <1>1, <1>2, <1>4, ChainFollows DEF Chain
<1>10. b \in Chain(head)'
  <2> SUFFICES ASSUME b \notin Chain(head)' PROVE FALSE OBVIOUS
  <2>1. Follows(mem, head, Chain(head)') BY <1>4, <1>9 DEF Follows
  <2>2. C \subseteq Chain(head)' BY <1>1, <1>9, <2>1, ChainLeast
  <2> QED BY <1>3, <2>2
<1>11. onFree \subseteq Chain(head)'
  <2> DEFINE F == Chain(head)' \cap onFree
  <2>1. freeList # 0 => freeList \in F BY <1>4, <1>7, <1>9, <1>10 DEF Follows
  <2>2. \A x \in F : mem[x].next # 0 => mem[x].next \in F BY <1>3, <1>4, <1>7, <1>9 DEF Follows
  <2>3. Follows(mem, freeList, F) BY <2>1, <2>2 DEF Follows
  <2>4. ChainIn(mem, freeList) \subseteq F BY <1>9, <2>3, ChainLeast
  <2>5. ChainIn(mem, freeList) = onFree BY <1>0 DEF FreeListExact, Chain
  <2> QED BY <2>4, <2>5
<1>12. HeadDescends'
  <2>1. \A x \in D : x \in C /\ x \in Blocks BY <1>1, <1>7
  <2>2. ASSUME NEW x \in D PROVE mem'[x].next < x /\ x <= head
    <3>1. CASE x = b
      <4>1. b \in Nat /\ b > 0 BY <1>1, <1>3
      <4> QED BY <1>0, <1>3, <1>4, <1>7, <3>1, <4>1 DEF HeadDescends
    <3>2. CASE x # b BY <1>0, <1>4, <2>1, <3>2 DEF HeadDescends
    <3> QED BY <3>1, <3>2
  <2>3. ASSUME NEW x \in D, NEW y \in D, y < x PROVE y <= mem'[x].next
    <3>1. CASE x = b
      <4>1. y \in onFree BY <1>1, <1>3, <2>1, <2>3, <3>1
      <4> QED BY <1>0, <1>4, <3>1, <4>1 DEF HeadDescends
    <3>2. CASE x # b BY <1>0, <1>4, <2>1, <2>3, <3>2 DEF HeadDescends
    <3> QED BY <3>1, <3>2
  <2>4. \A x \in D \ onFree, y \in onFree : y < x BY <1>0 DEF HeadDescends
  <2>5. \A x \in onFree : x <= freeList BY <1>0 DEF HeadDescends
  <2> HIDE DEF D
  <2> QED BY <1>2, <1>8, <1>11, <2>2, <2>3, <2>4, <2>5 DEF HeadDescends
<1>13. PushOrdered(t)'
  <2>1. \A x \in D \ onFree : b <= x OBVIOUS
  <2> HIDE DEF D
  <2> QED BY <1>2, <1>6, <1>8, <1>10, <2>1 DEF PushOrdered
<1>14. WalkOrdered(t)' /\ CountSound(t)'
  BY <1>2, <1>6, SequentialFacts DEF WalkOrdered, CountSound, Walks
<1>15. OwnersFound(t)'
  <2> SUFFICES ASSUME NEW x \in Chain(head)', mem'[x].used PROVE Owned(x)'
    BY DEF OwnersFound
  <2>1. x \in C /\ x # b /\ mem'[x] = mem[x] BY <1>1, <1>4, <1>7, <1>8
  <2>2. Owned(x) BY <1>0, <1>2, <2>1 DEF OwnersFound, UsedFound
  <2> QED BY <1>2, <2>1, <2>2 DEF Owned
<1> QED BY <1>12, <1>13, <1>14, <1>15, SequentialFacts DEF SequentialInv

\* Published, it is the last block before the free list, and now the first of it.
LEMMA PushCASSequential ==
  ASSUME NEW t, Sequential(t), PushCAS(t)
  PROVE  SequentialInv'
<1> USE DEF memory, arena, client
<1> DEFINE l == th[t]  k == th'[t]  C == Chain(head)  b == l.blk
<1>0. /\ TypeOK /\ LinksMade /\ Running /\ t \in Threads /\ l \in Locals /\ HeadDescends
      /\ OwnersFound(t) /\ PushOrdered(t) /\ FreeSound(t) /\ FreeListShape
  BY SequentialFacts
<1>1. C \subseteq 1 .. nblocks /\ 1 .. nblocks \subseteq Blocks BY <1>0, HeadChain
<1>2. l.pc = "f_cas" /\ UNCHANGED <<head, mem, live, deleted>> BY DEF PushCAS, At
<1>3. /\ b \in C /\ b \notin onFree /\ l.lnk = freeList /\ ~mem[b].used
      /\ \A x \in C \ onFree : b <= x
  BY <1>0, <1>2 DEF PushOrdered, FreeSound
<1>4. freeList' = b /\ onFree' = onFree \cup {b} /\ k = Idle
  BY <1>0, <1>3 DEF PushCAS, PushWins, TypeOK
<1>5. Chain(head)' = C BY <1>2 DEF Chain
<1>6. HeadDescends'
  <2>1. \A x \in onFree' : x <= b BY <1>0, <1>1, <1>3, <1>4 DEF HeadDescends
  <2>2. \A x \in C \ onFree', y \in onFree' : y < x
    BY <1>0, <1>1, <1>3, <1>4 DEF HeadDescends
  <2> QED BY <1>0, <1>2, <1>3, <1>4, <1>5, <2>1, <2>2 DEF HeadDescends
<1>7. k.pc = "idle" /\ k.usedMemory = 0 /\ k.freeMemory = 0 BY <1>4 DEF Idle
<1>8. OwnersFound(t)' BY <1>0, <1>2, <1>5 DEF OwnersFound, UsedFound, Owned
<1>9. PushOrdered(t)' /\ WalkOrdered(t)' /\ CountSound(t)'
  BY <1>2, <1>7, ElsewhereOrdered DEF Elsewhere
<1> QED BY <1>6, <1>8, <1>9, SequentialFacts DEF SequentialInv

\* A step from one place of CustomMalloc to another that looks at the memory only.
LEMMA QuietSequential ==
  ASSUME NEW t, Sequential(t), th'[t].pc \in Elsewhere,
         th[t].pc \notin {"c_walk", "u_walk", "u_log", "f_lock", "f_walk", "f_clear"},
         UNCHANGED <<head, freeList, onFree, mem, live, deleted>>,
         th'[t].usedMemory = th[t].usedMemory, th'[t].freeMemory = th[t].freeMemory
  PROVE  SequentialInv'
<1>1. \A b \in Chain(head) : mem'[b].used => Owned(b)'
  BY SequentialFacts DEF OwnersFound, UsedFound, Owned
<1> QED BY <1>1, ElsewhereSequential

LEMMA PopReloadSequential ==
  ASSUME NEW t, Sequential(t), th[t].pc \in {"m_pop", "m_cas"}, PopReload(t),
         UNCHANGED <<head, freeList, onFree, mem, live, deleted>>
  PROVE  SequentialInv'
<1> DEFINE l == th[t]  k == th'[t]
<1>1. l \in Locals /\ t \in Threads /\ TypeOK BY SequentialFacts
<1>2. k = [l EXCEPT !.blk = freeList, !.pc = IF freeList = 0 THEN "m_add" ELSE "m_next"]
  BY <1>1 DEF PopReload, TypeOK
<1>3. k.pc \in {"m_add", "m_next"} /\ k.usedMemory = l.usedMemory /\ k.freeMemory = l.freeMemory
  BY <1>1, <1>2 DEF Locals
<1> QED BY <1>3, QuietSequential DEF Elsewhere

\* The block taken was the highest of the free list.
LEMMA PopCASSequential ==
  ASSUME NEW t, Sequential(t), PopCAS(t)
  PROVE  SequentialInv'
<1> USE DEF arena, client
<1> DEFINE l == th[t]  k == th'[t]  C == Chain(head)  b == l.blk
<1>0. /\ TypeOK /\ LinksMade /\ Running /\ t \in Threads /\ l \in Locals /\ HeadDescends
      /\ OwnersFound(t) /\ MallocSound(t) /\ FreeListShape /\ CountSound(t)
  BY SequentialFacts
<1>1. C \subseteq 1 .. nblocks /\ 1 .. nblocks \subseteq Blocks BY <1>0, HeadChain
<1>2. l.pc = "m_cas" /\ UNCHANGED <<head, mem, live, deleted>> BY DEF PopCAS, At
<1>3. CASE ~PopWins(t) BY <1>2, <1>3, PopReloadSequential DEF PopCAS
<1>4. CASE PopWins(t)
  <2>1. /\ b \in onFree /\ freeList = b /\ freeList' = mem[b].next /\ onFree' = onFree \ {b}
        /\ k = [l EXCEPT !.pc = "m_take", !.lnk = 0]
    BY <1>0, <1>2, <1>4 DEF PopCAS, PopWins, MallocSound, TypeOK
  <2>2. k.pc = "m_take" /\ k.usedMemory = 0 /\ k.freeMemory = 0
    BY <1>0, <1>2, <2>1 DEF Locals, CountSound
  <2>3. Chain(head)' = C BY <1>2 DEF Chain
  <2>4. b \in C /\ onFree \subseteq C BY <1>0, <2>1 DEF HeadDescends
  <2>5. ASSUME NEW c \in onFree' PROVE c < b /\ c <= freeList'
    <3>1. c \in C /\ c <= b /\ c # b BY <1>0, <2>1, <2>4 DEF HeadDescends
    <3>2. c < b BY <1>1, <2>4, <3>1
    <3> QED BY <1>0, <2>1, <2>4, <3>1, <3>2 DEF HeadDescends
  <2>6. ASSUME NEW c \in C \ onFree', NEW d \in onFree' PROVE d < c
    BY <1>0, <2>1, <2>5 DEF HeadDescends
  <2>7. HeadDescends' BY <1>0, <1>2, <2>1, <2>3, <2>4, <2>5, <2>6 DEF HeadDescends
  <2>8. OwnersFound(t)' BY <1>0, <1>2, <2>3 DEF OwnersFound, UsedFound, Owned
  <2>9. PushOrdered(t)' /\ WalkOrdered(t)' /\ CountSound(t)'
    BY <1>2, <2>2, ElsewhereOrdered DEF Elsewhere
  <2> QED BY <2>7, <2>8, <2>9, SequentialFacts DEF SequentialInv
<1> QED BY <1>3, <1>4

\* What is left of CustomMalloc.
LEMMA MallocSequential ==
  ASSUME NEW t, Sequential(t),
         \/ InitPool(t) \/ InitStores(t) \/ PopLoad(t) \/ PopReadNext(t) \/ MallocTake(t)
         \/ MallocAdd(t) \/ ReallocFound(t)
  PROVE  SequentialInv'
<1> USE DEF memory, arena, client
<1> DEFINE l == th[t]  k == th'[t]
<1>0. /\ TypeOK /\ LinksMade /\ Running /\ t \in Threads /\ l \in Locals /\ LinkSound(t)
      /\ OwnersFound(t) /\ MallocSound(t) /\ HeadDescends
  BY SequentialFacts
<1>1. ASSUME NEW x \in Labels, th' = [th EXCEPT ![t].pc = x]
      PROVE  k.pc = x /\ k.usedMemory = l.usedMemory /\ k.freeMemory = l.freeMemory
  <2>1. k = [l EXCEPT !.pc = x] BY <1>0, <1>1 DEF TypeOK
  <2> QED BY <1>0, <2>1 DEF Locals
<1>2. CASE InitPool(t)
  <2>1. l.pc = "m_init" /\ UNCHANGED <<head, freeList, onFree, mem, live, deleted>>
    BY <1>2 DEF InitPool, At
  <2>2. CASE th' = [th EXCEPT ![t].pc = "m_pop"]
    BY <1>1, <2>1, <2>2, QuietSequential DEF Elsewhere, Labels
  <2>3. CASE th' = [th EXCEPT ![t].pc = "m_setup"]
    BY <1>1, <2>1, <2>3, QuietSequential DEF Elsewhere, Labels
  <2>4. CASE status' = "exited" BY <2>4 DEF SequentialInv, Running
  <2> QED BY <1>2, <2>2, <2>3, <2>4 DEF InitPool
<1>3. CASE InitStores(t)
  <2>1. l.pc = "m_setup" /\ UNCHANGED <<onFree, deleted>> /\ head' = 0
    BY <1>3 DEF InitStores, At
  <2>2. onFree = {} BY <1>0, <2>1 DEF Sequential, IndInv, Startup, MallocSound
  <2>3. Chain(head)' = {}
    <3>1. Follows(mem', 0, {}) BY DEF Follows
    <3> QED BY <2>1, <3>1, ChainLeast DEF Chain
  <2>4. k.pc = "m_pop" /\ k.usedMemory = l.usedMemory /\ k.freeMemory = l.freeMemory
    BY <1>1, <1>3 DEF InitStores, Labels
  <2>5. HeadDescends' BY <2>1, <2>2, <2>3 DEF HeadDescends
  <2>6. OwnersFound(t)' BY <2>3 DEF OwnersFound
  <2>7. k.usedMemory = 0 /\ k.freeMemory = 0 BY <2>1, <2>4, SequentialFacts DEF CountSound
  <2>8. PushOrdered(t)' /\ WalkOrdered(t)' /\ CountSound(t)'
    BY <2>1, <2>4, <2>7, ElsewhereOrdered DEF Elsewhere
  <2> QED BY <2>5, <2>6, <2>8, SequentialFacts DEF SequentialInv
<1>4. CASE PopLoad(t) BY <1>4, PopReloadSequential DEF PopLoad, At
<1>5. CASE PopReadNext(t)
  <2>1. k = [l EXCEPT !.pc = "m_cas", !.lnk = mem[l.blk].next]
    BY <1>0, <1>5 DEF PopReadNext, TypeOK
  <2>2. k.pc = "m_cas" /\ k.usedMemory = l.usedMemory /\ k.freeMemory = l.freeMemory
    BY <1>0, <2>1 DEF Locals
  <2> QED BY <1>5, <2>2, QuietSequential DEF PopReadNext, At, Elsewhere
<1>6. CASE MallocTake(t)
  <2> DEFINE b == l.blk  p == mem[b].address
  <2>1. l.pc = "m_take" /\ UNCHANGED <<head, freeList, onFree, deleted>>
    BY <1>6 DEF MallocTake, At
  <2>2. b \in 1 .. nblocks /\ b \in Blocks BY <1>0, <2>1, HeldBlock
  <2>3. p \in Nat /\ p # 0 BY <1>0, <2>2 DEF LinksMade, TypeOK
  <2>4. CASE mem' = [mem EXCEPT ![b].used = TRUE] /\ MallocReturn(t, p, l.req)
    <3>1. \A c \in Blocks : mem'[c].next = mem[c].next /\ mem'[c].address = mem[c].address
      BY <1>0, <2>4 DEF TypeOK
    <3>2. \A c \in Blocks : mem'[c].used => mem[c].used \/ (p # 0 /\ mem[c].address = p)
      BY <1>0, <2>3, <2>4, ZenonT(30) DEF TypeOK
    <3>3. InMalloc(t) /\ p \in Int BY <2>1, <2>3 DEF InMalloc
    <3> HIDE DEF p
    <3> QED BY <2>1, <2>4, <3>1, <3>2, <3>3, ReturnSequential
  <2>5. CASE th' = [th EXCEPT ![t].pc = "m_pop"] /\ UNCHANGED <<mem, live>>
    BY <1>1, <2>1, <2>5, QuietSequential DEF Elsewhere, Labels
  <2> QED BY <1>6, <2>4, <2>5 DEF MallocTake
<1>7. CASE MallocAdd(t)
  <2>1. l.pc = "m_add" /\ UNCHANGED <<head, freeList, onFree, mem, deleted>>
    BY <1>7 DEF MallocAdd, At
  <2>2. CASE MallocReturn(t, 0, l.req)
    <3>1. InMalloc(t) /\ 0 \in Int BY <2>1 DEF InMalloc
    <3>2. mem' = mem BY <2>1
    <3> QED BY <2>1, <2>2, <3>1, <3>2, ReturnSequential
  <2>3. CASE th' = [th EXCEPT ![t].pc = "m_link", ![t].off = offset] /\ UNCHANGED live
    <3>1. k = [l EXCEPT !.pc = "m_link", !.off = offset] BY <1>0, <2>3 DEF TypeOK
    <3>2. k.pc = "m_link" /\ k.usedMemory = l.usedMemory /\ k.freeMemory = l.freeMemory
      BY <1>0, <3>1 DEF Locals
    <3> QED BY <2>1, <2>3, <3>2, QuietSequential DEF Elsewhere
  <2>4. CASE status' = "wrapped" BY <2>4 DEF SequentialInv, Running
  <2> QED BY <1>7, <2>2, <2>3, <2>4 DEF MallocAdd
<1>8. CASE ReallocFound(t)
  <2>1. l.pc = "r_walk" /\ UNCHANGED <<head, freeList, onFree, mem, deleted>>
    BY <1>8 DEF ReallocFound, At
  <2>2. CASE EnterMalloc(t, l.req) BY <2>1, <2>2, EnterMallocSequential
  <2>3. CASE status' = "corrupt" BY <2>3 DEF SequentialInv, Running
  <2> QED BY <1>8, <2>2, <2>3 DEF ReallocFound
<1> QED BY <1>2, <1>3, <1>4, <1>5, <1>6, <1>7, <1>8

\* A walk for the block of an address, and what a free does with it.
LEMMA WalkSequential ==
  ASSUME NEW t, Sequential(t),
         WalkLock(t) \/ WalkOn(t) \/ FreeFound(t) \/ FreeClear(t) \/ PushLoad(t)
  PROVE  SequentialInv'
<1> USE DEF memory, arena, client
<1> DEFINE l == th[t]  k == th'[t]  C == Chain(head)
<1>0. /\ TypeOK /\ LinksMade /\ Running /\ t \in Threads /\ l \in Locals
      /\ HeadDescends /\ PushOrdered(t) /\ WalkOrdered(t) /\ OwnersFound(t) /\ CountSound(t)
      /\ FreeSound(t) /\ BlocksTile
  BY SequentialFacts
<1>1. /\ C \subseteq 1 .. nblocks /\ 1 .. nblocks \subseteq Blocks /\ nblocks \in Nat
      /\ Follows(mem, head, C) /\ mem \in [Blocks -> Cells] /\ head \in Links
  BY <1>0, HeadChain
<1>2. l.pc \in {"f_lock", "r_lock", "f_walk", "r_walk", "f_clear", "f_push"}
      /\ UNCHANGED <<head, freeList, onFree, live, deleted>>
  BY DEF WalkLock, WalkOn, FreeFound, FreeClear, PushLoad, At
<1>3. l.usedMemory = 0 /\ l.freeMemory = 0 BY <1>0, <1>2 DEF CountSound
<1>4. deleted' = {} BY <1>0, <1>2 DEF WalkOrdered
<1>5. CASE WalkLock(t)
  <2>1. mem' = mem /\ Chain(head)' = C BY <1>5 DEF WalkLock, Chain
  <2>2. PICK x \in {"f_walk", "r_walk"} :
          l.pc \in {"f_lock", "r_lock"} /\ (l.pc = "f_lock" <=> x = "f_walk")
          /\ th' = [th EXCEPT ![t].pc = x, ![t].blk = head]
    BY <1>5 DEF WalkLock, At
  <2>3. k = [l EXCEPT !.pc = x, !.blk = head] BY <1>0, <2>2 DEF TypeOK
  <2>4. k.pc = x /\ k.blk = head /\ k.ptr = l.ptr /\ k.usedMemory = 0 /\ k.freeMemory = 0
    BY <1>0, <1>3, <2>3 DEF Locals
  <2>5. head \in C \cup {0} BY <1>1 DEF Follows
  <2>6. PushOrdered(t)' /\ WalkOrdered(t)' /\ CountSound(t)'
    BY <1>4, <2>1, <2>4, <2>5 DEF PushOrdered, WalkOrdered, CountSound
  <2>7. OwnersFound(t)'
    <3> SUFFICES ASSUME NEW b \in C, mem[b].used PROVE Owned(b)' \/ UsedFound(b, t)'
      BY <2>1 DEF OwnersFound
    <3>1. Owned(b) \/ UsedFound(b, t) BY <1>0 DEF OwnersFound
    <3>2. b <= head BY <1>0 DEF HeadDescends
    <3> QED BY <1>2, <2>1, <2>2, <2>4, <3>1, <3>2 DEF UsedFound, Owned
  <2> QED BY <1>2, <2>1, <2>6, <2>7, SequentialKept
<1>6. CASE WalkOn(t)
  <2> DEFINE b == l.blk
  <2>1. mem' = mem /\ Chain(head)' = C BY <1>6 DEF WalkOn, Chain
  <2>2. l.pc \in {"f_walk", "r_walk"} /\ b # 0 /\ mem[b].address # l.ptr
        /\ th' = [th EXCEPT ![t].blk = mem[b].next]
    BY <1>6 DEF WalkOn, At, WalkEnds
  <2>3. k = [l EXCEPT !.blk = mem[b].next] BY <1>0, <2>2 DEF TypeOK
  <2>4. b \in C BY <1>0, <2>2 DEF WalkOrdered, Walks
  <2>5. mem[b].next \in Links /\ mem[b].next \in C \cup {0}
    BY <1>1, <2>4 DEF Follows, Cells
  <2>6. /\ k.pc = l.pc /\ k.blk = mem[b].next /\ k.ptr = l.ptr
        /\ k.usedMemory = 0 /\ k.freeMemory = 0
    BY <1>0, <1>3, <2>3 DEF Locals
  <2>7. PushOrdered(t)' /\ WalkOrdered(t)' /\ CountSound(t)'
    BY <1>4, <2>1, <2>2, <2>5, <2>6 DEF PushOrdered, WalkOrdered, CountSound
  <2>8. OwnersFound(t)'
    <3> SUFFICES ASSUME NEW c \in C, mem[c].used PROVE Owned(c)' \/ UsedFound(c, t)'
      BY <2>1 DEF OwnersFound
    <3>1. CASE Owned(c) BY <1>2, <2>1, <3>1 DEF Owned
    <3>2. CASE UsedFound(c, t)
      <4>1. l.pc = "f_walk" => c <= b /\ c # b BY <2>2, <3>2 DEF UsedFound
      <4>2. l.pc = "f_walk" => c < b BY <1>1, <2>4, <4>1
      <4>3. l.pc = "f_walk" => c <= mem[b].next BY <1>0, <2>4, <4>2 DEF HeadDescends
      <4> QED BY <2>1, <2>2, <2>6, <3>2, <4>3 DEF UsedFound
    <3> QED BY <1>0, <3>1, <3>2 DEF OwnersFound
  <2> QED BY <1>2, <2>1, <2>7, <2>8, SequentialKept
<1>7. CASE FreeFound(t)
  <2> DEFINE b == l.blk
  <2>1. mem' = mem /\ Chain(head)' = C BY <1>7 DEF FreeFound, Chain
  <2>2. /\ l.pc = "f_walk" /\ b \in C \cup {0}
        /\ b # 0 => mem[b].address = l.ptr
    BY <1>0, <1>7 DEF FreeFound, At, WalkEnds, WalkOrdered, Walks
  <2>3. CASE Freeable(b)
    <3>1. k = [l EXCEPT !.pc = "f_clear"] BY <1>0, <1>7, <2>3 DEF FreeFound, TypeOK
    <3>2. /\ k.pc = "f_clear" /\ k.blk = b /\ k.ptr = l.ptr
          /\ k.usedMemory = 0 /\ k.freeMemory = 0
      BY <1>0, <1>3, <3>1 DEF Locals
    <3>3. b \in C BY <2>2, <2>3 DEF Freeable
    <3>4. PushOrdered(t)' /\ WalkOrdered(t)' /\ CountSound(t)'
      BY <1>4, <2>1, <3>2, <3>3 DEF PushOrdered, WalkOrdered, CountSound, Walks
    <3>5. OwnersFound(t)'
      BY <1>0, <1>2, <2>1, <2>2, <3>2 DEF OwnersFound, UsedFound, Owned
    <3> QED BY <1>2, <2>1, <3>4, <3>5, SequentialKept
  <2>4. CASE ~Freeable(b)
    <3>1. k = Idle BY <1>0, <1>7, <2>4 DEF FreeFound, TypeOK
    <3>2. k.pc = "idle" /\ k.usedMemory = 0 /\ k.freeMemory = 0 BY <3>1 DEF Idle
    <3>3. ASSUME NEW c \in C, mem[c].used PROVE Owned(c)'
      <4>1. CASE Owned(c) BY <1>2, <2>1, <4>1 DEF Owned
      <4>2. CASE UsedFound(c, t)
        <5>1. c \in 1 .. nblocks /\ c <= b /\ mem[c].address = l.ptr
          BY <1>1, <2>2, <4>2 DEF UsedFound
        <5>2. b \in 1 .. nblocks BY <1>1, <2>2, <5>1
        <5>3. b = c BY <1>0, <2>2, <5>1, <5>2, AddressInjective
        <5> QED BY <2>4, <3>3, <5>2, <5>3 DEF Freeable
      <4> QED BY <1>0, <3>3, <4>1, <4>2 DEF OwnersFound
    <3> QED BY <1>2, <1>3, <2>1, <2>2, <3>2, <3>3, ElsewhereSequential DEF Elsewhere
  <2> QED BY <2>3, <2>4
<1>8. CASE FreeClear(t)
  <2> DEFINE b == l.blk
  <2>1. l.pc = "f_clear" /\ b \in C /\ mem[b].address = l.ptr
    BY <1>0, <1>8 DEF FreeClear, At, PushOrdered, FreeSound
  <2>2. /\ \A c \in Blocks : mem'[c].next = mem[c].next /\ mem'[c].address = mem[c].address
        /\ ~mem'[b].used
        /\ \A c \in Blocks : c # b => mem'[c].used = mem[c].used
    BY <1>0, <1>1, <1>8, <2>1 DEF FreeClear, Clear, TypeOK
  <2>3. k = [l EXCEPT !.pc = "f_push"] BY <1>0, <1>8 DEF FreeClear, TypeOK
  <2>4. k.pc = "f_push" /\ k.blk = b /\ k.usedMemory = 0 /\ k.freeMemory = 0
    BY <1>0, <1>3, <2>3 DEF Locals
  <2>5. Chain(head)' = C BY <1>2, <2>2, LinksStay
  <2>6. PushOrdered(t)' /\ WalkOrdered(t)' /\ CountSound(t)'
    BY <1>4, <2>1, <2>4, <2>5 DEF PushOrdered, WalkOrdered, CountSound, Walks
  <2>7. OwnersFound(t)'
    <3> SUFFICES ASSUME NEW c \in C, mem'[c].used PROVE Owned(c)' BY <2>5 DEF OwnersFound
    <3>1. c \in Blocks /\ c # b /\ mem[c].used BY <1>1, <2>2
    <3>2. b \in 1 .. nblocks /\ c \in 1 .. nblocks BY <1>1, <2>1
    <3>3. mem[c].address # l.ptr BY <1>0, <2>1, <3>1, <3>2, AddressInjective
    <3>4. Owned(c) BY <1>0, <3>1, <3>3 DEF OwnersFound, UsedFound
    <3> QED BY <1>2, <2>2, <3>1, <3>4 DEF Owned
  <2> QED BY <1>2, <2>2, <2>6, <2>7, SequentialKept
<1>9. CASE PushLoad(t)
  <2>1. mem' = mem /\ Chain(head)' = C /\ l.pc = "f_push" BY <1>9 DEF PushLoad, At, Chain
  <2>2. k = [l EXCEPT !.pc = "f_link", !.lnk = freeList]
    BY <1>0, <1>9 DEF PushLoad, PushReload, TypeOK
  <2>3. /\ k.pc = "f_link" /\ k.blk = l.blk /\ k.lnk = freeList
        /\ k.usedMemory = 0 /\ k.freeMemory = 0
    BY <1>0, <1>3, <2>2 DEF Locals
  <2>4. l.blk \in C BY <1>0, <2>1 DEF PushOrdered
  <2>5. PushOrdered(t)' /\ WalkOrdered(t)' /\ CountSound(t)'
    BY <1>2, <1>4, <2>1, <2>3, <2>4 DEF PushOrdered, WalkOrdered, CountSound, Walks
  <2>6. OwnersFound(t)' BY <1>0, <1>2, <2>1 DEF OwnersFound, UsedFound, Owned
  <2> QED BY <1>2, <2>1, <2>5, <2>6, SequentialKept
<1> QED BY <1>5, <1>6, <1>7, <1>8, <1>9

\* The block DebugMemoryUsage is at adds its bytes to one sum or the other, and
\* all blocks still to come lie below it in the arena.
LEMMA UsageSequential ==
  ASSUME NEW t, Sequential(t), UsageStep(t)
  PROVE  SequentialInv'
<1> USE DEF memory, arena, client
<1> DEFINE l == th[t]  k == th'[t]  C == Chain(head)  b == l.blk  n == mem[b].next
           s == mem[b].size  T == Totals(OwnedSizes)
<1>0. /\ TypeOK /\ LinksMade /\ Running /\ t \in Threads /\ l \in Locals
      /\ HeadDescends /\ WalkOrdered(t) /\ OwnersFound(t) /\ CountSound(t) /\ BlocksTile
  BY SequentialFacts
<1>1. /\ C \subseteq 1 .. nblocks /\ 1 .. nblocks \subseteq Blocks /\ nblocks \in Nat
      /\ Follows(mem, head, C) /\ mem \in [Blocks -> Cells]
  BY <1>0, HeadChain
<1>2. /\ l.pc = "u_walk" /\ b # 0
      /\ UNCHANGED <<head, freeList, onFree, mem, live, deleted, nblocks>>
  BY DEF UsageStep, At
<1>3. b \in C /\ b \in 1 .. nblocks /\ b \in Blocks BY <1>0, <1>1, <1>2 DEF WalkOrdered, Walks
<1>4. n \in C \cup {0} /\ n \in 0 .. nblocks /\ n < b /\ s \in Nat
  BY <1>0, <1>1, <1>3 DEF Follows, Cells, HeadDescends
<1>5. l.usedMemory \in Nat /\ l.freeMemory \in Nat /\ TotalPoolSize \in Nat /\ PoolBase \in Nat
  BY <1>0, SizesAssumption DEF Locals, Sizes
<1>6. UpTo(n) + s <= UpTo(b) /\ UpTo(n) \in Nat /\ UpTo(b) \in Nat
  <2>1. /\ UpTo(b) = mem[b].address + s - PoolBase
        /\ mem[b].address >= PoolBase /\ mem[b].address \in Nat
    BY <1>0, <1>1, <1>3 DEF UpTo, BlocksTile, Cells
  <2>2. CASE n = 0 BY <1>4, <1>5, <2>1, <2>2 DEF UpTo
  <2>3. CASE n # 0
    <3>1. n \in 1 .. nblocks /\ n \in Blocks BY <1>1, <1>4, <2>3
    <3>2. /\ UpTo(n) = mem[n].address + mem[n].size - PoolBase
          /\ mem[n].address >= PoolBase /\ mem[n].address \in Nat /\ mem[n].size \in Nat
      BY <1>0, <1>1, <2>3, <3>1 DEF UpTo, BlocksTile, Cells
    <3>3. mem[n].address + mem[n].size <= mem[b].address
      BY <1>0, <1>3, <1>4, <3>1 DEF BlocksTile
    <3> QED BY <1>4, <1>5, <2>1, <3>2, <3>3
  <2> QED BY <2>2, <2>3
<1>7. /\ l.usedMemory + T[b] <= LiveBytes
      /\ l.usedMemory + l.freeMemory + UpTo(b) <= TotalPoolSize
  BY <1>0, <1>2 DEF CountSound
<1>8. /\ l.usedMemory + s + l.freeMemory + UpTo(n) <= TotalPoolSize
      /\ (l.usedMemory + s) % SizeMod = l.usedMemory + s
      /\ (l.freeMemory + s) % SizeMod = l.freeMemory + s
  <2>1. l.usedMemory + s + l.freeMemory + UpTo(n) <= TotalPoolSize
    BY <1>4, <1>5, <1>6, <1>7
  <2>2. /\ l.usedMemory + s \in 0 .. SizeMod - 1 /\ l.freeMemory + s \in 0 .. SizeMod - 1
        /\ SizeMod \in Nat \ {0}
    BY <1>4, <1>5, <1>6, <2>1, SizesAssumption
  <2> QED BY <2>1, <2>2
<1>9. /\ T[n] \in Nat /\ T[b] \in Nat /\ LiveBytes \in Nat
      /\ T[b] = T[b - 1] + OwnedSizes[b] /\ T[b - 1] \in Nat
      /\ T[n] <= T[b - 1] /\ OwnedSizes[b] \in Nat
  <2>1. OwnedSizes \in [Blocks -> Nat] BY <1>0, SizesOwned
  <2>2. /\ b \in 1 .. MaxBlocks /\ b - 1 \in 0 .. MaxBlocks /\ n \in 0 .. MaxBlocks
        /\ nblocks \in 0 .. MaxBlocks /\ b \in 0 .. MaxBlocks /\ n <= b - 1
    <3>1. MaxBlocks \in Nat /\ nblocks <= MaxBlocks BY <1>0, SizesAssumption DEF TypeOK, Links
    <3> HIDE DEF n, b
    <3> QED BY <1>1, <1>3, <1>4, <3>1
  <2>3. Sum(OwnedSizes, MaxBlocks, T) BY <2>1, TotalsSum
  <2> HIDE DEF T
  <2>4. T[n] <= T[b - 1] BY <2>1, <2>2, TotalsMonotone DEF T
  <2>5. LiveBytes \in Nat BY <2>2, <2>3 DEF LiveBytes, Sum, T
  <2> QED BY <1>3, <2>1, <2>2, <2>3, <2>4, <2>5 DEF Sum
<1>10. mem[b].used => OwnedSizes[b] = s
  BY <1>0, <1>2, <1>3 DEF OwnersFound, UsedFound, OwnedSizes
<1>11. k = [l EXCEPT !.blk = n,
              !.usedMemory = IF mem[b].used THEN l.usedMemory + s ELSE l.usedMemory,
              !.freeMemory = IF mem[b].used THEN l.freeMemory ELSE l.freeMemory + s]
  BY <1>0, <1>8 DEF UsageStep, TypeOK
<1>12. /\ k.pc = "u_walk" /\ k.blk = n
       /\ k.usedMemory = IF mem[b].used THEN l.usedMemory + s ELSE l.usedMemory
       /\ k.freeMemory = IF mem[b].used THEN l.freeMemory ELSE l.freeMemory + s
  BY <1>0, <1>2, <1>11 DEF Locals
<1>13. Chain(head)' = C BY <1>2, LinksStay
<1>14. CountSound(t)'
  <2>1. k.usedMemory + T[n] <= LiveBytes
    <3> HIDE DEF T, s, n
    <3>1. CASE mem[b].used BY <1>4, <1>5, <1>7, <1>9, <1>10, <1>12, <3>1
    <3>2. CASE ~mem[b].used BY <1>4, <1>5, <1>7, <1>9, <1>12, <3>2
    <3> QED BY <3>1, <3>2
  <2>2. k.usedMemory + k.freeMemory + UpTo(n) <= TotalPoolSize
    BY <1>4, <1>5, <1>6, <1>8, <1>12
  <2>3. \A x : Totals(OwnedSizes)'[x] = T[x] /\ UpTo(x)' = UpTo(x) BY <1>2, SumsStay
  <2>4. LiveBytes' = LiveBytes BY <1>2, SumsStay
  <2> QED BY <1>12, <2>1, <2>2, <2>3, <2>4 DEF CountSound
<1>15. PushOrdered(t)' /\ WalkOrdered(t)'
  BY <1>0, <1>2, <1>4, <1>12, <1>13 DEF PushOrdered, WalkOrdered
<1>16. OwnersFound(t)'
  BY <1>0, <1>2, <1>13 DEF OwnersFound, UsedFound, Owned
<1> QED BY <1>2, <1>14, <1>15, <1>16, SequentialKept

\* The end of DebugMemoryUsage, and CleanupMemoryPool.
LEMMA ReportSequential ==
  ASSUME NEW t, Sequential(t),
         UsageUnlock(t) \/ UsageLog(t) \/ CleanupDelete(t) \/ CleanupEnd(t)
  PROVE  SequentialInv'
<1> USE DEF memory, arena, client
<1> DEFINE l == th[t]  k == th'[t]  C == Chain(head)
<1>0. /\ TypeOK /\ LinksMade /\ Running /\ t \in Threads /\ l \in Locals
      /\ HeadDescends /\ WalkOrdered(t) /\ OwnersFound(t) /\ CountSound(t)
  BY SequentialFacts
<1>1. /\ C \subseteq 1 .. nblocks /\ 1 .. nblocks \subseteq Blocks /\ nblocks \in Nat
      /\ Follows(mem, head, C) /\ mem \in [Blocks -> Cells]
  BY <1>0, HeadChain
<1>2. CASE CleanupEnd(t) BY <1>2 DEF CleanupEnd, SequentialInv, Running
<1>3. CASE UsageUnlock(t)
  <2>1. /\ l.pc = "u_walk" /\ l.blk = 0
        /\ UNCHANGED <<head, freeList, onFree, mem, live, deleted, nblocks>>
    BY <1>3 DEF UsageUnlock, At
  <2>2. k = [l EXCEPT !.pc = "u_log"] BY <1>0, <1>3 DEF UsageUnlock, TypeOK
  <2>3. /\ k.pc = "u_log" /\ k.usedMemory = l.usedMemory /\ k.freeMemory = l.freeMemory
    BY <1>0, <2>2 DEF Locals
  <2>4. Totals(OwnedSizes)[0] = 0 /\ UpTo(0) = 0
    BY <1>0, SizesOwned, TotalsSum DEF Sum, UpTo
  <2>5. l.usedMemory <= LiveBytes /\ l.usedMemory + l.freeMemory <= TotalPoolSize
    BY <1>0, <2>1, <2>4 DEF CountSound, Locals, Sizes
  <2>6. CountSound(t)' BY <2>1, <2>3, <2>5, SumsStay DEF CountSound
  <2>7. Chain(head)' = C BY <2>1, LinksStay
  <2>8. PushOrdered(t)' /\ WalkOrdered(t)' /\ OwnersFound(t)'
    BY <1>0, <2>1, <2>3, <2>7 DEF PushOrdered, WalkOrdered, Walks, OwnersFound, UsedFound, Owned
  <2> QED BY <2>1, <2>6, <2>8, SequentialKept
<1>4. CASE UsageLog(t)
  <2>1. /\ l.pc = "u_log" /\ k = Idle
        /\ UNCHANGED <<head, freeList, onFree, mem, live, deleted>>
    BY <1>0, <1>4 DEF UsageLog, At, TypeOK
  <2>2. k.pc = "idle" /\ k.usedMemory = 0 /\ k.freeMemory = 0 BY <2>1 DEF Idle
  <2>3. Chain(head)' = C BY <2>1, LinksStay
  <2>4. PushOrdered(t)' /\ WalkOrdered(t)' /\ CountSound(t)'
    BY <2>1, <2>2, ElsewhereOrdered DEF Elsewhere
  <2>5. OwnersFound(t)' BY <1>0, <2>1, <2>3 DEF OwnersFound, UsedFound, Owned
  <2> QED BY <2>1, <2>4, <2>5, SequentialKept
<1>5. CASE CleanupDelete(t)
  <2> DEFINE b == l.blk  n == mem[b].next
  <2>1. /\ l.pc = "c_walk" /\ b # 0 /\ deleted' = deleted \cup {b}
        /\ UNCHANGED <<head, freeList, onFree, mem, live>>
    BY <1>5 DEF CleanupDelete, At
  <2>2. b \in C BY <1>0, <2>1 DEF WalkOrdered, Walks
  <2>3. n \in C \cup {0} /\ n < b /\ n \in Nat /\ b \in Nat
    BY <1>0, <1>1, <2>2 DEF Follows, HeadDescends
  <2>4. k = [l EXCEPT !.blk = n] BY <1>0, <1>5 DEF CleanupDelete, TypeOK
  <2>5. k.pc = "c_walk" /\ k.blk = n /\ k.usedMemory = 0 /\ k.freeMemory = 0
    BY <1>0, <2>1, <2>4 DEF Locals, CountSound
  <2>6. Chain(head)' = C BY <2>1, LinksStay
  <2>7. \A c \in deleted' : n < c
    <3>1. deleted \subseteq Nat BY <1>0 DEF TypeOK, Blocks
    <3>2. \A c \in deleted : b < c BY <1>0 DEF WalkOrdered
    <3> SUFFICES ASSUME NEW c \in deleted' PROVE n < c OBVIOUS
    <3>3. c = b \/ (c \in Nat /\ b < c) BY <2>1, <3>1, <3>2
    <3> HIDE DEF n, b
    <3> QED BY <2>3, <3>3
  <2>8. PushOrdered(t)' /\ WalkOrdered(t)' /\ CountSound(t)'
    BY <2>3, <2>5, <2>6, <2>7 DEF PushOrdered, WalkOrdered, CountSound
  <2>9. OwnersFound(t)' BY <1>0, <2>1, <2>6 DEF OwnersFound, UsedFound, Owned
  <2> QED BY <2>1, <2>8, <2>9, SequentialKept
<1> QED BY <1>2, <1>3, <1>4, <1>5

-----------------------------------------------------------------------------
LEMMA InitSequential == Init => SequentialInv
<1> SUFFICES ASSUME Init PROVE SequentialInv OBVIOUS
<1>1. Chain(head) = {}
  <2>1. Follows(mem, 0, {}) BY DEF Follows
  <2> QED BY <2>1, ChainLeast DEF Chain, Init
<1>2. \A t \in Threads : th[t] = Idle BY DEF Init
<1>3. HeadDescends BY <1>1 DEF Init, HeadDescends
<1>4. ASSUME NEW t \in Threads
      PROVE  PushOrdered(t) /\ WalkOrdered(t) /\ OwnersFound(t) /\ CountSound(t)
  <2>1. th[t].pc = "idle" /\ th[t].usedMemory = 0 /\ th[t].freeMemory = 0 BY <1>2 DEF Idle
  <2> QED BY <1>1, <2>1 DEF Init, PushOrdered, WalkOrdered, Walks, OwnersFound, CountSound
<1> QED BY <1>3, <1>4 DEF SequentialInv

LEMMA NextSequential ==
  ASSUME OneThread, TypeOK, TypeOK', LinksMade, IndInv, FreeListExact, SequentialInv, [Next]_vars
  PROVE  SequentialInv'
<1>1. CASE UNCHANGED vars
  <2>1. Running' = Running /\ Chain(head)' = Chain(head)
    BY <1>1 DEF vars, memory, arena, client, Running, Chain
  <2>2. HeadDescends' = HeadDescends
    BY <1>1, <2>1 DEF vars, memory, arena, client, HeadDescends
  <2>3. ASSUME NEW t \in Threads,
               PushOrdered(t) /\ WalkOrdered(t) /\ OwnersFound(t) /\ CountSound(t)
        PROVE  (PushOrdered(t) /\ WalkOrdered(t) /\ OwnersFound(t) /\ CountSound(t))'
    <3>1. CountSound(t)'
      BY <1>1, <2>3, SumsStay DEF vars, memory, arena, client, CountSound
    <3> QED BY <1>1, <2>1, <2>3, <3>1 DEF vars, memory, arena, client, PushOrdered, WalkOrdered,
                                          Walks, OwnersFound, UsedFound, Owned
  <2> QED BY <2>1, <2>2, <2>3 DEF SequentialInv
<1>2. CASE Stopped BY <1>2, <1>1 DEF Stopped
<1>3. ASSUME NEW t \in Threads, Call(t) PROVE SequentialInv'
  <2>1. Sequential(t) BY <1>3, CallRuns DEF Sequential
  <2> QED BY <1>3, <2>1, CallSequential
<1>4. ASSUME NEW t \in Threads, Step(t) PROVE SequentialInv'
  <2>1. Sequential(t) BY <1>4, StepRuns DEF Sequential
  <2> QED BY <1>4, <2>1, MallocSequential, PopCASSequential, MallocLinkSequential, WalkSequential,
             PushLinkSequential, PushCASSequential, UsageSequential, ReportSequential DEF Step
<1> QED BY <1>1, <1>2, <1>3, <1>4 DEF Next

\* With one thread, the list of all blocks runs from newer blocks to older ones,
\* through those in use to those on the free list, whatever was pushed, popped,
\* dropped and made in between.
THEOREM SequentialHolds ==
  ASSUME OneThread
  PROVE  Spec => []SequentialInv
<1>1. SinglePopper BY DEF OneThread, SinglePopper, Threads
<1>2. TypeOK /\ TypeOK' /\ LinksMade /\ IndInv /\ FreeListExact /\ SequentialInv /\ [Next]_vars
        => SequentialInv'
  BY NextSequential
<1>3. Spec => [](TypeOK /\ LinksMade) BY TypeCorrect
<1>4. Spec => [](TypeOK /\ IndInv) BY <1>1, Inductive
<1>5. Spec => []FreeListExact BY <1>1, FreeListExactHolds
<1> QED BY <1>2, <1>3, <1>4, <1>5, InitSequential, PTL DEF Spec

\* With one thread, a walk along the list of all blocks meets no block twice: each
\* link leads to an older block.
THEOREM HeadOrderHolds ==
  ASSUME OneThread
  PROVE  Spec => []HeadOrder
<1>1. SequentialInv => HeadOrder BY DEF SequentialInv, HeadDescends, HeadOrder
<1> QED BY <1>1, SequentialHolds, PTL

\* With one thread, CleanupMemoryPool deletes no MemoryBlock a second time and
\* reads the link of none it has deleted.
THEOREM CleanupDeletesOnceHolds ==
  ASSUME OneThread
  PROVE  Spec => []CleanupDeletesOnce
<1>1. TypeOK /\ SequentialInv => CleanupDeletesOnce
  <2> SUFFICES ASSUME TypeOK, SequentialInv, NEW t \in Threads, At(t, "c_walk"),
                      th[t].blk \in deleted
               PROVE  FALSE
    BY DEF CleanupDeletesOnce
  <2>1. th[t].blk < th[t].blk BY DEF At, Running, SequentialInv, WalkOrdered
  <2>2. deleted \subseteq Nat BY SizesAssumption DEF TypeOK, Blocks
  <2>3. th[t].blk \in Nat BY <2>2
  <2>4. ~(th[t].blk < th[t].blk) BY <2>3
  <2> QED BY <2>1, <2>4
<1> QED BY <1>1, SequentialHolds, TypeCorrect, PTL

\* With one thread, the "Used" bytes DebugMemoryUsage logs are no more than those
\* of the blocks the clients own, "Used" and "Free" together no more than the
\* arena, and neither sum wraps.
THEOREM UsageNeverTooHighHolds ==
  ASSUME OneThread
  PROVE  Spec => []UsageNeverTooHigh
<1>1. SequentialInv => UsageNeverTooHigh
  BY DEF SequentialInv, CountSound, UsageNeverTooHigh, At, Running
<1> QED BY <1>1, SequentialHolds, PTL

LEMMA WalkStep ==
  ASSUME OneThread, TypeOK, SequentialInv, NEW t \in Threads, Next, th'[t] # th[t],
         th[t].pc \in {"f_walk", "r_walk", "u_walk", "c_walk"},
         th'[t].pc \in {"f_walk", "r_walk", "u_walk", "c_walk"}
  PROVE  th'[t].blk < th[t].blk
<1>1. th # th' OBVIOUS
<1>2. PICK u \in Threads : Call(u) \/ Step(u) BY <1>1 DEF Next, Stopped, vars
<1>3. u = t BY DEF OneThread
<1>4. th \in [Threads -> Locals] /\ th[t] \in Locals BY DEF TypeOK
<1>5. th[t].pc # "idle" /\ ~At(t, "idle") BY DEF At
<1>6. ~Call(t)
  <2>1. ~CleanupCall(t) BY <1>5 DEF CleanupCall
  <2>2. ~MayCall(t) BY <1>5 DEF MayCall
  <2> QED BY <2>1, <2>2
          DEF Call, MallocCall, CallocCall, FreeCall, DoubleFreeCall, ReallocCall, UsageCall
<1>7. Running /\ Step(t) BY <1>2, <1>3, <1>6, StepRuns
<1>8. ~ReallocFound(t)
  <2> SUFFICES ASSUME ReallocFound(t) PROVE FALSE OBVIOUS
  <2>1. EnterMalloc(t, th[t].req) BY <1>1 DEF ReallocFound
  <2> QED BY <2>1, EnterMallocThread
<1>9. ~FreeFound(t) /\ ~UsageUnlock(t) /\ ~CleanupEnd(t)
  BY <1>4 DEF FreeFound, UsageUnlock, CleanupEnd, Idle, Locals
<1>10. WalkOn(t) \/ UsageStep(t) \/ CleanupDelete(t)
  BY <1>7, <1>8, <1>9
     DEF Step, InitPool, InitStores, PopLoad, PopReadNext, PopCAS, MallocTake, MallocAdd,
         MallocLink, WalkLock, FreeClear, PushLoad, PushLink, PushCAS, UsageLog, At
<1>11. th'[t].blk = mem[th[t].blk].next /\ th[t].blk # 0
  BY <1>4, <1>10 DEF WalkOn, WalkEnds, UsageStep, CleanupDelete, Locals
<1>12. th[t].blk \in Chain(head) /\ \A b \in Chain(head) : mem[b].next < b
  BY <1>7, <1>11 DEF SequentialInv, HeadDescends, WalkOrdered, Walks
<1> QED BY <1>11, <1>12

\* A step of a walk leads to an older block, or off the list.
WalksDown == \A t \in Threads : Walks(t) /\ Walks(t)' /\ th'[t] # th[t]
                                  => th'[t].blk < th[t].blk

\* With one thread, each step of a walk over the list of all blocks leads to an
\* older block, so that a walk of CustomFree, CustomRealloc, DebugMemoryUsage or
\* CleanupMemoryPool makes no more steps than there are blocks.
THEOREM WalksDescend ==
  ASSUME OneThread
  PROVE  Spec => [][WalksDown]_vars
<1>1. TypeOK /\ SequentialInv /\ [Next]_vars => [WalksDown]_vars
  BY WalkStep DEF WalksDown, Walks
<1> QED BY <1>1, TypeCorrect, SequentialHolds, PTL DEF Spec

-----------------------------------------------------------------------------
(* Threads that never free: the list of all blocks, whatever the races for *)
(* the arena and for the lock.                                              *)
NoFrees == Freers = {}

LEMMA LoaderFacts ==
  ASSUME LoaderInv, Running
  PROVE  /\ onFree = {} /\ freeList = 0 /\ 1 .. nblocks \subseteq Chain(head)
         /\ \A t \in Threads :
              /\ th[t].ptr = 0
              /\ th[t].pc \in {"idle", "m_init", "m_setup", "m_pop", "m_add", "m_link",
                               "u_walk", "u_log", "c_walk"}
         /\ \A e \in PoolHeap : \E b \in 1 .. nblocks :
              mem[b].address = e.addr /\ e.size <= mem[b].size
         /\ \A e, g \in PoolHeap : e.addr = g.addr => e = g
BY DEF LoaderInv

\* A step of thread t that leaves the blocks, their list and the extents alone.
LEMMA LoaderKept ==
  ASSUME LoaderInv, Running, NEW t \in Threads, \A u \in Threads \ {t} : th'[u] = th[u],
         th'[t].ptr = 0,
         th'[t].pc \in {"idle", "m_init", "m_setup", "m_pop", "m_add", "m_link", "u_walk",
                        "u_log", "c_walk"},
         UNCHANGED <<onFree, nblocks, mem>>, freeList' = 0,
         nblocks = 0 \/ UNCHANGED head, PoolHeap' = PoolHeap
  PROVE  LoaderInv'
<1>1. 1 .. nblocks' \subseteq Chain(head)'
  <2>1. CASE nblocks = 0
    <3>1. 1 .. 0 = {} OBVIOUS
    <3> QED BY <2>1, <3>1
  <2>2. CASE UNCHANGED head
    <3>1. Chain(head)' = Chain(head) BY <2>2 DEF Chain, ChainIn, Follows
    <3> QED BY <3>1, LoaderFacts
  <2> QED BY <2>1, <2>2
<1>2. \A u \in Threads :
        /\ th'[u].ptr = 0
        /\ th'[u].pc \in {"idle", "m_init", "m_setup", "m_pop", "m_add", "m_link", "u_walk",
                          "u_log", "c_walk"}
  BY LoaderFacts
<1>3. /\ onFree' = {}
      /\ \A e \in PoolHeap' : \E b \in 1 .. nblocks' :
           mem'[b].address = e.addr /\ e.size <= mem'[b].size
      /\ \A e, g \in PoolHeap' : e.addr = g.addr => e = g
  BY LoaderFacts
<1> QED BY <1>1, <1>2, <1>3 DEF LoaderInv

\* CustomMalloc outside a CustomRealloc: what it returns joins what is owned.
LEMMA LoaderReturn ==
  ASSUME TypeOK, NEW t \in Threads, th[t].ptr = 0, NEW p, NEW s, MallocReturn(t, p, s)
  PROVE  /\ th'[t] = Idle /\ \A u \in Threads \ {t} : th'[u] = th[u]
         /\ live' = IF p = 0 THEN live ELSE live \cup {[addr |-> p, size |-> s]}
<1>1. {e \in live : e.addr # th[t].ptr} = live BY DEF TypeOK, Extents
<1> QED BY <1>1 DEF MallocReturn, LiveAfter, Granted, TypeOK

LEMMA LoaderEnterMalloc ==
  ASSUME TypeOK, NEW t \in Threads, th[t].ptr = 0, NEW s, EnterMalloc(t, s)
  PROVE  /\ \A u \in Threads \ {t} : th'[u] = th[u]
         /\ th'[t].ptr = 0 /\ th'[t].pc \in {"idle", "m_init"}
         /\ PoolHeap' = PoolHeap
<1>1. Idle.ptr = 0 /\ Idle.pc = "idle" BY DEF Idle
<1>2. CASE MallocReturn(t, 0, s)
  <2>1. live' = live BY <1>2, LoaderReturn
  <2> QED BY <1>1, <1>2, <2>1, LoaderReturn DEF PoolHeap, InPool
<1>3. ASSUME NEW c \in 1 .. MaxCrt, MallocReturn(t, -c, s)
      PROVE  /\ \A u \in Threads \ {t} : th'[u] = th[u]
             /\ th'[t].ptr = 0 /\ th'[t].pc \in {"idle", "m_init"}
             /\ PoolHeap' = PoolHeap
  <2> DEFINE g == [addr |-> -c, size |-> s]
  <2>1. -c # 0 /\ ~(-c > 0) BY SizesAssumption
  <2>2. live' = live \cup {g} BY <1>3, <2>1, LoaderReturn
  <2>3. ~InPool(g) BY <2>1 DEF InPool
  <2> HIDE DEF g
  <2>4. PoolHeap' = PoolHeap BY <2>2, <2>3 DEF PoolHeap, InPool
  <2> QED BY <1>1, <1>3, <2>4, LoaderReturn
<1>4. CASE th' = [th EXCEPT ![t].pc = "m_init", ![t].req = s] /\ UNCHANGED live
  BY <1>4 DEF TypeOK, Locals, PoolHeap, InPool
<1> QED BY <1>2, <1>3, <1>4 DEF EnterMalloc

LEMMA LoaderCall ==
  ASSUME NoFrees, TypeOK, LoaderInv, NEW t \in Threads, Call(t)
  PROVE  LoaderInv'
<1> USE DEF memory, arena, client
<1>1. Running BY CallRuns
<1>2. Resizers = {} /\ Freers = {} /\ Freers \cap Allocators = {}
  BY RolesAssumption DEF NoFrees
<1>3. th \in [Threads -> Locals] /\ th[t].ptr = 0 /\ freeList = 0
  BY <1>1, LoaderFacts DEF TypeOK
<1>4. ASSUME NEW s, MallocCall(t, s) PROVE LoaderInv'
  BY <1>1, <1>3, <1>4, LoaderEnterMalloc, LoaderKept DEF MallocCall
<1>5. CASE UsageCall(t) \/ CleanupCall(t)
  <2>1. UNCHANGED live /\ UNCHANGED <<onFree, nblocks, mem, head, freeList>>
    BY <1>5 DEF UsageCall, CleanupCall
  <2>2. /\ \A u \in Threads \ {t} : th'[u] = th[u]
        /\ th'[t].ptr = 0 /\ th'[t].pc \in {"u_walk", "c_walk"}
    BY <1>3, <1>5 DEF UsageCall, CleanupCall, Locals
  <2>3. PoolHeap' = PoolHeap BY <2>1 DEF PoolHeap, InPool
  <2> QED BY <1>1, <1>3, <2>1, <2>2, <2>3, LoaderKept
<1> QED BY <1>2, <1>4, <1>5 DEF Call, CallocCall, FreeCall, DoubleFreeCall, ReallocCall

\* The new block goes in front of all others, and lies apart from them.
LEMMA LoaderLink ==
  ASSUME TypeOK, TypeOK', LinksMade, ArenaInv, LoaderInv, NEW t \in Threads, MallocLink(t)
  PROVE  LoaderInv'
<1> USE DEF arena
<1> DEFINE l == th[t]  n == nblocks + 1  p == pool + l.off
<1>1. /\ Running /\ l \in Locals /\ l.pc = "m_link" /\ t \in Linking /\ l.ptr = 0
      /\ UNCHANGED <<freeList, onFree>>
  BY LoaderFacts DEF MallocLink, At, Running, TypeOK, Linking
<1>2. CASE status' = "exited" BY <1>2 DEF LoaderInv, Running
<1>3. CASE /\ nblocks < MaxBlocks /\ nblocks' = n /\ head' = n
           /\ mem' = [mem EXCEPT ![n] = NewBlock(t, p)] /\ MallocReturn(t, p, l.req)
  <2>1. /\ nblocks \in Nat /\ n \in Blocks /\ 1 .. nblocks' = 1 .. nblocks \cup {n}
        /\ n \notin 1 .. nblocks
    <3>1. nblocks \in Nat /\ n <= MaxBlocks /\ MaxBlocks \in Nat
      BY <1>3, SizesAssumption DEF TypeOK, Links
    <3>2. n \in Blocks BY <3>1 DEF Blocks
    <3>3. 1 .. n = 1 .. nblocks \cup {n} BY <3>1
    <3> QED BY <1>3, <3>1, <3>2, <3>3
  <2>2. /\ \A b \in 1 .. nblocks : mem'[b] = mem[b]
        /\ mem'[n].address = p /\ mem'[n].size = AlignedSize(l.req) /\ mem'[n].next = head
    BY <1>3, <2>1, BlocksMade DEF TypeOK, NewBlock, BlockOf
  <2>3. /\ pool = PoolBase /\ Pooled(l.req) /\ l.req \in Nat /\ l.off \in Nat
        /\ Reserved(t) = [addr |-> p, size |-> AlignedSize(l.req)]
    BY <1>1 DEF LinksMade, LinkSound, InMalloc, Locals, Sizes, Reserved
  <2>4. AlignedSize(l.req) >= l.req /\ AlignedSize(l.req) \in Nat /\ AlignedSize(l.req) > 0
        /\ p \in Nat /\ p > 0
    BY <2>3, BidBounds, AlignedSizeBounds, SizesAssumption
  <2> DEFINE g == [addr |-> p, size |-> l.req]
  <2>5. live' = live \cup {g} /\ th'[t] = Idle /\ \A u \in Threads \ {t} : th'[u] = th[u]
    BY <1>1, <1>3, <2>4, LoaderReturn
  <2>6. g.addr = p /\ g.size = l.req OBVIOUS
  <2> HIDE DEF g
  <2>7. PoolHeap' = PoolHeap \cup {g} BY <2>4, <2>5, <2>6 DEF PoolHeap, InPool
  <2>8. \A b \in 1 .. nblocks : mem[b].address # p
    <3>1. ASSUME NEW b \in 1 .. nblocks PROVE mem[b].address # p
      <4>1. Apart(Memory(b), Reserved(t)) /\ Below(Memory(b), offset)
        BY <1>1 DEF ArenaInv, Places
      <4>2. mem[b].address \in Nat /\ mem[b].size \in Nat BY BlocksMade DEF TypeOK
      <4> HIDE DEF p
      <4> QED BY <2>3, <2>4, <4>1, <4>2 DEF Apart, Memory, Below
    <3> QED BY <3>1
  <2>9. 1 .. nblocks' \subseteq Chain(head)'
    <3>1. mem \in [Blocks -> Cells] /\ mem' \in [Blocks -> Cells] /\ head \in Links
      BY DEF TypeOK, Cells
    <3>2. Follows(mem, head, 1 .. nblocks) BY <1>1, <2>1 DEF Follows, LinksMade
    <3>3. ChainIn(mem, head) \subseteq 1 .. nblocks BY <3>2, BlocksMade, ChainLeast
    <3>4. n \notin ChainIn(mem, head) /\ \A b \in ChainIn(mem, head) : mem'[b].next = mem[b].next
      BY <2>1, <2>2, <3>3
    <3>5. ChainIn(mem', n) = ChainIn(mem, head) \cup {n}
      BY <2>1, <2>2, <3>1, <3>4, ChainPush
    <3>6. 1 .. nblocks \subseteq ChainIn(mem, head) BY <1>1, LoaderFacts DEF Chain
    <3> QED BY <1>3, <2>1, <3>5, <3>6 DEF Chain
  <2>10. ASSUME NEW e \in PoolHeap'
         PROVE  \E b \in 1 .. nblocks' : mem'[b].address = e.addr /\ e.size <= mem'[b].size
    <3>1. CASE e \in PoolHeap BY <1>1, <2>1, <2>2, <3>1, LoaderFacts
    <3>2. CASE e = g BY <2>1, <2>2, <2>4, <2>6, <3>2
    <3> QED BY <2>7, <3>1, <3>2
  <2>11. \A e \in PoolHeap : e.addr # p BY <1>1, <2>8, LoaderFacts
  <2>12. \A e, d \in PoolHeap' : e.addr = d.addr => e = d
    BY <1>1, <2>6, <2>7, <2>11, LoaderFacts
  <2>13. \A u \in Threads :
           /\ th'[u].ptr = 0
           /\ th'[u].pc \in {"idle", "m_init", "m_setup", "m_pop", "m_add", "m_link",
                             "u_walk", "u_log", "c_walk"}
    BY <1>1, <2>5, LoaderFacts DEF Idle
  <2> QED BY <1>1, <2>9, <2>10, <2>12, <2>13, LoaderFacts DEF LoaderInv
<1> QED BY <1>2, <1>3 DEF MallocLink

LEMMA LoaderStep ==
  ASSUME TypeOK, TypeOK', LinksMade, ArenaInv, LoaderInv, NEW t \in Threads, Step(t)
  PROVE  LoaderInv'
<1> USE DEF memory, arena, client
<1> DEFINE l == th[t]  k == th'[t]
<1>1. Running /\ th \in [Threads -> Locals] /\ l \in Locals BY StepRuns DEF TypeOK
<1>2. /\ l.ptr = 0 /\ freeList = 0
      /\ l.pc \in {"idle", "m_init", "m_setup", "m_pop", "m_add", "m_link", "u_walk", "u_log",
                   "c_walk"}
  BY <1>1, LoaderFacts
<1>3. \A u \in Threads \ {t} : th'[u] = th[u] BY StepThread
<1>4. ASSUME k.ptr = 0, k.pc \in {"idle", "m_setup", "m_pop", "m_add", "m_link", "u_walk",
                                  "u_log", "c_walk"},
             UNCHANGED <<onFree, nblocks, mem, head, freeList, live>>
      PROVE  LoaderInv'
  <2>1. PoolHeap' = PoolHeap BY <1>4 DEF PoolHeap, InPool
  <2> QED BY <1>1, <1>2, <1>3, <1>4, <2>1, LoaderKept
<1>5. CASE InitPool(t)
  <2>1. CASE status' = "exited" BY <2>1 DEF LoaderInv, Running
  <2>2. CASE th' = [th EXCEPT ![t].pc = "m_pop"] \/ th' = [th EXCEPT ![t].pc = "m_setup"]
    <3>1. k.ptr = 0 /\ k.pc \in {"m_pop", "m_setup"} BY <1>1, <1>2, <2>2 DEF Locals
    <3> QED BY <1>4, <1>5, <3>1 DEF InitPool
  <2> QED BY <1>5, <2>1, <2>2 DEF InitPool
<1>6. CASE InitStores(t)
  <2>1. nblocks = 0 BY <1>1, <1>6 DEF InitStores, At, ArenaInv, FirstCall
  <2>2. k.ptr = 0 /\ k.pc = "m_pop" BY <1>1, <1>2, <1>6 DEF InitStores, Locals
  <2>3. freeList' = 0 /\ UNCHANGED <<onFree, nblocks, mem, live>> BY <1>6 DEF InitStores
  <2>4. PoolHeap' = PoolHeap BY <2>3 DEF PoolHeap, InPool
  <2> QED BY <1>1, <1>3, <2>1, <2>2, <2>3, <2>4, LoaderKept
<1>7. CASE PopLoad(t)
  <2>1. k.ptr = 0 /\ k.pc = "m_add" BY <1>1, <1>2, <1>7 DEF PopLoad, PopReload, Locals
  <2> QED BY <1>4, <1>7, <2>1 DEF PopLoad
<1>8. CASE MallocAdd(t)
  <2>1. CASE MallocReturn(t, 0, l.req)
    <3>1. k = Idle /\ live' = live BY <1>2, <2>1, LoaderReturn
    <3> QED BY <1>4, <1>8, <3>1 DEF MallocAdd, Idle
  <2>2. CASE th' = [th EXCEPT ![t].pc = "m_link", ![t].off = offset] /\ UNCHANGED live
    <3>1. k.ptr = 0 /\ k.pc = "m_link" BY <1>1, <1>2, <2>2 DEF Locals
    <3> QED BY <1>4, <1>8, <2>2, <3>1 DEF MallocAdd
  <2>3. CASE status' = "wrapped" BY <2>3 DEF LoaderInv, Running
  <2> QED BY <1>8, <2>1, <2>2, <2>3 DEF MallocAdd
<1>9. CASE MallocLink(t) BY <1>9, LoaderLink
<1>10. CASE UsageStep(t) \/ UsageUnlock(t) \/ UsageLog(t)
  <2>1. k.ptr = 0 /\ k.pc \in {"u_walk", "u_log", "idle"}
    BY <1>1, <1>2, <1>10 DEF UsageStep, UsageUnlock, UsageLog, At, Idle, Locals
  <2> QED BY <1>4, <1>10, <2>1 DEF UsageStep, UsageUnlock, UsageLog
<1>11. CASE CleanupDelete(t)
  <2>1. k.ptr = 0 /\ k.pc = "c_walk" BY <1>1, <1>2, <1>11 DEF CleanupDelete, At, Locals
  <2> QED BY <1>4, <1>11, <2>1 DEF CleanupDelete
<1>12. CASE CleanupEnd(t) BY <1>12 DEF CleanupEnd, LoaderInv, Running
<1> QED BY <1>2, <1>5, <1>6, <1>7, <1>8, <1>9, <1>10, <1>11, <1>12
        DEF Step, PopReadNext, PopCAS, MallocTake, WalkLock, WalkOn, FreeFound, FreeClear,
            PushLoad, PushLink, PushCAS, ReallocFound, At

\* Where nobody frees, the list of all blocks has every block, and each client owns
\* the memory of a block of its own, for any number of threads that allocate.
THEOREM LoadersHold ==
  ASSUME NoFrees
  PROVE  Spec => []LoaderInv
<1>1. Init => LoaderInv
  <2> SUFFICES ASSUME Init PROVE LoaderInv OBVIOUS
  <2>1. PoolHeap = {} /\ 1 .. nblocks = {} BY DEF Init, PoolHeap
  <2> QED BY <2>1 DEF Init, Idle, LoaderInv
<1>2. TypeOK /\ TypeOK' /\ LinksMade /\ ArenaInv /\ LoaderInv /\ [Next]_vars => LoaderInv'
  <2> SUFFICES ASSUME TypeOK, TypeOK', LinksMade, ArenaInv, LoaderInv, [Next]_vars
               PROVE  LoaderInv'
    OBVIOUS
  <2>1. CASE UNCHANGED vars
    <3>1. Chain(head)' = Chain(head) /\ PoolHeap' = PoolHeap
      BY <2>1 DEF vars, memory, client, Chain, ChainIn, Follows, PoolHeap, InPool
    <3> QED BY <2>1, <3>1 DEF vars, memory, client, LoaderInv, Running
  <2> QED BY <2>1, LoaderCall, LoaderStep DEF Next, Stopped
<1> QED BY <1>1, <1>2, TypeCorrect, ArenaHolds, PTL DEF Spec

\* Where nobody frees, CustomFree would find every extent handed out on its walk
\* from head: no insertion under headMutex loses another thread's block.
THEOREM AllocatedReachableHolds ==
  ASSUME NoFrees
  PROVE  Spec => []AllocatedReachable
<1>1. LoaderInv => AllocatedReachable
  <2> SUFFICES ASSUME LoaderInv, Running, NEW e \in PoolHeap
               PROVE  \E b \in Chain(head) : mem[b].address = e.addr
    BY DEF AllocatedReachable
  <2> QED BY LoaderFacts
<1> QED BY <1>1, LoadersHold, PTL

\* Where nobody frees, any number of threads may allocate at the same time: no two
\* are handed memory that overlaps.
THEOREM LoadersApart ==
  ASSUME NoFrees
  PROVE  Spec => []NoOverlap
<1>1. TypeOK /\ ArenaInv /\ LoaderInv => NoOverlap
  <2> SUFFICES ASSUME TypeOK, ArenaInv, LoaderInv, Running,
                      NEW e \in PoolHeap, NEW g \in PoolHeap, e # g
               PROVE  Apart(e, g)
    BY DEF NoOverlap
  <2>1. PICK b \in 1 .. nblocks : mem[b].address = e.addr /\ e.size <= mem[b].size
    BY LoaderFacts
  <2>2. PICK c \in 1 .. nblocks : mem[c].address = g.addr /\ g.size <= mem[c].size
    BY LoaderFacts
  <2>3. b # c BY <2>1, <2>2, LoaderFacts
  <2>4. Apart(Memory(b), Memory(c)) BY <2>3 DEF ArenaInv, Places
  <2>5. /\ e.size \in Nat /\ g.size \in Nat
        /\ mem[b].address \in Nat /\ mem[b].size \in Nat
        /\ mem[c].address \in Nat /\ mem[c].size \in Nat
    BY SizesAssumption, BlocksMade DEF PoolHeap, TypeOK, Extents, Sizes
  <2> QED BY <2>1, <2>2, <2>4, <2>5 DEF Apart, Memory
<1> QED BY <1>1, TypeCorrect, ArenaHolds, LoadersHold, PTL

\* No step but the insertion of a new block hands out memory of the arena ...
LEMMA LoaderSame ==
  ASSUME NoFrees, TypeOK, LoaderInv, NEW t \in Threads, Call(t) \/ Step(t), ~MallocLink(t)
  PROVE  PoolHeap' = PoolHeap
<1> USE DEF client
<1>1. Running BY CallRuns, StepRuns
<1>2. Resizers = {} /\ Freers = {} /\ Freers \cap Allocators = {}
  BY RolesAssumption DEF NoFrees
<1>3. /\ th[t].ptr = 0
      /\ th[t].pc \in {"idle", "m_init", "m_setup", "m_pop", "m_add", "m_link", "u_walk",
                       "u_log", "c_walk"}
  BY <1>1, LoaderFacts
<1>4. CASE UNCHANGED live BY <1>4 DEF PoolHeap, InPool
<1>5. ASSUME NEW s, MallocCall(t, s) PROVE PoolHeap' = PoolHeap
  BY <1>3, <1>5, LoaderEnterMalloc DEF MallocCall
<1>6. CASE Call(t)
  BY <1>2, <1>4, <1>5, <1>6
     DEF Call, CallocCall, FreeCall, DoubleFreeCall, ReallocCall, UsageCall, CleanupCall
<1>7. CASE MallocAdd(t)
  BY <1>3, <1>4, <1>7, LoaderReturn DEF MallocAdd
<1>8. CASE Step(t) /\ ~MallocAdd(t)
  <2>1. ~MallocTake(t) /\ ~ReallocFound(t) BY <1>3 DEF MallocTake, ReallocFound, At
  <2>2. CASE InitPool(t) \/ InitStores(t) \/ PopLoad(t) \/ PopReadNext(t) \/ PopCAS(t)
    BY <1>4, <2>2 DEF InitPool, InitStores, PopLoad, PopReadNext, PopCAS
  <2>3. CASE \/ WalkLock(t) \/ WalkOn(t) \/ FreeFound(t) \/ FreeClear(t) \/ PushLoad(t)
             \/ PushLink(t) \/ PushCAS(t)
    BY <1>4, <2>3 DEF WalkLock, WalkOn, FreeFound, FreeClear, PushLoad, PushLink, PushCAS
  <2>4. CASE \/ UsageStep(t) \/ UsageUnlock(t) \/ UsageLog(t) \/ CleanupDelete(t)
             \/ CleanupEnd(t)
    BY <1>4, <2>4 DEF UsageStep, UsageUnlock, UsageLog, CleanupDelete, CleanupEnd
  <2> QED BY <1>8, <2>1, <2>2, <2>3, <2>4 DEF Step
<1> QED BY <1>6, <1>7, <1>8

\* ... and what that hands out is fresh.
LEMMA LoaderObtains ==
  ASSUME TypeOK, LinksMade, ArenaInv, LoaderInv, BoundaryInv, NEW t \in Threads,
         MallocLink(t), PoolHeap' # PoolHeap
  PROVE  Heap!Obtain
<1> DEFINE l == th[t]  p == pool + l.off  s == l.req  g == [addr |-> p, size |-> s]
<1>1. /\ Running /\ l \in Locals /\ l.pc = "m_link" /\ t \in Linking /\ l.ptr = 0
  BY LoaderFacts DEF MallocLink, At, Running, TypeOK, Linking
<1>2. MallocReturn(t, p, s) BY DEF MallocLink, PoolHeap, InPool
<1>3. /\ pool = PoolBase /\ Pooled(s) /\ s \in Nat /\ l.off \in Nat
      /\ PoolBase \in Nat \ {0} /\ TotalPoolSize \in Nat
      /\ Reserved(t) = [addr |-> p, size |-> AlignedSize(s)]
  BY <1>1, SizesAssumption DEF LinksMade, LinkSound, InMalloc, Locals, Sizes, Reserved
<1>4. AlignedSize(s) \in Nat /\ AlignedSize(s) >= s BY <1>3, AlignedSizeBounds
<1>5. p = PoolBase + l.off BY <1>3
<1>6. OnBoundary(p) BY <1>1, <1>3, <1>5, BasesOnBoundary, SumOnBoundary DEF BoundaryInv
<1>7. Below(Reserved(t), TotalPoolSize) /\ \A b \in 1 .. nblocks : Apart(Memory(b), Reserved(t))
  BY <1>1 DEF ArenaInv, Places
<1>8. g.addr = p /\ g.size = s OBVIOUS
<1>9. p \in Nat /\ p > 0 /\ PoolBase <= p BY <1>3, <1>5
<1> HIDE DEF p, s, g
<1>10. p + s <= PoolBase + TotalPoolSize BY <1>3, <1>4, <1>7, <1>9 DEF Below
<1>11. ASSUME NEW e \in PoolHeap PROVE g.addr + g.size <= e.addr \/ e.addr + e.size <= g.addr
  <2>1. PICK b \in 1 .. nblocks : mem[b].address = e.addr /\ e.size <= mem[b].size
    BY <1>1, LoaderFacts
  <2>2. /\ e.size \in Nat /\ mem[b].address \in Nat /\ mem[b].size \in Nat
    BY SizesAssumption, BlocksMade DEF PoolHeap, TypeOK, Extents, Sizes
  <2>3. Apart(Memory(b), Reserved(t)) BY <1>7
  <2> QED BY <1>3, <1>4, <1>8, <1>9, <2>1, <2>2, <2>3 DEF Apart, Memory
<1>12. Heap!Fresh(g) BY <1>6, <1>8, <1>9, <1>10, <1>11 DEF Heap!Fresh, Heap!Apart, OnBoundary
<1>13. PoolHeap' = PoolHeap \cup {g}
  <2>1. p # 0 BY <1>9
  <2>2. live' = live \cup {g} BY <1>1, <1>2, <2>1, LoaderReturn DEF g
  <2> QED BY <1>8, <1>9, <2>2 DEF PoolHeap, InPool
<1>14. g \in PoolHeap' \ PoolHeap BY <1>13
<1> QED BY <1>12, <1>13, <1>14 DEF Heap!Obtain

\* Where nobody frees, the pool implements the abstract heap for any number of
\* threads that allocate.
THEOREM LoadersImplementHeap ==
  ASSUME NoFrees
  PROVE  Spec => ImplementsHeap
<1>1. Init => Heap!Init BY DEF Init, Heap!Init, PoolHeap
<1>2. /\ TypeOK /\ LinksMade /\ ArenaInv /\ LoaderInv /\ BoundaryInv /\ [Next]_vars
      => [Heap!Next]_PoolHeap
  <2> SUFFICES ASSUME TypeOK, LinksMade, ArenaInv, LoaderInv, BoundaryInv, [Next]_vars,
                      PoolHeap' # PoolHeap
               PROVE  Heap!Next
    OBVIOUS
  <2>1. ~UNCHANGED live BY DEF PoolHeap, InPool
  <2>2. PICK t \in Threads : Call(t) \/ Step(t) BY <2>1 DEF Next, Stopped, vars, client
  <2>3. MallocLink(t) BY <2>2, LoaderSame
  <2> QED BY <2>3, LoaderObtains DEF Heap!Next
<1> QED BY <1>1, <1>2, TypeCorrect, ArenaHolds, LoadersHold, BoundaryHolds, PTL
        DEF Spec, ImplementsHeap, Heap!Spec
=============================================================================

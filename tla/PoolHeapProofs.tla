--------------------------- MODULE PoolHeapProofs ---------------------------
(***************************************************************************)
(* What the custom memory pool is to its clients, for any requests and any *)
(* arena.  For any threads: its bump offset hands out each byte once, on a *)
(* boundary, it loses no block of the C heap once there is an arena, and   *)
(* it hands the C library nothing of the arena.  With one thread that      *)
(* pops: it implements the abstract heap.                                  *)
(***************************************************************************)
EXTENDS PoolProofs

-----------------------------------------------------------------------------
(* Sums of multiples of Alignment are multiples of it. *)

LEMMA MultipleOnBoundary ==
  ASSUME NEW k \in Int
  PROVE  OnBoundary(k * Alignment)
<1> DEFINE x == k * Alignment  q == x \div Alignment  r == x % Alignment
<1>1. Alignment \in Nat /\ Alignment > 0 BY SizesAssumption
<1>2. x \in Int /\ x = Alignment * k BY <1>1
<1>3. q \in Int /\ x = Alignment * q + r /\ r \in 0 .. Alignment - 1 BY <1>1, <1>2
<1> HIDE DEF x, q, r
<1> DEFINE d == k - q
<1>4. d \in Int /\ Alignment * d = Alignment * k - Alignment * q BY <1>1, <1>3
<1>5. Alignment * d = r BY <1>1, <1>2, <1>3, <1>4
<1> HIDE DEF d
<1>6. ~(d >= 1)
  <2> SUFFICES ASSUME d >= 1 PROVE FALSE OBVIOUS
  <2>1. Alignment * d >= Alignment * 1 BY <1>1, <1>4
  <2> QED BY <1>1, <1>3, <1>5, <2>1
<1>7. ~(d <= -1)
  <2> SUFFICES ASSUME d <= -1 PROVE FALSE OBVIOUS
  <2>1. Alignment * d <= Alignment * (-1) BY <1>1, <1>4
  <2>2. Alignment * (-1) = -Alignment BY <1>1
  <2> QED BY <1>1, <1>3, <1>5, <2>1, <2>2
<1>8. d = 0 BY <1>4, <1>6, <1>7
<1>9. r = 0 BY <1>1, <1>5, <1>8
<1> QED BY <1>9 DEF OnBoundary, r, x

LEMMA BoundaryMultiple ==
  ASSUME NEW x \in Nat, OnBoundary(x)
  PROVE  \E k \in Int : x = k * Alignment
<1> DEFINE q == x \div Alignment
<1>1. Alignment \in Nat /\ Alignment > 0 BY SizesAssumption
<1>2. q \in Int /\ x = Alignment * q + (x % Alignment) BY <1>1
<1> HIDE DEF q
<1>3. x = Alignment * q BY <1>1, <1>2 DEF OnBoundary
<1>4. x = q * Alignment BY <1>1, <1>2, <1>3
<1> QED BY <1>2, <1>4

LEMMA SumOnBoundary ==
  ASSUME NEW x \in Nat, NEW y \in Nat, OnBoundary(x), OnBoundary(y)
  PROVE  OnBoundary(x + y)
<1>1. PICK j \in Int : x = j * Alignment BY BoundaryMultiple
<1>2. PICK k \in Int : y = k * Alignment BY BoundaryMultiple
<1>3. Alignment \in Int BY SizesAssumption
<1>4. x + y = (j + k) * Alignment BY <1>1, <1>2, <1>3
<1>5. j + k \in Int OBVIOUS
<1>6. OnBoundary((j + k) * Alignment) BY <1>5, MultipleOnBoundary
<1> QED BY <1>4, <1>6

LEMMA AlignedOnBoundary ==
  ASSUME NEW s \in Nat
  PROVE  OnBoundary(AlignedSize(s))
<1>1. Alignment \in Nat /\ Alignment > 0 BY SizesAssumption
<1>2. (s + Alignment - 1) \div Alignment \in Int BY <1>1
<1> QED BY <1>2, MultipleOnBoundary DEF AlignedSize

LEMMA BasesOnBoundary == OnBoundary(0) /\ OnBoundary(PoolBase)
<1>1. Alignment \in Int /\ 0 = 0 * Alignment BY SizesAssumption
<1>2. OnBoundary(0) BY <1>1, MultipleOnBoundary
<1> QED BY <1>2, SizesAssumption DEF OnBoundary

-----------------------------------------------------------------------------
(* Where a call puts its thread, and where a step does. *)

\* What CustomMalloc's return leaves of its thread.
LEMMA MallocReturnThread ==
  ASSUME TypeOK, NEW t \in Threads, NEW p, NEW s, MallocReturn(t, p, s)
  PROVE  /\ \A u \in Threads \ {t} : th'[u] = th[u]
         /\ th'[t].pc \in {"idle", "f_lock"}
BY DEF MallocReturn, TypeOK, Idle

LEMMA EnterMallocThread ==
  ASSUME TypeOK, NEW t \in Threads, NEW s, EnterMalloc(t, s)
  PROVE  /\ \A u \in Threads \ {t} : th'[u] = th[u]
         /\ th'[t].pc \in {"idle", "f_lock", "m_init"}
<1>1. CASE \E p : MallocReturn(t, p, s) BY <1>1, MallocReturnThread
<1>2. CASE th' = [th EXCEPT ![t].pc = "m_init", ![t].req = s]
  BY <1>2 DEF TypeOK, Locals
<1> QED BY <1>1, <1>2 DEF EnterMalloc

LEMMA CallThread ==
  ASSUME TypeOK, NEW t \in Threads, Call(t)
  PROVE  /\ \A u \in Threads \ {t} : th'[u] = th[u]
         /\ \/ th'[t] = th[t]
            \/ th'[t].pc \in {"idle", "f_lock", "m_init", "u_walk", "c_walk"}
            \/ th'[t].pc = "r_lock" /\ t \in Resizers
<1>1. CASE \E s : EnterMalloc(t, s) BY <1>1, EnterMallocThread
<1>2. CASE UNCHANGED th BY <1>2
<1>3. ASSUME NEW e \in live, FreeCall(t, e), ~UNCHANGED th
      PROVE  (\A u \in Threads \ {t} : th'[u] = th[u]) /\ th'[t].pc = "f_lock"
  BY <1>3 DEF FreeCall, TypeOK, Locals
<1>4. ASSUME NEW b \in onFree, DoubleFreeCall(t, b)
      PROVE  (\A u \in Threads \ {t} : th'[u] = th[u]) /\ th'[t].pc = "f_lock"
  BY <1>4 DEF DoubleFreeCall, TypeOK, Locals
<1>5. ASSUME NEW e \in live, NEW s \in Requests, ReallocCall(t, e, s), ~UNCHANGED th
      PROVE  /\ \A u \in Threads \ {t} : th'[u] = th[u]
             /\ th'[t].pc = "r_lock" /\ t \in Resizers
  BY <1>5 DEF ReallocCall, TypeOK, Locals
<1>6. CASE UsageCall(t) \/ CleanupCall(t)
  BY <1>6 DEF UsageCall, CleanupCall, TypeOK, Locals
<1> QED BY <1>1, <1>2, <1>3, <1>4, <1>5, <1>6 DEF Call, MallocCall, CallocCall

LEMMA StepThread ==
  ASSUME TypeOK, NEW t \in Threads, Step(t)
  PROVE  /\ \A u \in Threads \ {t} : th'[u] = th[u]
         /\ th'[t].pc = "m_link" => th'[t] = th[t] \/ MallocAdd(t)
         /\ th'[t].pc # "r_lock"
         /\ th'[t].pc = "r_walk" => th[t].pc \in {"r_lock", "r_walk"}
<1>1. th \in [Threads -> Locals] /\ Idle.pc = "idle" BY DEF TypeOK, Idle
<1>2. CASE \E p, s : MallocReturn(t, p, s) BY <1>2, MallocReturnThread
<1>3. CASE InitPool(t) BY <1>1, <1>3 DEF InitPool, At, Locals
<1>4. CASE InitStores(t) \/ CleanupEnd(t)
  BY <1>1, <1>4 DEF InitStores, CleanupEnd, Locals
<1>5. CASE PopLoad(t) \/ PopCAS(t)
  BY <1>1, <1>5 DEF PopLoad, PopCAS, PopReload, Locals
<1>6. CASE PopReadNext(t) \/ WalkLock(t)
  BY <1>1, <1>6 DEF PopReadNext, WalkLock, At, Locals
<1>7. CASE MallocTake(t)
  <2>1. CASE th' = [th EXCEPT ![t].pc = "m_pop"] BY <1>1, <2>1 DEF Locals
  <2> QED BY <1>2, <1>7, <2>1 DEF MallocTake
<1>8. CASE MallocAdd(t)
  <2>1. CASE th' = [th EXCEPT ![t].pc = "m_link", ![t].off = offset]
    BY <1>1, <1>8, <2>1 DEF Locals
  <2>2. CASE UNCHANGED th
    <3>1. th[t].pc = "m_add" BY <1>8 DEF MallocAdd, At
    <3> QED BY <2>2, <3>1
  <2> QED BY <1>2, <1>8, <2>1, <2>2 DEF MallocAdd
<1>9. CASE MallocLink(t)
  <2>1. th[t].pc = "m_link" BY <1>9 DEF MallocLink, At
  <2> QED BY <1>2, <1>9, <2>1 DEF MallocLink
<1>10. CASE WalkOn(t) \/ UsageStep(t) \/ CleanupDelete(t)
  BY <1>1, <1>10 DEF WalkOn, UsageStep, CleanupDelete, At, Locals
<1>11. CASE FreeFound(t) BY <1>1, <1>11 DEF FreeFound, Locals
<1>12. CASE FreeClear(t) \/ PushLink(t) BY <1>1, <1>12 DEF FreeClear, PushLink, Locals
<1>13. CASE PushLoad(t) \/ PushCAS(t)
  BY <1>1, <1>13 DEF PushLoad, PushCAS, PushReload, Locals
<1>14. CASE ReallocFound(t)
  <2>1. th[t].pc = "r_walk" BY <1>14 DEF ReallocFound, At
  <2> QED BY <1>14, <2>1, EnterMallocThread DEF ReallocFound
<1>15. CASE UsageUnlock(t) \/ UsageLog(t)
  BY <1>1, <1>15 DEF UsageUnlock, UsageLog, Locals
<1> QED BY <1>3, <1>4, <1>5, <1>6, <1>7, <1>8, <1>9, <1>10, <1>11, <1>12, <1>13, <1>14, <1>15
        DEF Step

-----------------------------------------------------------------------------
(* The arena, for any threads: the places that the bump offset hands out,   *)
(* and how far refused requests carry it.                                   *)

\* A pooled request is rounded to no more than the largest one.
LEMMA BidBounds ==
  ASSUME NEW s \in Nat, Pooled(s)
  PROVE  /\ AlignedSize(s) \in Nat /\ AlignedSize(s) > 0 /\ AlignedSize(s) <= BiggestBid
         /\ BiggestBid \in Nat
<1> DEFINE most == TotalPoolSize \div 3
<1>1. most \in Nat /\ s <= most /\ s > 0 BY SizesAssumption DEF Pooled
<1>2. AlignedSize(s) <= AlignedSize(most) BY <1>1, AlignedSizeMonotone
<1>3. AlignedSize(s) \in Nat /\ AlignedSize(most) \in Nat /\ AlignedSize(s) >= s
  BY <1>1, AlignedSizeBounds
<1> QED BY <1>1, <1>2, <1>3 DEF BiggestBid

\* The places stay what they are.
LEMMA PlacesKept ==
  ASSUME Places, UNCHANGED <<offset, nblocks>>,
         \A b \in 1 .. nblocks : mem'[b].address = mem[b].address /\ mem'[b].size = mem[b].size,
         \A t \in Linking' : t \in Linking /\ th'[t] = th[t]
  PROVE  Places'
<1>1. \A b \in 1 .. nblocks : Memory(b)' = Memory(b) BY DEF Memory
<1>2. \A t \in Linking' : Reserved(t)' = Reserved(t) /\ t \in Linking
  BY DEF Reserved, AlignedSize
<1> QED BY <1>1, <1>2 DEF Places, Below, Apart

\* Where CustomMalloc and CustomRealloc take their thread, and for which request.
LEMMA EnterMallocBid ==
  ASSUME TypeOK, NEW t \in Threads, NEW s, EnterMalloc(t, s)
  PROVE  \/ th'[t].pc \in {"idle", "f_lock"}
         \/ th'[t].pc = "m_init" /\ th'[t].req = s /\ Pooled(s)
<1>1. CASE \E p : MallocReturn(t, p, s) BY <1>1, MallocReturnThread
<1>2. CASE Pooled(s) /\ th' = [th EXCEPT ![t].pc = "m_init", ![t].req = s]
  BY <1>2 DEF TypeOK, Locals
<1> QED BY <1>1, <1>2 DEF EnterMalloc

LEMMA CallBids ==
  ASSUME TypeOK, NEW t \in Threads, Call(t)
  PROVE  /\ Linking' \subseteq Linking
         /\ InMalloc(t)' => th'[t].pc = "m_init" /\ (t = Main \/ initialized)
<1> DEFINE k == th'[t]
<1>1. /\ \A u \in Threads \ {t} : th'[u] = th[u]
      /\ \/ k = th[t]
         \/ k.pc \in {"idle", "f_lock", "m_init", "u_walk", "c_walk"}
         \/ k.pc = "r_lock" /\ t \in Resizers
  BY CallThread
<1>2. th[t].pc = "idle"
  BY DEF Call, MallocCall, CallocCall, FreeCall, DoubleFreeCall, ReallocCall, UsageCall,
         CleanupCall, MayCall, At
<1>3. Linking' \subseteq Linking BY <1>1, <1>2 DEF Linking
<1>4. ASSUME k.pc = "m_init" PROVE t = Main \/ initialized
  <2>1. ASSUME NEW s, MallocCall(t, s) PROVE t = Main \/ initialized
    <3>1. Pooled(s) BY <1>4, <2>1, EnterMallocBid DEF MallocCall
    <3> QED BY <2>1, <3>1 DEF MallocCall, MayPool
  <2>2. ASSUME NEW x \in {"u_walk", "c_walk"}, th' = [th EXCEPT ![t].pc = x, ![t].blk = head]
        PROVE  FALSE
    BY <1>4, <2>2 DEF TypeOK, Locals
  <2>3. ASSUME NEW x \in {"f_lock", "r_lock"}, NEW p, NEW s,
               \/ th' = [th EXCEPT ![t].pc = x, ![t].ptr = p]
               \/ th' = [th EXCEPT ![t].pc = x, ![t].ptr = p, ![t].req = s]
        PROVE  FALSE
    BY <1>4, <2>3 DEF TypeOK, Locals
  <2>4. CASE UNCHANGED th BY <1>2, <1>4, <2>4
  <2> QED BY <2>1, <2>2, <2>3, <2>4
          DEF Call, CallocCall, FreeCall, DoubleFreeCall, ReallocCall, UsageCall, CleanupCall
<1>5. InMalloc(t)' => k.pc = "m_init" BY <1>1, <1>2 DEF InMalloc
<1> QED BY <1>3, <1>4, <1>5

\* A step keeps the request it works for; only the first call of all sets up.
Onward(t) ==
  LET l == th[t]  k == th'[t] IN
  /\ InMalloc(t)' => /\ k.req = l.req
                     /\ \/ InMalloc(t) /\ (l.pc = "m_link" => k = l)
                        \/ /\ l.pc = "r_walk" /\ k.pc = "m_init" /\ Pooled(l.req)
                           /\ l.blk # 0
  /\ k.pc \in {"r_lock", "r_walk"} => l.pc \in {"r_lock", "r_walk"} /\ k.req = l.req
  /\ k.pc = "m_setup" => k = l \/ ~initialized
  /\ ~initialized' /\ InMalloc(t)' => k.pc \in {"m_init", "m_setup"} \/ InMalloc(t)
  /\ ~initialized' /\ l.pc \in {"m_init", "m_setup"} => k = l \/ k.pc = "m_setup"

LEMMA StepOnward ==
  ASSUME TypeOK, NEW t \in Threads, Step(t)
  PROVE  Onward(t)
<1> DEFINE l == th[t]  k == th'[t]
<1>1. th \in [Threads -> Locals] /\ l \in Locals BY DEF TypeOK
<1>2. ASSUME k.pc \in {"idle", "f_lock"}, l.pc \notin {"m_init", "m_setup"} PROVE Onward(t)
  BY <1>2 DEF Onward, InMalloc
<1>3. ASSUME NEW p, NEW s, MallocReturn(t, p, s), l.pc \notin {"m_init", "m_setup"}
      PROVE  Onward(t)
  BY <1>2, <1>3, MallocReturnThread
<1>4. CASE InitPool(t)
  <2>1. CASE initialized /\ th' = [th EXCEPT ![t].pc = "m_pop"]
    <3>1. k.pc = "m_pop" /\ k.req = l.req BY <1>1, <2>1 DEF Locals
    <3> QED BY <1>4, <2>1, <3>1 DEF InitPool, At, Onward, InMalloc
  <2>2. CASE ~initialized /\ th' = [th EXCEPT ![t].pc = "m_setup"]
    <3>1. k.pc = "m_setup" /\ k.req = l.req BY <1>1, <2>2 DEF Locals
    <3> QED BY <1>4, <2>2, <3>1 DEF InitPool, At, Onward, InMalloc
  <2>3. CASE UNCHANGED th BY <1>4, <2>3 DEF InitPool, At, Onward, InMalloc
  <2> QED BY <1>4, <2>1, <2>2, <2>3 DEF InitPool
<1>5. CASE InitStores(t)
  <2>1. k.pc = "m_pop" /\ k.req = l.req BY <1>1, <1>5 DEF InitStores, Locals
  <2> QED BY <1>5, <2>1 DEF InitStores, At, Onward, InMalloc
<1>6. CASE PopLoad(t) \/ PopReadNext(t) \/ PopCAS(t)
  <2>1. /\ k.pc \in {"m_add", "m_next", "m_cas", "m_take"} /\ k.req = l.req
        /\ l.pc \in {"m_pop", "m_next", "m_cas"}
    BY <1>1, <1>6 DEF PopLoad, PopReadNext, PopCAS, PopReload, At, Locals
  <2> QED BY <2>1 DEF Onward, InMalloc
<1>7. CASE MallocTake(t)
  <2>1. l.pc = "m_take" BY <1>7 DEF MallocTake, At
  <2>2. CASE th' = [th EXCEPT ![t].pc = "m_pop"]
    <3>1. k.pc = "m_pop" /\ k.req = l.req BY <1>1, <2>2 DEF Locals
    <3> QED BY <2>1, <3>1 DEF Onward, InMalloc
  <2> QED BY <1>3, <1>7, <2>1, <2>2 DEF MallocTake
<1>8. CASE MallocAdd(t)
  <2>1. l.pc = "m_add" BY <1>8 DEF MallocAdd, At
  <2>2. CASE th' = [th EXCEPT ![t].pc = "m_link", ![t].off = offset]
    <3>1. k.pc = "m_link" /\ k.req = l.req BY <1>1, <2>2 DEF Locals
    <3> QED BY <2>1, <3>1 DEF Onward, InMalloc
  <2>3. CASE UNCHANGED th BY <2>1, <2>3 DEF Onward, InMalloc
  <2> QED BY <1>3, <1>8, <2>1, <2>2, <2>3 DEF MallocAdd
<1>9. CASE MallocLink(t)
  <2>1. l.pc = "m_link" BY <1>9 DEF MallocLink, At
  <2>2. CASE UNCHANGED th BY <2>1, <2>2 DEF Onward, InMalloc
  <2> QED BY <1>3, <1>9, <2>1, <2>2 DEF MallocLink
<1>10. CASE WalkLock(t) \/ WalkOn(t)
  <2>1. /\ k.pc \in {"f_walk", "r_walk"} /\ k.req = l.req
        /\ k.pc = "r_walk" => l.pc \in {"r_lock", "r_walk"}
        /\ l.pc \in {"f_lock", "r_lock", "f_walk", "r_walk"}
    BY <1>1, <1>10 DEF WalkLock, WalkOn, At, Locals
  <2> QED BY <2>1 DEF Onward, InMalloc
<1>11. CASE FreeFound(t) \/ FreeClear(t) \/ PushLoad(t) \/ PushLink(t) \/ PushCAS(t)
  <2>1. /\ k.pc \in {"idle", "f_clear", "f_push", "f_link", "f_cas"}
        /\ l.pc \in {"f_walk", "f_clear", "f_push", "f_link", "f_cas"}
    BY <1>1, <1>11
       DEF FreeFound, FreeClear, PushLoad, PushLink, PushCAS, PushReload, At, Idle, Locals
  <2> QED BY <2>1 DEF Onward, InMalloc
<1>12. CASE ReallocFound(t)
  <2>1. l.pc = "r_walk" BY <1>12 DEF ReallocFound, At
  <2>2. CASE UNCHANGED th BY <2>1, <2>2 DEF Onward, InMalloc
  <2>3. CASE l.blk # 0 /\ EnterMalloc(t, l.req)
    BY <1>2, <2>1, <2>3, EnterMallocBid DEF Onward, InMalloc
  <2> QED BY <1>12, <2>2, <2>3 DEF ReallocFound
<1>13. CASE UsageStep(t) \/ UsageUnlock(t) \/ UsageLog(t) \/ CleanupDelete(t) \/ CleanupEnd(t)
  <2>1. /\ k.pc \in {"u_walk", "u_log", "idle", "c_walk"}
        /\ l.pc \in {"u_walk", "u_log", "c_walk"}
    BY <1>1, <1>13
       DEF UsageStep, UsageUnlock, UsageLog, CleanupDelete, CleanupEnd, At, Idle, Locals
  <2> QED BY <2>1 DEF Onward, InMalloc
<1> QED BY <1>4, <1>5, <1>6, <1>7, <1>8, <1>9, <1>10, <1>11, <1>12, <1>13 DEF Step

\* No step but MallocLink moves or resizes a block.
LEMMA PlacesStay ==
  ASSUME TypeOK, NEW t \in Threads, Call(t) \/ (Step(t) /\ ~MallocLink(t))
  PROVE  /\ \A b \in Blocks : mem'[b].address = mem[b].address /\ mem'[b].size = mem[b].size
         /\ UNCHANGED nblocks
<1> USE DEF memory, arena
<1>1. UNCHANGED nblocks
  BY DEF Call, MallocCall, CallocCall, FreeCall, DoubleFreeCall, ReallocCall, UsageCall,
         CleanupCall, Step, InitPool, InitStores, PopLoad, PopReadNext, PopCAS, MallocTake,
         MallocAdd, WalkLock, WalkOn, FreeFound, FreeClear, PushLoad, PushLink, PushCAS,
         ReallocFound, UsageStep, UsageUnlock, UsageLog, CleanupDelete, CleanupEnd
<1>2. CASE UNCHANGED mem BY <1>1, <1>2
<1>3. CASE MallocTake(t) BY <1>1, <1>3 DEF MallocTake, TypeOK
<1>4. CASE FreeClear(t) BY <1>1, <1>4 DEF FreeClear, Clear, TypeOK
<1>5. CASE PushLink(t) BY <1>1, <1>5 DEF PushLink, TypeOK
<1>6. CASE ~MallocTake(t) /\ ~FreeClear(t) /\ ~PushLink(t)
  <2>1. UNCHANGED mem
    BY <1>6 DEF Call, MallocCall, CallocCall, FreeCall, DoubleFreeCall, ReallocCall, UsageCall,
         CleanupCall, Step, InitPool, InitStores, PopLoad, PopReadNext, PopCAS, MallocAdd,
         WalkLock, WalkOn, FreeFound, PushLoad, PushCAS, ReallocFound, UsageStep, UsageUnlock,
         UsageLog, CleanupDelete, CleanupEnd
  <2> QED BY <1>2, <2>1
<1> QED BY <1>3, <1>4, <1>5, <1>6

\* What a step adds to the clients' extents in the arena begins where a block does.
Handed(e) == \/ \E g \in PoolHeap : g.addr = e.addr
             \/ \E b \in 1 .. nblocks : mem[b].address = e.addr

LEMMA ReturnHands ==
  ASSUME NEW t, NEW p, NEW s, MallocReturn(t, p, s),
         ~(p > 0) \/ \E b \in 1 .. nblocks : mem[b].address = p
  PROVE  \A e \in PoolHeap' : Handed(e)
<1> DEFINE n == [addr |-> p, size |-> s]
<1>1. live' \subseteq live \cup {n} BY DEF MallocReturn, LiveAfter, Granted
<1>2. n.addr = p OBVIOUS
<1> HIDE DEF n
<1> QED BY <1>1, <1>2 DEF Handed, PoolHeap, InPool

LEMMA EnterMallocHands ==
  ASSUME NEW t, NEW s, EnterMalloc(t, s)
  PROVE  \A e \in PoolHeap' : Handed(e)
<1>1. CASE MallocReturn(t, 0, s)
  <2>1. ~(0 > 0) OBVIOUS
  <2> QED BY <1>1, <2>1, ReturnHands
<1>2. CASE \E c \in (1 .. MaxCrt) \ crtHeap : MallocReturn(t, -c, s)
  <2>1. PICK c \in (1 .. MaxCrt) \ crtHeap : MallocReturn(t, -c, s) BY <1>2
  <2>2. ~(-c > 0) BY SizesAssumption
  <2> QED BY <2>1, <2>2, ReturnHands
<1>3. CASE UNCHANGED live BY <1>3 DEF Handed, PoolHeap, InPool
<1> QED BY <1>1, <1>2, <1>3 DEF EnterMalloc

LEMMA StepHands ==
  ASSUME TypeOK, LinksMade, Running, NEW t \in Threads, Call(t) \/ (Step(t) /\ ~MallocLink(t))
  PROVE  \A e \in PoolHeap' : Handed(e)
<1> USE DEF client
<1>1. CASE live' \subseteq live BY <1>1 DEF Handed, PoolHeap, InPool
<1>2. ASSUME NEW s, EnterMalloc(t, s) PROVE \A e \in PoolHeap' : Handed(e)
  BY <1>2, EnterMallocHands
<1>3. ASSUME NEW e \in live, NEW s \in Requests, ReallocCall(t, e, s)
      PROVE  \A d \in PoolHeap' : Handed(d)
  <2>1. CASE e.addr < 0 /\ live' = (live \ {e}) \cup {[e EXCEPT !.size = s]}
    <3> DEFINE n == [e EXCEPT !.size = s]
    <3>1. n.addr = e.addr /\ e.addr \in Int BY DEF TypeOK, Extents
    <3>2. live' = (live \ {e}) \cup {n} BY <2>1
    <3> HIDE DEF n
    <3>3. ASSUME NEW d \in PoolHeap' PROVE d \in PoolHeap
      <4>1. d # n BY <2>1, <3>1 DEF PoolHeap, InPool
      <4> QED BY <3>2, <4>1 DEF PoolHeap, InPool
    <3> QED BY <3>3 DEF Handed
  <2> QED BY <1>1, <1>3, <2>1 DEF ReallocCall
<1>4. CASE Call(t)
  BY <1>1, <1>2, <1>3, <1>4
     DEF Call, MallocCall, CallocCall, FreeCall, DoubleFreeCall, UsageCall, CleanupCall
<1>5. CASE MallocTake(t)
  <2>1. th[t].blk \in 1 .. nblocks BY <1>5, HeldBlock DEF MallocTake, At
  <2> QED BY <1>1, <1>5, <2>1, ReturnHands DEF MallocTake
<1>6. CASE MallocAdd(t)
  <2>1. ~(0 > 0) OBVIOUS
  <2> QED BY <1>1, <1>6, <2>1, ReturnHands DEF MallocAdd
<1>7. CASE ReallocFound(t) BY <1>1, <1>2, <1>7 DEF ReallocFound
<1>8. CASE Step(t) /\ ~MallocTake(t) /\ ~MallocAdd(t) /\ ~MallocLink(t) /\ ~ReallocFound(t)
  <2>1. UNCHANGED live
    BY <1>8 DEF Step, InitPool, InitStores, PopLoad, PopReadNext, PopCAS, WalkLock, WalkOn,
         FreeFound, FreeClear, PushLoad, PushLink, PushCAS, UsageStep, UsageUnlock, UsageLog,
         CleanupDelete, CleanupEnd
  <2> QED BY <1>1, <2>1
<1> QED BY <1>4, <1>5, <1>6, <1>7, <1>8

\* A call, or a step that leaves offset and the blocks alone, keeps the arena.
LEMMA ArenaCall ==
  ASSUME TypeOK, LinksMade, ArenaInv, NEW t \in Threads, Call(t)
  PROVE  ArenaInv'
<1> USE DEF memory, arena
<1>1. Running BY CallRuns
<1>2. UNCHANGED <<pool, initialized, offset, mem>>
  BY DEF Call, MallocCall, CallocCall, FreeCall, DoubleFreeCall, ReallocCall, UsageCall,
         CleanupCall
<1>3. Places /\ FirstCall /\ OwnersMade BY <1>1 DEF ArenaInv
<1>5. \A u \in Threads \ {t} : th'[u] = th[u] BY CallThread
<1>6. Places'
  <2>1. \A u \in Linking' : u \in Linking /\ th'[u] = th[u]
    <3>1. th[t].pc = "idle"
      BY DEF Call, MallocCall, CallocCall, FreeCall, DoubleFreeCall, ReallocCall, UsageCall,
             CleanupCall, MayCall, At
    <3> QED BY <1>5, <3>1, CallBids DEF Linking
  <2> QED BY <1>2, <1>3, <2>1, PlacesStay, PlacesKept
<1>7. FirstCall'
  <2>1. nblocks' = nblocks BY PlacesStay
  <2>2. \A u \in Threads : InMalloc(u)' =>
          \/ InMalloc(u) /\ th'[u] = th[u]
          \/ th'[u].pc = "m_init" /\ (u = Main \/ initialized)
    BY <1>5, CallBids DEF InMalloc
  <2>3. \A u \in Threads : th'[u].pc = "m_setup" => th[u].pc = "m_setup"
    BY <1>5, CallBids DEF InMalloc
  <2> QED BY <1>2, <1>3, <2>1, <2>2, <2>3 DEF FirstCall
<1>8. OwnersMade'
  <2>1. UNCHANGED <<nblocks, mem>> BY <1>2, PlacesStay
  <2> QED BY <1>1, <1>3, <2>1, StepHands DEF OwnersMade, Handed
<1> QED BY <1>6, <1>7, <1>8 DEF ArenaInv

\* What was handed out does not change while a step only reads,
\* writes links and flags, or takes a block from the free list.
LEMMA ArenaQuiet ==
  ASSUME TypeOK, LinksMade, ArenaInv, Running, NEW t \in Threads, Step(t),
         ~MallocAdd(t), ~MallocLink(t), ~CleanupEnd(t)
  PROVE  ArenaInv'
<1> DEFINE l == th[t]  k == th'[t]
<1>1. Places /\ FirstCall /\ OwnersMade BY DEF ArenaInv
<1>2. Onward(t) /\ \A u \in Threads \ {t} : th'[u] = th[u] BY StepOnward, StepThread
<1>3. /\ UNCHANGED offset
      /\ UNCHANGED initialized \/ (InitStores(t) /\ ~initialized /\ initialized')
  <2>1. CASE InitStores(t)
    <3>1. ~initialized BY <1>1, <2>1 DEF InitStores, At, FirstCall
    <3> QED BY <1>1, <2>1, <3>1 DEF InitStores, FirstCall
  <2>2. CASE ~InitStores(t)
    BY <2>2 DEF Step, InitPool, PopLoad, PopReadNext, PopCAS, MallocTake, WalkLock, WalkOn,
       FreeFound, FreeClear, PushLoad, PushLink, PushCAS, ReallocFound, UsageStep, UsageUnlock,
       UsageLog, CleanupDelete, memory, arena
  <2> QED BY <2>1, <2>2
<1>4. \A u \in Linking' : u \in Linking /\ th'[u] = th[u]
  BY <1>2, StepThread DEF Linking
<1>7. /\ UNCHANGED nblocks
      /\ \A b \in 1 .. nblocks : mem'[b].address = mem[b].address /\ mem'[b].size = mem[b].size
  BY PlacesStay, BlocksMade
<1>8. Places' BY <1>1, <1>3, <1>4, <1>7, PlacesKept
<1>9. FirstCall'
  <2>1. ASSUME ~initialized', NEW u \in Threads, InMalloc(u)'
        PROVE  u = Main /\ th'[u].pc \in {"m_init", "m_setup"}
    <3>1. ~initialized BY <1>3, <2>1
    <3>2. CASE u # t BY <1>1, <1>2, <2>1, <3>1, <3>2 DEF FirstCall, InMalloc
    <3>3. CASE u = t
      <4>1. InMalloc(t) \/ l.blk # 0 BY <1>2, <2>1, <3>3 DEF Onward
      <4>2. l.blk = 0 BY <1>1, <3>1 DEF LinksMade, LinkSound, FirstCall
      <4>3. t = Main /\ l.pc \in {"m_init", "m_setup"} BY <1>1, <3>1, <4>1, <4>2 DEF FirstCall
      <4>4. k = l \/ k.pc = "m_setup" BY <1>2, <2>1, <4>3 DEF Onward
      <4> QED BY <3>3, <4>3, <4>4
    <3> QED BY <3>2, <3>3
  <2>2. ASSUME initialized', NEW u \in Threads PROVE th'[u].pc # "m_setup"
    <3>1. CASE InitStores(t)
      <4>1. k.pc = "m_pop" BY <3>1 DEF InitStores, TypeOK, Locals
      <4>2. t = Main /\ ~initialized
        BY <1>1, <3>1 DEF InitStores, At, FirstCall, InMalloc
      <4>3. u # t => th[u].pc # "m_setup" BY <1>1, <4>2 DEF FirstCall, InMalloc
      <4> QED BY <1>2, <4>1, <4>3
    <3>2. CASE ~InitStores(t)
      <4>1. initialized BY <1>3, <2>2, <3>2
      <4> QED BY <1>1, <1>2, <4>1 DEF FirstCall, Onward
    <3> QED BY <3>1, <3>2
  <2>3. ~initialized' => nblocks' = 0 /\ offset' = 0 BY <1>1, <1>3, <1>7 DEF FirstCall
  <2> QED BY <2>1, <2>2, <2>3 DEF FirstCall
<1>10. OwnersMade'
  <2>1. \A e \in PoolHeap' : Handed(e) BY StepHands
  <2> QED BY <1>1, <1>7, <2>1 DEF OwnersMade, Handed
<1> QED BY <1>8, <1>9, <1>10 DEF ArenaInv

\* fetch_add: nobody has been given the bytes it passes.
LEMMA ArenaAdd ==
  ASSUME TypeOK, LinksMade, ArenaInv, NEW t \in Threads, MallocAdd(t)
  PROVE  ArenaInv'
<1> DEFINE l == th[t]  k == th'[t]  s == AlignedSize(l.req)
<1>0. SUFFICES ASSUME status' # "wrapped" PROVE ArenaInv'
  BY DEF ArenaInv, Running
<1>1. /\ Running /\ l \in Locals /\ l.pc = "m_add" /\ InMalloc(t)
      /\ Running' /\ UNCHANGED <<initialized, nblocks, mem>>
  BY <1>0 DEF MallocAdd, At, Running, TypeOK, InMalloc
<1>2. Places /\ FirstCall /\ OwnersMade BY <1>1 DEF ArenaInv
<1>3. Pooled(l.req) /\ l.req \in Nat /\ initialized
  BY <1>1, <1>2 DEF LinksMade, LinkSound, Locals, Sizes, FirstCall
<1>4. s \in Nat /\ s > 0 BY <1>3, BidBounds
<1>5. offset \in Nat /\ SizeMod \in Nat /\ PoolBase \in Nat /\ TotalPoolSize \in Nat
  BY SizesAssumption DEF TypeOK, Sizes
<1>6. /\ \A u \in Threads \ {t} : th'[u] = th[u]
      /\ \/ k.pc \in {"idle", "f_lock"}
         \/ k.pc = "m_link" /\ k.off = offset /\ k.req = l.req /\ ~Refused(offset, s)
  <2>1. CASE MallocReturn(t, 0, l.req) BY <2>1, MallocReturnThread
  <2>2. CASE th' = [th EXCEPT ![t].pc = "m_link", ![t].off = offset] /\ ~Refused(offset, s)
    BY <1>1, <2>2 DEF TypeOK, Locals
  <2> QED BY <1>0, <2>1, <2>2 DEF MallocAdd
<1>10. offset' = offset + s BY <1>0 DEF MallocAdd
<1>12. Places'
  <2>1. \A b \in 1 .. nblocks : Memory(b)' = Memory(b) BY <1>1 DEF Memory
  <2>2. \A u \in Linking' : u # t => u \in Linking /\ Reserved(u)' = Reserved(u)
    BY <1>6 DEF Linking, Reserved, AlignedSize
  <2>3. t \in Linking' => /\ Reserved(t)' = [addr |-> PoolBase + offset, size |-> s]
                          /\ offset + s <= TotalPoolSize
    <3>1. ASSUME t \in Linking' PROVE k.off = offset /\ k.req = l.req /\ ~Refused(offset, s)
      BY <1>6, <3>1 DEF Linking
    <3>2. t \in Linking' => Reserved(t)' = [addr |-> PoolBase + offset, size |-> s]
      BY <3>1 DEF Reserved, AlignedSize
    <3> HIDE DEF s
    <3>3. ~Refused(offset, s) => offset + s <= TotalPoolSize BY <1>4, <1>5 DEF Refused
    <3> QED BY <3>1, <3>2, <3>3
  <2>4. \A b \in 1 .. nblocks : /\ Memory(b).addr \in Nat /\ Memory(b).size \in Nat
    BY BlocksMade DEF Memory, TypeOK
  <2>5. \A u \in Linking : Reserved(u).addr \in Nat /\ Reserved(u).size \in Nat
    <3>1. ASSUME NEW u \in Linking PROVE th[u].off \in Nat /\ th[u].req \in Nat
      BY <3>1 DEF Linking, TypeOK, Locals, Sizes
    <3> QED BY <1>5, <3>1, AlignedSizeBounds DEF Reserved
  <2>6. \A b \in 1 .. nblocks : Below(Memory(b), offset) => Below(Memory(b), offset')
    BY <1>4, <1>5, <1>10, <2>4 DEF Below
  <2>7. \A u \in Linking : Below(Reserved(u), offset) => Below(Reserved(u), offset')
    BY <1>4, <1>5, <1>10, <2>5 DEF Below
  <2> DEFINE new == [addr |-> PoolBase + offset, size |-> s]
  <2>8. /\ Below(new, offset')
        /\ offset + s <= TotalPoolSize => Below(new, TotalPoolSize)
        /\ \A b \in 1 .. nblocks : Below(Memory(b), offset) => Apart(Memory(b), new)
        /\ \A u \in Linking : Below(Reserved(u), offset) =>
             Apart(Reserved(u), new) /\ Apart(new, Reserved(u))
    BY <1>4, <1>5, <1>10, <2>4, <2>5 DEF Below, Apart
  <2> HIDE DEF new
  <2>9. \A b \in 1 .. nblocks' : Below(Memory(b)', offset') /\ Below(Memory(b)', TotalPoolSize)
    BY <1>1, <1>2, <2>1, <2>6 DEF Places
  <2>10. \A u \in Linking' : Below(Reserved(u)', offset') /\ Below(Reserved(u)', TotalPoolSize)
    BY <1>2, <2>2, <2>3, <2>7, <2>8 DEF Places, new
  <2>11. \A b, c \in 1 .. nblocks' : b # c => Apart(Memory(b)', Memory(c)')
    BY <1>1, <1>2, <2>1 DEF Places
  <2>12. \A u, v \in Linking' : u # v => Apart(Reserved(u)', Reserved(v)')
    BY <1>2, <2>2, <2>3, <2>8 DEF Places, new
  <2>13. \A b \in 1 .. nblocks', u \in Linking' : Apart(Memory(b)', Reserved(u)')
    BY <1>1, <1>2, <2>1, <2>2, <2>3, <2>8 DEF Places, new
  <2> QED BY <2>9, <2>10, <2>11, <2>12, <2>13 DEF Places, Below, Apart
<1>13. FirstCall' BY <1>1, <1>2, <1>3, <1>6 DEF FirstCall
<1>14. OwnersMade'
  <2>1. \A e \in PoolHeap' : Handed(e)
    <3>1. Step(t) /\ ~MallocLink(t) BY <1>1 DEF Step, MallocLink, At
    <3> QED BY <1>1, <3>1, StepHands
  <2> QED BY <1>1, <1>2, <2>1 DEF OwnersMade, Handed
<1> QED BY <1>12, <1>13, <1>14 DEF ArenaInv

\* What was reserved becomes the memory of the new block.
LEMMA ArenaLink ==
  ASSUME TypeOK, LinksMade, ArenaInv, NEW t \in Threads, MallocLink(t)
  PROVE  ArenaInv'
<1> USE DEF arena
<1> DEFINE l == th[t]  k == th'[t]  n == nblocks + 1  p == pool + l.off
<1>1. /\ Running /\ l \in Locals /\ l.pc = "m_link" /\ InMalloc(t) /\ t \in Linking
      /\ UNCHANGED <<pool, initialized, offset>>
  BY DEF MallocLink, At, Running, TypeOK, InMalloc, Linking
<1>2. Places /\ FirstCall /\ OwnersMade BY <1>1 DEF ArenaInv
<1>3. /\ pool = PoolBase /\ Pooled(l.req) /\ initialized
  BY <1>1, <1>2 DEF LinksMade, LinkSound, FirstCall
<1>4. CASE status' = "exited" BY <1>4 DEF ArenaInv, Running
<1>5. CASE /\ nblocks < MaxBlocks /\ nblocks' = n
           /\ mem' = [mem EXCEPT ![n] = NewBlock(t, p)] /\ MallocReturn(t, p, l.req)
  <2>1. nblocks \in Nat /\ n \in Blocks /\ 1 .. nblocks' = 1 .. nblocks \cup {n}
        /\ n \notin 1 .. nblocks
    BY <1>5, SizesAssumption DEF TypeOK, Links, Blocks
  <2>2. /\ \A b \in 1 .. nblocks : mem'[b] = mem[b]
        /\ mem'[n].address = p /\ mem'[n].size = AlignedSize(l.req)
    BY <1>5, <2>1, BlocksMade DEF TypeOK, NewBlock, BlockOf
  <2>3. \A u \in Threads \ {t} : th'[u] = th[u] BY <1>5, MallocReturnThread
  <2>4. k.pc \in {"idle", "f_lock"} BY <1>5, MallocReturnThread
  <2>5. Linking' \subseteq Linking \ {t} BY <2>3, <2>4 DEF Linking
  <2>7. Places'
    <3>1. \A b \in 1 .. nblocks : Memory(b)' = Memory(b) BY <2>2 DEF Memory
    <3>2. \A b : b = n => Memory(b)' = Reserved(t)
      BY <1>3, <2>2 DEF Memory, Reserved
    <3>3. \A u \in Linking' : u \in Linking /\ u # t /\ Reserved(u)' = Reserved(u)
      BY <2>3, <2>5 DEF Reserved, AlignedSize, Linking
    <3>4. \A b \in 1 .. nblocks' :
            \/ b \in 1 .. nblocks /\ Memory(b)' = Memory(b)
            \/ b = n /\ Memory(b)' = Reserved(t)
      BY <2>1, <3>1, <3>2
    <3>5. \A b, c \in 1 .. nblocks' : b # c => Apart(Memory(b)', Memory(c)')
      <4>1. \A b \in 1 .. nblocks : Apart(Reserved(t), Memory(b))
        BY <1>1, <1>2 DEF Places, Apart
      <4> QED BY <1>1, <1>2, <2>1, <3>4, <4>1 DEF Places
    <3>6. \A b \in 1 .. nblocks' : Below(Memory(b)', offset) /\ Below(Memory(b)', TotalPoolSize)
      BY <1>1, <1>2, <3>4 DEF Places
    <3>7. \A b \in 1 .. nblocks', u \in Linking' : Apart(Memory(b)', Reserved(u)')
      BY <1>1, <1>2, <3>3, <3>4 DEF Places
    <3>8. \A u \in Linking' : Below(Reserved(u)', offset) /\ Below(Reserved(u)', TotalPoolSize)
      BY <1>2, <3>3 DEF Places
    <3>9. \A u, v \in Linking' : u # v => Apart(Reserved(u)', Reserved(v)')
      BY <1>2, <3>3 DEF Places
    <3> QED BY <1>1, <3>5, <3>6, <3>7, <3>8, <3>9 DEF Places, Below, Apart
  <2>8. FirstCall' BY <1>1, <1>2, <1>3, <2>3, <2>4 DEF FirstCall
  <2>9. OwnersMade'
    <3> DEFINE g == [addr |-> p, size |-> l.req]
    <3>1. live' \subseteq live \cup {g} BY <1>5 DEF MallocReturn, LiveAfter, Granted
    <3>2. g.addr = p OBVIOUS
    <3> HIDE DEF g
    <3>3. ASSUME NEW e \in PoolHeap' PROVE \E b \in 1 .. nblocks' : mem'[b].address = e.addr
      <4>1. CASE e = g BY <2>1, <2>2, <3>2, <4>1
      <4>2. CASE e # g
        <5>1. e \in PoolHeap BY <3>1, <4>2 DEF PoolHeap, InPool
        <5> QED BY <1>2, <2>1, <2>2, <5>1 DEF OwnersMade
      <4> QED BY <4>1, <4>2
    <3> QED BY <3>3 DEF OwnersMade
  <2> QED BY <2>7, <2>8, <2>9 DEF ArenaInv
<1> QED BY <1>4, <1>5 DEF MallocLink

\* Until a fetch_add wraps, the bump offset hands out every byte of the arena
\* once, for any threads, whatever the races on the two lists.
THEOREM ArenaHolds == Spec => []ArenaInv
<1>1. Init => ArenaInv
  <2> SUFFICES ASSUME Init PROVE ArenaInv OBVIOUS
  <2>1. \A t \in Threads : th[t].pc = "idle" BY DEF Init, Idle
  <2>2. Linking = {} BY <2>1 DEF Linking
  <2>3. offset = 0 /\ nblocks = 0 /\ PoolHeap = {} /\ ~initialized /\ 1 .. nblocks = {}
    BY DEF Init, PoolHeap
  <2>4. Places BY <2>2, <2>3 DEF Places
  <2>5. FirstCall /\ OwnersMade BY <2>1, <2>3 DEF FirstCall, OwnersMade, InMalloc
  <2> QED BY <2>4, <2>5 DEF ArenaInv
<1>2. TypeOK /\ LinksMade /\ ArenaInv /\ [Next]_vars => ArenaInv'
  <2> SUFFICES ASSUME TypeOK, LinksMade, ArenaInv, [Next]_vars PROVE ArenaInv' OBVIOUS
  <2>1. CASE UNCHANGED vars
    <3>1. Running' = Running /\ PoolHeap' = PoolHeap /\ Linking' = Linking
      BY <2>1 DEF vars, memory, arena, client, Running, PoolHeap, InPool, Linking
    <3>2. Places => Places' BY <2>1, <3>1, PlacesKept DEF vars, memory, arena, Linking
    <3>3. FirstCall' = FirstCall BY <2>1 DEF vars, memory, arena, FirstCall, InMalloc
    <3>4. OwnersMade' = OwnersMade BY <2>1, <3>1 DEF vars, memory, arena, OwnersMade
    <3> QED BY <3>1, <3>2, <3>3, <3>4 DEF ArenaInv
  <2>2. ASSUME NEW t \in Threads, Call(t) PROVE ArenaInv' BY <2>2, ArenaCall
  <2>3. ASSUME NEW t \in Threads, Step(t) PROVE ArenaInv'
    <3>1. CASE CleanupEnd(t) BY <3>1 DEF CleanupEnd, ArenaInv, Running
    <3> QED BY <2>3, <3>1, StepRuns, ArenaAdd, ArenaLink, ArenaQuiet
  <2> QED BY <2>1, <2>2, <2>3 DEF Next, Stopped
<1> QED BY <1>1, <1>2, TypeCorrect, PTL DEF Spec

-----------------------------------------------------------------------------
(* How far refused requests carry offset. *)

\* fetch_add: a request that is refused adds no more than the largest one, and
\* one that is granted leaves offset inside the arena.
LEMMA WrapAdd ==
  ASSUME TypeOK, LinksMade, WrapInv, NEW t \in Threads, MallocAdd(t)
  PROVE  WrapInv'
<1> DEFINE s == AlignedSize(th[t].req)  m == BiggestBid
<1>1. Running /\ th[t].pc = "m_add" BY DEF MallocAdd, At, Running
<1>2. Pooled(th[t].req) /\ th[t].req \in Nat
  BY <1>1 DEF LinksMade, LinkSound, InMalloc, TypeOK, Locals, Sizes
<1>3. s \in Nat /\ s <= m /\ m \in Nat BY <1>2, BidBounds
<1>4. /\ offset \in Nat /\ refused \in Nat /\ TotalPoolSize \in Nat /\ SizeMod \in Nat
  BY SizesAssumption DEF TypeOK, Sizes
<1>5. offset <= TotalPoolSize + refused * m BY <1>1 DEF WrapInv, RefusalsCarry
<1>6. refused * m \in Nat /\ (refused + 1) * m = refused * m + m BY <1>3, <1>4
<1>7. BiggestBid' = m BY DEF BiggestBid, AlignedSize
<1>8. CASE offset + s >= SizeMod /\ status' = "wrapped" /\ refused' = refused
  <2>1. TotalPoolSize + refused * m + m >= SizeMod
    <3> HIDE DEF s, m
    <3> QED BY <1>3, <1>4, <1>5, <1>6, <1>8
  <2>2. TotalPoolSize + (refused' + 1) * m >= SizeMod
    <3>1. refused' + 1 = refused + 1 BY <1>8
    <3>2. (refused' + 1) * m = refused * m + m BY <1>6, <3>1
    <3> HIDE DEF m
    <3>3. TotalPoolSize + (refused * m + m) >= SizeMod BY <1>3, <1>4, <1>6, <2>1
    <3> QED BY <3>2, <3>3
  <2>3. ~Running' BY <1>8 DEF Running
  <2> QED BY <1>7, <2>2, <2>3 DEF WrapInv, WrapTakesRefusals
<1>9. CASE offset' = offset + s /\ refused' = refused + 1 /\ status' = status
  <2>1. offset + s <= TotalPoolSize + refused * m + m
    <3> HIDE DEF s, m
    <3> QED BY <1>3, <1>4, <1>5, <1>6
  <2>2. offset' <= TotalPoolSize + refused' * m
    <3>1. refused' * m = refused * m + m BY <1>6, <1>9
    <3> HIDE DEF s, m
    <3>2. offset + s <= TotalPoolSize + (refused * m + m) BY <1>3, <1>4, <1>6, <2>1
    <3> QED BY <1>9, <3>1, <3>2
  <2> QED BY <1>1, <1>7, <1>9, <2>2 DEF WrapInv, RefusalsCarry, WrapTakesRefusals, Running
<1>10. CASE /\ ~Refused(offset, s) /\ offset' = offset + s /\ refused' = refused
            /\ status' = status
  <2>1. offset + s <= TotalPoolSize + refused * m
    <3> HIDE DEF s, m
    <3> QED BY <1>3, <1>4, <1>6, <1>10 DEF Refused
  <2> QED BY <1>1, <1>7, <1>10, <2>1 DEF WrapInv, RefusalsCarry, WrapTakesRefusals, Running
<1> QED BY <1>8, <1>9, <1>10 DEF MallocAdd

\* Every other step leaves offset and the count of refusals, or resets offset.
LEMMA WrapKept ==
  ASSUME TypeOK, WrapInv, UNCHANGED refused, offset' = offset \/ offset' = 0,
         Running \/ status' = status, status' # "wrapped" \/ status' = status
  PROVE  WrapInv'
<1>1. BiggestBid' = BiggestBid /\ BiggestBid \in Nat
  <2>1. TotalPoolSize \div 3 \in Nat BY SizesAssumption
  <2> QED BY <2>1, AlignedSizeBounds DEF BiggestBid, AlignedSize
<1>2. refused * BiggestBid \in Nat /\ TotalPoolSize \in Nat
  BY <1>1, SizesAssumption DEF TypeOK
<1>3. RefusalsCarry => RefusalsCarry' BY <1>1, <1>2 DEF RefusalsCarry
<1> QED BY <1>1, <1>3 DEF WrapInv, WrapTakesRefusals, Running

\* A CustomMalloc hands out memory beyond the arena, by a sum that wraps, only
\* after refusals that fill size_t above TOTAL_POOL_SIZE: for any threads.
THEOREM WrapTakesRefusalsHolds == Spec => []WrapTakesRefusals
<1>1. Init => WrapInv
  <2> SUFFICES ASSUME Init PROVE WrapInv OBVIOUS
  <2>1. TotalPoolSize \div 3 \in Nat /\ TotalPoolSize \in Nat BY SizesAssumption
  <2>2. BiggestBid \in Nat BY <2>1, AlignedSizeBounds DEF BiggestBid
  <2>3. 0 <= TotalPoolSize + 0 * BiggestBid BY <2>1, <2>2
  <2> QED BY <2>3 DEF Init, WrapInv, RefusalsCarry, WrapTakesRefusals
<1>2. TypeOK /\ LinksMade /\ WrapInv /\ [Next]_vars => WrapInv'
  <2> SUFFICES ASSUME TypeOK, LinksMade, WrapInv, [Next]_vars PROVE WrapInv' OBVIOUS
  <2>1. CASE UNCHANGED vars
    BY <2>1, WrapKept DEF vars, memory, arena, client
  <2>2. ASSUME NEW t \in Threads, Call(t) PROVE WrapInv'
    <3>1. UNCHANGED <<offset, refused>>
      BY <2>2 DEF Call, MallocCall, CallocCall, FreeCall, DoubleFreeCall, ReallocCall,
                  UsageCall, CleanupCall, memory, arena
    <3>2. Running BY <2>2, CallRuns
    <3>3. status' = status \/ status' = "corrupt"
      BY <2>2 DEF Call, MallocCall, CallocCall, FreeCall, DoubleFreeCall, ReallocCall,
                  UsageCall, CleanupCall, client
    <3> QED BY <3>1, <3>2, <3>3, WrapKept
  <2>3. ASSUME NEW t \in Threads, Step(t), ~MallocAdd(t) PROVE WrapInv'
    <3>1. UNCHANGED refused /\ (offset' = offset \/ offset' = 0)
      BY <2>3 DEF Step, InitPool, InitStores, PopLoad, PopReadNext, PopCAS, MallocTake,
         MallocLink, WalkLock, WalkOn, FreeFound, FreeClear, PushLoad, PushLink, PushCAS,
         ReallocFound, UsageStep, UsageUnlock, UsageLog, CleanupDelete, CleanupEnd, memory,
         arena
    <3>2. Running BY <2>3, StepRuns
    <3>3. status' = status \/ status' \in {"exited", "corrupt", "closed"}
      BY <2>3 DEF Step, InitPool, InitStores, PopLoad, PopReadNext, PopCAS, MallocTake,
         MallocLink, WalkLock, WalkOn, FreeFound, FreeClear, PushLoad, PushLink, PushCAS,
         ReallocFound, UsageStep, UsageUnlock, UsageLog, CleanupDelete, CleanupEnd, client
    <3> QED BY <3>1, <3>2, <3>3, WrapKept
  <2> QED BY <2>1, <2>2, <2>3, WrapAdd DEF Next, Stopped
<1>3. WrapInv => WrapTakesRefusals BY DEF WrapInv
<1> QED BY <1>1, <1>2, <1>3, TypeCorrect, PTL DEF Spec

-----------------------------------------------------------------------------
(* Every extent begins on a boundary. *)

\* A step that moves no block and leaves no thread newly about to link one.
LEMMA BoundaryKept ==
  ASSUME BoundaryInv, Running, UNCHANGED <<offset, nblocks>>,
         \A b \in 1 .. nblocks : mem'[b].address = mem[b].address,
         NEW t \in Threads, \A u \in Threads \ {t} : th'[u] = th[u],
         th'[t].pc # "m_link" \/ th'[t] = th[t]
  PROVE  BoundaryInv'
BY DEF BoundaryInv

LEMMA BoundaryCall ==
  ASSUME TypeOK, BoundaryInv, NEW t \in Threads, Call(t)
  PROVE  BoundaryInv'
<1> USE DEF memory, arena
<1>1. Running
  BY DEF Call, MallocCall, CallocCall, FreeCall, DoubleFreeCall, ReallocCall, UsageCall,
         CleanupCall, MayCall, At, Running
<1>2. UNCHANGED <<offset, nblocks, mem>>
  BY DEF Call, MallocCall, CallocCall, FreeCall, DoubleFreeCall, ReallocCall, UsageCall,
         CleanupCall
<1> QED BY <1>1, <1>2, CallThread, BoundaryKept

\* offset moves by a rounded size, or the run stops.
LEMMA BoundaryAdd ==
  ASSUME TypeOK, LinksMade, ArenaInv, BoundaryInv, NEW t \in Threads, MallocAdd(t)
  PROVE  BoundaryInv'
<1> DEFINE l == th[t]  aligned == AlignedSize(l.req)
<1>0. SUFFICES ASSUME status' # "wrapped" PROVE BoundaryInv'
  BY DEF BoundaryInv, Running
<1>1. Running /\ l \in Locals /\ l.pc = "m_add" BY DEF MallocAdd, At, Running, TypeOK
<1>3. /\ offset \in Nat /\ l.req \in Nat /\ SizeMod \in Nat
  BY <1>1, SizesAssumption DEF TypeOK, Locals, Sizes
<1>4. aligned \in Nat BY <1>3, AlignedSizeBounds
<1>5. OnBoundary(offset) /\ OnBoundary(aligned)
  BY <1>1, <1>3, AlignedOnBoundary DEF BoundaryInv
<1>6. OnBoundary(offset + aligned) BY <1>3, <1>4, <1>5, SumOnBoundary
<1>8. offset' = offset + aligned BY <1>0 DEF MallocAdd
<1>9. UNCHANGED <<nblocks, mem>> BY DEF MallocAdd
<1>10. /\ \A u \in Threads \ {t} : th'[u] = th[u]
       /\ th'[t].pc = "m_link" => th'[t].off = offset
  <2>1. CASE MallocReturn(t, 0, l.req) BY <2>1, MallocReturnThread
  <2>2. CASE th' = [th EXCEPT ![t].pc = "m_link", ![t].off = offset]
    BY <2>2 DEF TypeOK, Locals
  <2> QED BY <1>0, <2>1, <2>2 DEF MallocAdd
<1> QED BY <1>1, <1>5, <1>6, <1>8, <1>9, <1>10 DEF BoundaryInv

\* The new block begins at the offset that was reserved.
LEMMA BoundaryLink ==
  ASSUME TypeOK, LinksMade, BoundaryInv, NEW t \in Threads, MallocLink(t)
  PROVE  BoundaryInv'
<1> USE DEF arena
<1> DEFINE l == th[t]  p == pool + l.off  n == nblocks + 1
<1>1. Running /\ l \in Locals /\ l.pc = "m_link" BY DEF MallocLink, At, Running, TypeOK
<1>2. CASE status' = "exited" BY <1>2 DEF BoundaryInv, Running
<1>3. CASE /\ nblocks < MaxBlocks /\ nblocks' = n
           /\ mem' = [mem EXCEPT ![n] = NewBlock(t, p)] /\ MallocReturn(t, p, l.req)
  <2>1. /\ pool = PoolBase /\ PoolBase \in Nat /\ l.off \in Nat /\ nblocks \in Nat
        /\ MaxBlocks \in Nat
    BY <1>1, SizesAssumption DEF LinksMade, LinkSound, InMalloc, Locals, Sizes, TypeOK, Links
  <2>2. OnBoundary(p) BY <1>1, <2>1, BasesOnBoundary, SumOnBoundary DEF BoundaryInv
  <2> HIDE DEF p
  <2>3. /\ mem'[n].address = p
        /\ \A b \in 1 .. nblocks : mem'[b] = mem[b]
    BY <1>3, <2>1 DEF TypeOK, Blocks, NewBlock, BlockOf
  <2>4. \A b \in 1 .. nblocks' : b \in 1 .. nblocks \/ b = n BY <1>3, <2>1
  <2>5. UNCHANGED offset BY DEF MallocLink
  <2>6. \A u \in Threads : th'[u].pc = "m_link" => th'[u] = th[u]
    BY <1>3, MallocReturnThread
  <2> QED BY <1>1, <2>2, <2>3, <2>4, <2>5, <2>6 DEF BoundaryInv
<1> QED BY <1>2, <1>3 DEF MallocLink, p

LEMMA BoundaryStep ==
  ASSUME TypeOK, LinksMade, ArenaInv, BoundaryInv, NEW t \in Threads, Step(t)
  PROVE  BoundaryInv'
<1> USE DEF memory, arena
<1>1. CASE MallocAdd(t) BY <1>1, BoundaryAdd
<1>2. CASE MallocLink(t) BY <1>2, BoundaryLink
<1>3. CASE CleanupEnd(t) BY <1>3 DEF CleanupEnd, BoundaryInv, Running
<1>4. CASE InitStores(t)
  <2>1. Running /\ offset' = 0 /\ UNCHANGED <<nblocks, mem>>
    BY <1>4 DEF InitStores, At, Running
  <2>2. \A u \in Threads : th'[u].pc = "m_link" => th'[u] = th[u]
    BY <1>4 DEF InitStores, TypeOK, Locals
  <2> QED BY <2>1, <2>2, BasesOnBoundary DEF BoundaryInv
<1>5. CASE ~MallocAdd(t) /\ ~MallocLink(t) /\ ~CleanupEnd(t) /\ ~InitStores(t)
  <2>1. Running
    BY <1>5 DEF Step, InitPool, PopLoad, PopReadNext, PopCAS, MallocTake, WalkLock, WalkOn,
       FreeFound, FreeClear, PushLoad, PushLink, PushCAS, ReallocFound, UsageStep, UsageUnlock,
       UsageLog, CleanupDelete, At, Running
  <2>2. UNCHANGED <<offset, nblocks>>
    BY <1>5 DEF Step, InitPool, PopLoad, PopReadNext, PopCAS, MallocTake, WalkLock, WalkOn,
       FreeFound, FreeClear, PushLoad, PushLink, PushCAS, ReallocFound, UsageStep, UsageUnlock,
       UsageLog, CleanupDelete
  <2>3. \A b \in 1 .. nblocks : mem'[b].address = mem[b].address
    <3>1. CASE UNCHANGED mem BY <3>1
    <3>2. CASE MallocTake(t) BY <3>2, BlocksMade DEF MallocTake, TypeOK
    <3>3. CASE FreeClear(t) BY <3>3, BlocksMade DEF FreeClear, Clear, TypeOK
    <3>4. CASE PushLink(t) BY <3>4, BlocksMade DEF PushLink, TypeOK
    <3>5. CASE ~MallocTake(t) /\ ~FreeClear(t) /\ ~PushLink(t)
      BY <1>5, <3>1, <3>5
         DEF Step, InitPool, PopLoad, PopReadNext, PopCAS, WalkLock, WalkOn, FreeFound,
             PushLoad, PushCAS, ReallocFound, UsageStep, UsageUnlock, UsageLog, CleanupDelete
    <3> QED BY <3>2, <3>3, <3>4, <3>5
  <2> QED BY <2>1, <2>2, <2>3, <1>5, StepThread, BoundaryKept
<1> QED BY <1>1, <1>2, <1>3, <1>4, <1>5

LEMMA BoundaryNext ==
  ASSUME TypeOK, LinksMade, ArenaInv, BoundaryInv, [Next]_vars
  PROVE  BoundaryInv'
<1>1. CASE UNCHANGED vars BY <1>1 DEF vars, memory, arena, client, BoundaryInv, Running
<1> QED BY <1>1, BoundaryCall, BoundaryStep DEF Next, Stopped

\* offset and every block lie on a boundary of Alignment, for any threads.
THEOREM BoundaryHolds == Spec => []BoundaryInv
<1>1. Init => BoundaryInv
  <2>1. Init => 1 .. nblocks = {} /\ \A t \in Threads : th[t].pc # "m_link"
    BY DEF Init, Idle
  <2> QED BY <2>1, BasesOnBoundary DEF Init, BoundaryInv
<1>2. TypeOK /\ LinksMade /\ ArenaInv /\ BoundaryInv /\ [Next]_vars => BoundaryInv'
  BY BoundaryNext
<1> QED BY <1>1, <1>2, TypeCorrect, ArenaHolds, PTL DEF Spec

-----------------------------------------------------------------------------
(* The steps, as steps of the abstract heap. *)

\* What a client owns is the memory of a block in use.
LEMMA OwnedMemory ==
  ASSUME TypeOK, IndInv, Running, NEW g \in PoolHeap
  PROVE  \E c \in 1 .. nblocks :
           /\ mem[c].address = g.addr /\ mem[c].used
           /\ g.addr \in Nat /\ g.size \in Nat /\ mem[c].size \in Nat /\ g.size <= mem[c].size
<1>1. PICK c \in 1 .. nblocks : mem[c].address = g.addr /\ g.size <= mem[c].size /\ mem[c].used
  BY DEF IndInv, OwnersExclusive
<1>2. mem[c].address \in Nat /\ mem[c].size \in Nat BY BlocksMade DEF TypeOK
<1>3. g.size \in Nat BY SizesAssumption DEF PoolHeap, TypeOK, Extents, Sizes
<1> QED BY <1>1, <1>2, <1>3

\* An extent CustomMalloc returns, on a boundary of the arena and apart from
\* what the clients own, is obtained; in CustomRealloc the argument goes back in
\* the same step.
LEMMA GrantStep ==
  ASSUME TypeOK, IndInv, Running, NEW t \in Threads, InMalloc(t),
         NEW p \in Nat, p # 0, NEW s \in Nat, s # 0, MallocReturn(t, p, s), OnBoundary(p),
         PoolBase <= p, p + s <= PoolBase + TotalPoolSize,
         \A g \in PoolHeap : p + s <= g.addr \/ g.addr + g.size <= p
  PROVE  Heap!Next
<1> DEFINE n == [addr |-> p, size |-> s]  ptr == th[t].ptr
<1>1. PoolHeap' = {e \in PoolHeap : e.addr # ptr} \cup {n} BY GrantedHeap
<1>2. n.addr = p /\ n.size = s OBVIOUS
<1> HIDE DEF n
<1>3. n \notin PoolHeap BY <1>2
<1>4. Heap!Fresh(n) BY <1>2 DEF Heap!Fresh, Heap!Apart, OnBoundary
<1>5. CASE ptr = 0
  <2>1. \A e \in PoolHeap : e.addr # ptr BY <1>5 DEF PoolHeap, InPool
  <2>2. PoolHeap' = PoolHeap \cup {n} BY <1>1, <2>1
  <2> QED BY <1>3, <1>4, <2>2 DEF Heap!Next, Heap!Obtain
<1>6. CASE ptr # 0
  <2>1. PICK g \in PoolHeap : g.addr = ptr BY <1>6 DEF IndInv, CallSound, ReallocSound
  <2>2. \A e \in PoolHeap : e.addr = ptr <=> e = g
    BY <2>1 DEF IndInv, OwnersExclusive
  <2>3. PoolHeap' = (PoolHeap \ {g}) \cup {n} BY <1>1, <2>2
  <2> QED BY <1>3, <1>4, <2>3 DEF Heap!Next, Heap!Resize
<1> QED BY <1>5, <1>6

\* A block that was popped is in nobody's hands, and fits.
LEMMA TakeStep ==
  ASSUME TypeOK, IndInv, BoundaryInv, NEW t \in Threads, MallocTake(t), PoolHeap' # PoolHeap
  PROVE  Heap!Next
<1> DEFINE l == th[t]  b == l.blk  p == mem[b].address  s == l.req
<1>1. Running /\ l \in Locals /\ l.pc = "m_take" BY DEF MallocTake, At, Running, TypeOK
<1>2. Fits(b, s) /\ MallocReturn(t, p, s) BY DEF MallocTake, PoolHeap, InPool
<1>3. /\ InMalloc(t) /\ Pooled(s) /\ b \in 1 .. nblocks /\ ~mem[b].used
      /\ BlocksTile
  BY <1>1 DEF IndInv, CallSound, MallocSound, InMalloc
<1>4. /\ s \in Nat /\ s # 0 /\ mem[b].size \in Nat /\ p \in Nat /\ p # 0
      /\ PoolBase \in Nat /\ TotalPoolSize \in Nat /\ nblocks \in Nat
  <2>1. b \in Blocks BY <1>3, BlocksMade
  <2>2. p \in Nat /\ p # 0 BY <1>3, AddressNotNull
  <2>3. mem[b].size \in Nat BY <2>1 DEF TypeOK
  <2>4. s \in Nat /\ s # 0 BY <1>1, <1>3, SizesAssumption DEF Locals, Sizes, Pooled
  <2> QED BY <2>2, <2>3, <2>4, SizesAssumption DEF TypeOK, Links
<1>5. s <= mem[b].size
  <2>1. AlignedSize(s) \in Nat /\ AlignedSize(s) >= s BY <1>4, AlignedSizeBounds
  <2> QED BY <1>2, <1>4, <2>1 DEF Fits
<1>6. PoolBase <= p /\ p + mem[b].size <= PoolBase + TotalPoolSize BY <1>3 DEF BlocksTile
<1>7. ASSUME NEW g \in PoolHeap PROVE p + s <= g.addr \/ g.addr + g.size <= p
  <2>1. PICK c \in 1 .. nblocks :
          /\ mem[c].address = g.addr /\ mem[c].used
          /\ g.addr \in Nat /\ g.size \in Nat /\ mem[c].size \in Nat /\ g.size <= mem[c].size
    BY <1>1, OwnedMemory
  <2>2. b < c \/ c < b BY <1>3, <1>4, <2>1
  <2>3. \/ p + mem[b].size <= mem[c].address
        \/ mem[c].address + mem[c].size <= p
    BY <1>3, <2>2 DEF BlocksTile
  <2> QED BY <1>4, <1>5, <2>1, <2>3
<1>8. OnBoundary(p) BY <1>1, <1>3 DEF BoundaryInv
<1>9. p + s <= PoolBase + TotalPoolSize BY <1>4, <1>5, <1>6
<1> HIDE DEF p, s
<1> QED BY <1>1, <1>2, <1>3, <1>4, <1>6, <1>7, <1>8, <1>9, GrantStep

\* A new block lies above all others.
LEMMA LinkStep ==
  ASSUME TypeOK, IndInv, BoundaryInv, NEW t \in Threads, MallocLink(t), PoolHeap' # PoolHeap
  PROVE  Heap!Next
<1> DEFINE l == th[t]  p == pool + l.off  s == l.req
<1>1. Running /\ l \in Locals /\ l.pc = "m_link" BY DEF MallocLink, At, Running, TypeOK
<1>2. MallocReturn(t, p, s) BY DEF MallocLink, PoolHeap, InPool
<1>3. /\ InMalloc(t) /\ Pooled(s) /\ pool = PoolBase
      /\ l.off + AlignedSize(s) <= TotalPoolSize
      /\ \A c \in 1 .. nblocks : mem[c].address + mem[c].size <= PoolBase + l.off
  BY <1>1 DEF IndInv, CallSound, MallocSound, InMalloc
<1>4. /\ s \in Nat /\ s # 0 /\ l.off \in Nat
      /\ PoolBase \in Nat /\ PoolBase # 0 /\ TotalPoolSize \in Nat
  BY <1>1, <1>3, SizesAssumption DEF Locals, Sizes, Pooled
<1>5. AlignedSize(s) \in Nat /\ AlignedSize(s) >= s BY <1>4, AlignedSizeBounds
<1>6. p = PoolBase + l.off BY <1>3
<1>7. OnBoundary(p) BY <1>1, <1>4, <1>6, BasesOnBoundary, SumOnBoundary DEF BoundaryInv
<1> HIDE DEF p, s
<1>8. /\ p \in Nat /\ p # 0 /\ PoolBase <= p /\ p + s <= PoolBase + TotalPoolSize
  BY <1>3, <1>4, <1>5, <1>6
<1>9. ASSUME NEW g \in PoolHeap PROVE g.addr + g.size <= p
  <2>1. PICK c \in 1 .. nblocks :
          /\ mem[c].address = g.addr /\ mem[c].used
          /\ g.addr \in Nat /\ g.size \in Nat /\ mem[c].size \in Nat /\ g.size <= mem[c].size
    BY <1>1, OwnedMemory
  <2>2. mem[c].address + mem[c].size <= p BY <1>3, <1>6, <2>1
  <2> QED BY <1>8, <2>1, <2>2
<1> QED BY <1>1, <1>2, <1>3, <1>4, <1>7, <1>8, <1>9, GrantStep

\* A request that does not reach the arena hands out nothing of it; after it
\* CustomRealloc may give its argument back.
LEMMA EnterMallocStep ==
  ASSUME TypeOK, IndInv, Running, NEW t \in Threads, NEW s, EnterMalloc(t, s),
         th[t].ptr = 0 \/ th[t].pc = "r_walk", PoolHeap' # PoolHeap
  PROVE  Heap!Next
<1>1. ~UNCHANGED live BY DEF PoolHeap, InPool
<1>2. ~MallocReturn(t, 0, s) BY <1>1 DEF MallocReturn, LiveAfter
<1>3. PICK c \in (1 .. MaxCrt) \ crtHeap : MallocReturn(t, -c, s)
  BY <1>1, <1>2 DEF EnterMalloc
<1>4. -c \in Int /\ -c # 0 /\ ~(-c > 0) BY SizesAssumption
<1>5. PoolHeap' = {e \in PoolHeap : e.addr # th[t].ptr} BY <1>3, <1>4, GrantedHeap
<1>6. th[t].ptr # 0
  <2> SUFFICES ASSUME th[t].ptr = 0 PROVE PoolHeap' = PoolHeap OBVIOUS
  <2>1. \A e \in PoolHeap : e.addr # 0 BY DEF PoolHeap, InPool
  <2> QED BY <1>5, <2>1
<1>7. PICK g \in PoolHeap : g.addr = th[t].ptr
  BY <1>6 DEF IndInv, CallSound, ReallocSound
<1>8. \A e \in PoolHeap : e.addr = th[t].ptr <=> e = g
  BY <1>7 DEF IndInv, OwnersExclusive
<1>9. PoolHeap' = PoolHeap \ {g} BY <1>5, <1>8
<1> QED BY <1>9 DEF Heap!Next, Heap!Release

LEMMA CallStep ==
  ASSUME TypeOK, IndInv, NEW t \in Threads, Call(t), PoolHeap' # PoolHeap
  PROVE  Heap!Next
<1>1. ~UNCHANGED live BY DEF PoolHeap, InPool
<1>2. ASSUME NEW s, MallocCall(t, s) PROVE Heap!Next
  <2>1. Running /\ th[t].pc = "idle" BY <1>2 DEF MallocCall, MayCall, At, Running
  <2>2. th[t].ptr = 0 BY <2>1 DEF IndInv, CallSound, ReallocSound
  <2> QED BY <1>2, <2>1, <2>2, EnterMallocStep DEF MallocCall
<1>3. ASSUME NEW e \in live, FreeCall(t, e) PROVE Heap!Next
  <2>1. PoolHeap' = PoolHeap \ {e} BY <1>3 DEF FreeCall, PoolHeap, InPool
  <2>2. e \in PoolHeap BY <2>1
  <2> QED BY <2>1, <2>2 DEF Heap!Next, Heap!Release
<1>4. ASSUME NEW e \in live, NEW s \in Requests, ReallocCall(t, e, s) PROVE FALSE
  <2>1. e \in Extents /\ e.addr \in Int BY DEF TypeOK, Extents
  <2>2. CASE e.addr < 0 /\ live' = (live \ {e}) \cup {[e EXCEPT !.size = s]}
    <3> DEFINE d == [e EXCEPT !.size = s]
    <3>1. d.addr = e.addr BY <2>1 DEF Extents
    <3>2. live' = (live \ {e}) \cup {d} BY <2>2
    <3> HIDE DEF d
    <3>3. ~InPool(d) /\ ~InPool(e) BY <2>1, <2>2, <3>1 DEF InPool
    <3>4. PoolHeap' = PoolHeap BY <3>2, <3>3, Zenon DEF PoolHeap
    <3> QED BY <3>4
  <2>3. CASE e.addr < 0 /\ live' = live \ {e}
    <3>1. PoolHeap' = PoolHeap BY <2>1, <2>3 DEF PoolHeap, InPool
    <3> QED BY <3>1
  <2> QED BY <1>1, <1>4, <2>2, <2>3 DEF ReallocCall
<1> QED BY <1>1, <1>2, <1>3, <1>4
        DEF Call, CallocCall, DoubleFreeCall, UsageCall, CleanupCall, client

LEMMA StepStep ==
  ASSUME TypeOK, IndInv, BoundaryInv, NEW t \in Threads, Step(t), PoolHeap' # PoolHeap
  PROVE  Heap!Next
<1>1. ~UNCHANGED live BY DEF PoolHeap, InPool
<1>2. CASE ReallocFound(t)
  <2>1. Running /\ th[t].pc = "r_walk" /\ EnterMalloc(t, th[t].req)
    BY <1>1, <1>2 DEF ReallocFound, At, Running
  <2> QED BY <2>1, EnterMallocStep
<1>3. ~MallocAdd(t) BY <1>1 DEF MallocAdd, MallocReturn, LiveAfter
<1> QED BY <1>1, <1>2, <1>3, TakeStep, LinkStep
        DEF Step, InitPool, InitStores, PopLoad, PopReadNext, PopCAS, WalkLock, WalkOn,
            FreeFound, FreeClear, PushLoad, PushLink, PushCAS, UsageStep, UsageUnlock,
            UsageLog, CleanupDelete, CleanupEnd, client

\* CustomMalloc, CustomCalloc, CustomFree and CustomRealloc implement the abstract
\* heap: every step obtains, gives back or resizes one extent of the arena, on a
\* boundary and apart from all others, or leaves the extents alone.
THEOREM HeapImplemented ==
  ASSUME SinglePopper
  PROVE  Spec => ImplementsHeap
<1>1. Init => Heap!Init BY DEF Init, Heap!Init, PoolHeap
<1>2. TypeOK /\ IndInv /\ BoundaryInv /\ [Next]_vars => [Heap!Next]_PoolHeap
  <2> SUFFICES ASSUME TypeOK, IndInv, BoundaryInv, [Next]_vars, PoolHeap' # PoolHeap
               PROVE  Heap!Next
    OBVIOUS
  <2>1. ~UNCHANGED live BY DEF PoolHeap, InPool
  <2> QED BY <2>1, CallStep, StepStep DEF Next, Stopped, vars, client
<1> QED BY <1>1, <1>2, Inductive, BoundaryHolds, PTL DEF Spec, ImplementsHeap, Heap!Spec

-----------------------------------------------------------------------------
(* The C library's part. *)

\* Without CustomRealloc, which hands the C library what its walk does not find,
\* the C library's free is only handed what malloc returned.
THEOREM NoCorruptionHolds ==
  ASSUME Resizers = {}
  PROVE  Spec => []NoCorruption
<1> DEFINE NoRealloc == \A t \in Threads : th[t].pc \notin {"r_lock", "r_walk"}
<1>1. Init => NoCorruption /\ NoRealloc BY DEF Init, NoCorruption, Idle
<1>2. TypeOK /\ NoRealloc /\ [Next]_vars => NoRealloc'
  <2>1. CASE UNCHANGED vars BY <2>1 DEF vars
  <2> QED BY <2>1, CallThread, StepThread DEF Next, Stopped
<1>3. TypeOK /\ ArenaInv /\ NoRealloc /\ NoCorruption /\ [Next]_vars => NoCorruption'
  <2> SUFFICES ASSUME TypeOK, ArenaInv, NoRealloc, NoCorruption, [Next]_vars, status' = "corrupt"
               PROVE  FALSE
    BY DEF NoCorruption
  <2>1. ~UNCHANGED status BY DEF NoCorruption
  <2>2. ASSUME NEW t \in Threads, NEW e \in live, FreeCall(t, e) PROVE FALSE
    <3>1. Running /\ pool # 0 /\ ~IsInCustomPool(e.addr) /\ ~(e.addr < 0)
      BY <2>1, <2>2 DEF FreeCall, MayCall, At, Running
    <3>2. e.addr \in Int /\ e.addr # 0 BY DEF TypeOK, Extents
    <3>3. e \in PoolHeap BY <3>1, <3>2 DEF PoolHeap, InPool
    <3>4. PICK c \in 1 .. nblocks : mem[c].address = e.addr
      BY <3>1, <3>3 DEF ArenaInv, OwnersMade
    <3>5. /\ pool = PoolBase /\ Below(Memory(c), TotalPoolSize)
          /\ mem[c].size \in Nat /\ mem[c].address \in Nat
      BY <3>1, <3>4, BlocksMade DEF ArenaInv, Places, TypeOK
    <3>6. PoolBase <= e.addr /\ e.addr < PoolBase + TotalPoolSize
      BY <3>4, <3>5, SizesAssumption DEF Below, Memory
    <3> QED BY <3>1, <3>5, <3>6 DEF IsInCustomPool
  <2>3. ASSUME NEW t \in Threads, ReallocFound(t) PROVE FALSE
    BY <2>3 DEF ReallocFound, At
  <2>4. ASSUME NEW t \in Threads, Call(t) PROVE FALSE
    BY <2>1, <2>2, <2>4 DEF Call, MallocCall, CallocCall, DoubleFreeCall, ReallocCall,
                            UsageCall, CleanupCall, client
  <2>5. ASSUME NEW t \in Threads, Step(t) PROVE FALSE
    BY <2>1, <2>3, <2>5
       DEF Step, InitPool, InitStores, PopLoad, PopReadNext, PopCAS, MallocTake, MallocAdd,
           MallocLink, WalkLock, WalkOn, FreeFound, FreeClear, PushLoad, PushLink, PushCAS,
           UsageStep, UsageUnlock, UsageLog, CleanupDelete, CleanupEnd, client
  <2> QED BY <2>1, <2>4, <2>5 DEF Next, Stopped, vars, client
<1> QED BY <1>1, <1>2, <1>3, TypeCorrect, ArenaHolds, PTL DEF Spec

\* The argument of a running CustomFree or CustomRealloc is in the arena.
LEMMA ArgumentInArena ==
  ASSUME LinksMade, Running, NEW t \in Threads
  PROVE  ~(th[t].ptr < 0)
BY DEF LinksMade, LinkSound

\* Every owned block of the C heap that a step does not return to it stays
\* owned, and what malloc returns has an owner.
OwnersKept ==
  /\ \A e \in live : e.addr < 0 /\ -e.addr \in crtHeap' => \E g \in live' : g.addr = e.addr
  /\ \A c \in crtHeap' \ crtHeap : \E g \in live' : g.addr = -c

LEMMA MallocReturnKeeps ==
  ASSUME TypeOK, NEW t \in Threads, NEW p, NEW s, MallocReturn(t, p, s),
         ~(th[t].ptr < 0)
  PROVE  /\ \A e \in live : e.addr < 0 => e \in live'
         /\ p # 0 => \E g \in live' : g.addr = p
<1> DEFINE n == [addr |-> p, size |-> s]
<1>1. live' = IF p = 0 THEN live ELSE {e \in live : e.addr # th[t].ptr} \cup {n}
  BY DEF MallocReturn, LiveAfter, Granted
<1>2. n.addr = p OBVIOUS
<1> HIDE DEF n
<1>3. ASSUME NEW e \in live, e.addr < 0 PROVE e \in live'
  <2>1. e.addr # th[t].ptr BY <1>3
  <2> QED BY <1>1, <2>1
<1>4. p # 0 => n \in live' BY <1>1
<1> QED BY <1>2, <1>3, <1>4

LEMMA EnterMallocKeeps ==
  ASSUME TypeOK, NEW t \in Threads, NEW s, EnterMalloc(t, s), ~(th[t].ptr < 0)
  PROVE  OwnersKept
<1>1. CASE MallocReturn(t, 0, s) /\ UNCHANGED crtHeap
  BY <1>1, MallocReturnKeeps DEF OwnersKept
<1>2. ASSUME NEW c \in (1 .. MaxCrt) \ crtHeap, MallocReturn(t, -c, s),
             crtHeap' = crtHeap \cup {c}
      PROVE  OwnersKept
  <2>1. -c # 0 BY SizesAssumption
  <2> QED BY <1>2, <2>1, MallocReturnKeeps DEF OwnersKept
<1>3. CASE UNCHANGED <<live, crtHeap>> BY <1>3 DEF OwnersKept
<1> QED BY <1>1, <1>2, <1>3 DEF EnterMalloc

LEMMA CallKeeps ==
  ASSUME TypeOK, LinksMade, Running, pool # 0, NEW t \in Threads, Call(t)
  PROVE  OwnersKept
<1>1. CASE UNCHANGED <<live, crtHeap>> BY <1>1 DEF OwnersKept
<1>2. ASSUME NEW s, MallocCall(t, s) PROVE OwnersKept
  BY <1>2, ArgumentInArena, EnterMallocKeeps DEF MallocCall
<1>3. pool \in Nat BY SizesAssumption DEF TypeOK
<1>4. \A e \in live : e.addr \in Int BY DEF TypeOK, Extents
<1>5. ASSUME NEW e \in live, FreeCall(t, e) PROVE OwnersKept
  <2>1. live' = live \ {e} BY <1>5 DEF FreeCall
  <2>2. CASE IsInCustomPool(e.addr) /\ UNCHANGED crtHeap
    <3>1. ~(e.addr < 0) BY <1>3, <1>4, <2>2 DEF IsInCustomPool
    <3> QED BY <2>1, <2>2, <3>1 DEF OwnersKept
  <2>3. CASE crtHeap' = crtHeap \ {-e.addr}
    <3>1. ASSUME NEW g \in live, -g.addr \in crtHeap' PROVE g \in live'
      BY <2>1, <2>3, <3>1
    <3> QED BY <2>3, <3>1 DEF OwnersKept
  <2> QED BY <1>5, <2>2, <2>3 DEF FreeCall
<1>6. ASSUME NEW e \in live, NEW s \in Requests, ReallocCall(t, e, s) PROVE OwnersKept
  <2>1. CASE live' = (live \ {e}) \cup {[e EXCEPT !.size = s]} /\ UNCHANGED crtHeap
    <3> DEFINE d == [e EXCEPT !.size = s]
    <3>1. d.addr = e.addr BY DEF TypeOK, Extents
    <3>2. live' = (live \ {e}) \cup {d} BY <2>1
    <3> HIDE DEF d
    <3>3. ASSUME NEW g \in live PROVE \E h \in live' : h.addr = g.addr
      <4>1. CASE g = e BY <3>1, <3>2, <4>1
      <4>2. CASE g # e BY <3>2, <4>2
      <4> QED BY <4>1, <4>2
    <3> QED BY <2>1, <3>3 DEF OwnersKept
  <2>2. CASE live' = live \ {e} /\ crtHeap' = crtHeap \ {-e.addr}
    <3>1. ASSUME NEW g \in live, -g.addr \in crtHeap' PROVE g \in live'
      BY <2>2, <3>1
    <3> QED BY <2>2, <3>1 DEF OwnersKept
  <2> QED BY <1>1, <1>6, <2>1, <2>2 DEF ReallocCall
<1>7. CASE (\E b \in onFree : DoubleFreeCall(t, b)) \/ UsageCall(t) \/ CleanupCall(t)
  BY <1>1, <1>7 DEF DoubleFreeCall, UsageCall, CleanupCall, client
<1> QED BY <1>2, <1>5, <1>6, <1>7 DEF Call, CallocCall

LEMMA StepKeeps ==
  ASSUME TypeOK, LinksMade, Running, NEW t \in Threads, Step(t)
  PROVE  OwnersKept
<1>1. CASE UNCHANGED <<live, crtHeap>> BY <1>1 DEF OwnersKept
<1>2. ASSUME NEW p, NEW s, MallocReturn(t, p, s), UNCHANGED crtHeap
      PROVE  OwnersKept
  BY <1>2, ArgumentInArena, MallocReturnKeeps DEF OwnersKept
<1>3. CASE MallocTake(t) \/ MallocAdd(t) \/ MallocLink(t)
  BY <1>1, <1>2, <1>3 DEF MallocTake, MallocAdd, MallocLink
<1>4. CASE ReallocFound(t)
  BY <1>1, <1>4, ArgumentInArena, EnterMallocKeeps DEF ReallocFound
<1> QED BY <1>1, <1>3, <1>4
        DEF Step, InitPool, InitStores, PopLoad, PopReadNext, PopCAS, WalkLock, WalkOn,
            FreeFound, FreeClear, PushLoad, PushLink, PushCAS, UsageStep, UsageUnlock,
            UsageLog, CleanupDelete, CleanupEnd, client

\* Once there is an arena, no call and no step leaves a block of the C heap in
\* use that no client owns.
THEOREM CrtLeakHolds == Spec => CrtLeakOnlyBeforePool
<1> DEFINE Kept == Running /\ pool # 0 => CrtLeaked' \subseteq CrtLeaked
<1>1. TypeOK /\ LinksMade /\ [Next]_vars => [Kept]_vars
  <2> SUFFICES ASSUME TypeOK, LinksMade, Running, pool # 0, Next, NEW c \in CrtLeaked'
               PROVE  c \in CrtLeaked
    OBVIOUS
  <2>1. c \in crtHeap' /\ \A e \in live' : e.addr # -c BY DEF CrtLeaked
  <2>2. CASE UNCHANGED vars BY <2>2 DEF vars, client, CrtLeaked
  <2>3. CASE OwnersKept
    <3>1. c \in crtHeap BY <2>1, <2>3 DEF OwnersKept
    <3>2. c \in Int /\ c > 0 BY <3>1, SizesAssumption DEF TypeOK
    <3>3. ASSUME NEW e \in live PROVE e.addr # -c
      <4> SUFFICES ASSUME e.addr = -c PROVE FALSE OBVIOUS
      <4>1. e.addr < 0 /\ -e.addr = c BY <3>2
      <4> QED BY <2>1, <2>3, <4>1 DEF OwnersKept
    <3> QED BY <3>1, <3>3 DEF CrtLeaked
  <2> QED BY <2>2, <2>3, CallKeeps, StepKeeps DEF Next, Stopped
<1>2. [][Kept]_vars <=> CrtLeakOnlyBeforePool BY DEF CrtLeakOnlyBeforePool
<1> QED BY <1>1, <1>2, TypeCorrect, PTL DEF Spec
=============================================================================

----------------------------- MODULE PoolProofs -----------------------------
(***************************************************************************)
(* The custom memory pool, for any requests and any arena: its types and   *)
(* links hold for any threads, and it is safe for any number of freeing    *)
(* threads as long as one thread pops the free list.                       *)
(***************************************************************************)
EXTENDS PoolProperties, TLAPS

\* Only one thread calls CustomMalloc, CustomCalloc and CustomRealloc.
SinglePopper == \A x, y \in Allocators : x = y

-----------------------------------------------------------------------------
\* The rounding of a request never loses a byte and keeps the order of sizes.
LEMMA AlignedSizeBounds ==
  ASSUME NEW s \in Nat
  PROVE  AlignedSize(s) \in Nat /\ AlignedSize(s) >= s
<1> DEFINE x == s + Alignment - 1  q == x \div Alignment
<1>1. Alignment \in Nat /\ Alignment > 0 BY SizesAssumption
<1>2. x \in Nat BY <1>1
<1>3. q \in Nat /\ x = Alignment * q + (x % Alignment) /\ x % Alignment \in 0 .. Alignment - 1
  BY <1>1, <1>2
<1>4. q * Alignment = Alignment * q BY <1>1, <1>3
<1>5. q * Alignment \in Nat BY <1>1, <1>3
<1> HIDE DEF q
<1>6. q * Alignment >= s BY <1>1, <1>3, <1>4, <1>5
<1> QED BY <1>5, <1>6 DEF AlignedSize, q

LEMMA AlignedSizeMonotone ==
  ASSUME NEW s \in Nat, NEW r \in Nat, s <= r
  PROVE  AlignedSize(s) <= AlignedSize(r)
<1> DEFINE x == s + Alignment - 1  y == r + Alignment - 1
           q == x \div Alignment   p == y \div Alignment
<1>1. Alignment \in Nat /\ Alignment > 0 BY SizesAssumption
<1>2. x \in Nat /\ y \in Nat /\ x <= y BY <1>1
<1>3. q \in Nat /\ x = Alignment * q + (x % Alignment) /\ x % Alignment \in 0 .. Alignment - 1
  BY <1>1, <1>2
<1>4. p \in Nat /\ y = Alignment * p + (y % Alignment) /\ y % Alignment \in 0 .. Alignment - 1
  BY <1>1, <1>2
<1> HIDE DEF q, p
<1>5. q <= p
  <2> SUFFICES ASSUME q > p PROVE FALSE BY <1>3, <1>4
  <2>1. q >= p + 1 BY <1>3, <1>4
  <2>2. Alignment * q >= Alignment * (p + 1) BY <2>1, <1>1, <1>3, <1>4
  <2>3. Alignment * (p + 1) = Alignment * p + Alignment BY <1>1, <1>4
  <2> QED BY <2>2, <2>3, <1>1, <1>2, <1>3, <1>4
<1>6. q * Alignment <= p * Alignment BY <1>1, <1>3, <1>4, <1>5
<1> QED BY <1>6 DEF AlignedSize, q, p

-----------------------------------------------------------------------------
\* What the parts of the state are, for the type of a step's result.
LEMMA IdleType == Idle \in Locals
BY SizesAssumption DEF Idle, Locals, Labels, Links, Sizes

LEMMA InitType == Init => TypeOK
<1> SUFFICES ASSUME Init PROVE TypeOK OBVIOUS
<1>1. th \in [Threads -> Locals] BY IdleType DEF Init
<1>2. mem \in [Blocks -> [size : Nat, used : BOOLEAN, address : Nat, next : Links]]
  BY SizesAssumption DEF Init, Links
<1>3. /\ pool = 0 /\ offset \in Sizes /\ head \in Links /\ freeList \in Links
      /\ nblocks \in Links
  BY SizesAssumption DEF Init, Links, Sizes
<1> QED BY <1>1, <1>2, <1>3 DEF Init, TypeOK

\* CustomMalloc's return hands out an extent of the type, if it hands out one.
LEMMA MallocReturnType ==
  ASSUME TypeOK, NEW t \in Threads, NEW p \in Int, NEW s \in Sizes, p # 0 => s # 0,
         MallocReturn(t, p, s)
  PROVE  th' \in [Threads -> Locals] /\ live' \subseteq Extents
<1>1. LiveAfter(t, p, s) \subseteq Extents
  BY DEF LiveAfter, Granted, TypeOK, Extents, Sizes
<1>2. th[t].ptr \in Int BY DEF TypeOK, Locals
<1>3. [Idle EXCEPT !.pc = "f_lock", !.ptr = th[t].ptr, !.res = p] \in Locals
  BY <1>2, IdleType DEF Idle, Locals, Labels
<1> QED BY <1>1, <1>3, IdleType DEF MallocReturn, TypeOK

LEMMA EnterMallocType ==
  ASSUME TypeOK, NEW t \in Threads, NEW s \in Sizes, EnterMalloc(t, s)
  PROVE  th' \in [Threads -> Locals] /\ live' \subseteq Extents /\ crtHeap' \subseteq 1 .. MaxCrt
<1>1. CASE ~Pooled(s) /\ MallocReturn(t, 0, s) /\ UNCHANGED crtHeap
  BY <1>1, MallocReturnType DEF TypeOK
<1>2. CASE /\ ~Pooled(s) /\ s # 0
           /\ \E c \in (1 .. MaxCrt) \ crtHeap :
                MallocReturn(t, -c, s) /\ crtHeap' = crtHeap \cup {c}
  <2> PICK c \in (1 .. MaxCrt) \ crtHeap :
        MallocReturn(t, -c, s) /\ crtHeap' = crtHeap \cup {c}
    BY <1>2
  <2>1. -c \in Int BY SizesAssumption
  <2> QED BY <1>2, <2>1, MallocReturnType DEF TypeOK
<1>3. CASE /\ Pooled(s) /\ th' = [th EXCEPT ![t].pc = "m_init", ![t].req = s]
           /\ UNCHANGED <<live, crtHeap>>
  <2>1. th[t] \in Locals BY DEF TypeOK
  <2>2. [th[t] EXCEPT !.pc = "m_init", !.req = s] \in Locals
    BY <2>1 DEF Locals, Labels
  <2>3. th' \in [Threads -> Locals] BY <1>3, <2>2 DEF TypeOK
  <2> QED BY <1>3, <2>3 DEF TypeOK
<1> QED BY <1>1, <1>2, <1>3 DEF EnterMalloc

\* Type correctness, one lemma for every action that changes more than its
\* thread's program counter.
LEMMA CallTypes ==
  ASSUME TypeOK, NEW t \in Threads, Call(t)
  PROVE  TypeOK'
<1> USE DEF memory, arena, client
<1>0. th[t] \in Locals BY DEF TypeOK
<1>1. ASSUME NEW s \in Sizes, MallocCall(t, s) PROVE TypeOK'
  BY <1>1, EnterMallocType DEF MallocCall, TypeOK
<1>2. ASSUME NEW s \in Requests, MallocCall(t, s) PROVE TypeOK'
  <2>1. s \in Sizes BY SizesAssumption DEF Sizes
  <2> QED BY <1>1, <1>2, <2>1
<1>3. ASSUME NEW ns \in CallocArgs, CallocCall(t, ns[1], ns[2]) PROVE TypeOK'
  <2>1. ns[1] \in Nat /\ ns[2] \in Nat BY SizesAssumption
  <2>2. ns[1] * ns[2] \in Nat BY <2>1
  <2>3. (ns[1] * ns[2]) % SizeMod \in Sizes BY <2>2, SizesAssumption DEF Sizes
  <2> QED BY <1>1, <1>3, <2>3 DEF CallocCall
<1>4. ASSUME NEW e \in live, FreeCall(t, e) PROVE TypeOK'
  <2>1. e.addr \in Int BY DEF TypeOK, Extents
  <2>2. [th[t] EXCEPT !.pc = "f_lock", !.ptr = e.addr] \in Locals
    BY <1>0, <2>1 DEF Locals, Labels
  <2>3. th' \in [Threads -> Locals] BY <1>4, <2>2 DEF FreeCall, TypeOK
  <2>4. /\ live' \subseteq Extents /\ crtHeap' \subseteq 1 .. MaxCrt
        /\ status' \in {"run", "exited", "corrupt", "closed", "wrapped"}
    BY <1>4 DEF FreeCall, TypeOK
  <2> QED BY <1>4, <2>3, <2>4 DEF FreeCall, TypeOK
<1>5. ASSUME NEW b \in onFree, DoubleFreeCall(t, b) PROVE TypeOK'
  <2>1. mem[b].address \in Int BY DEF TypeOK
  <2>2. [th[t] EXCEPT !.pc = "f_lock", !.ptr = mem[b].address] \in Locals
    BY <1>0, <2>1 DEF Locals, Labels
  <2>3. th' \in [Threads -> Locals] BY <1>5, <2>2 DEF DoubleFreeCall, TypeOK
  <2> QED BY <1>5, <2>3 DEF DoubleFreeCall, TypeOK
<1>6. ASSUME NEW e \in live, NEW s \in Requests, ReallocCall(t, e, s) PROVE TypeOK'
  <2>1. e.addr \in Int /\ s \in Sizes /\ e \in Extents
    BY SizesAssumption DEF TypeOK, Extents, Sizes
  <2>2. [th[t] EXCEPT !.pc = "r_lock", !.ptr = e.addr, !.req = s] \in Locals
    BY <1>0, <2>1 DEF Locals, Labels
  <2>3. th' \in [Threads -> Locals] BY <1>6, <2>2 DEF ReallocCall, TypeOK
  <2>4. s # 0 => [e EXCEPT !.size = s] \in Extents BY <2>1 DEF Extents
  <2>5. /\ live' \subseteq Extents /\ crtHeap' \subseteq 1 .. MaxCrt
        /\ status' \in {"run", "exited", "corrupt", "closed", "wrapped"}
    BY <1>6, <2>4 DEF ReallocCall, TypeOK
  <2> QED BY <1>6, <2>3, <2>5 DEF ReallocCall, TypeOK
<1>7. ASSUME UsageCall(t) PROVE TypeOK'
  <2>1. [th[t] EXCEPT !.pc = "u_walk", !.blk = head] \in Locals
    BY <1>0 DEF Locals, Labels, TypeOK
  <2>2. th' \in [Threads -> Locals] BY <1>7, <2>1 DEF UsageCall, TypeOK
  <2> QED BY <1>7, <2>2 DEF UsageCall, Lock, TypeOK
<1>8. ASSUME CleanupCall(t) PROVE TypeOK'
  <2>1. [th[t] EXCEPT !.pc = "c_walk", !.blk = head] \in Locals
    BY <1>0 DEF Locals, Labels, TypeOK
  <2>2. th' \in [Threads -> Locals] BY <1>8, <2>1 DEF CleanupCall, TypeOK
  <2> QED BY <1>8, <2>2 DEF CleanupCall, Lock, TypeOK
<1> QED BY <1>2, <1>3, <1>4, <1>5, <1>6, <1>7, <1>8 DEF Call

\* The blocks made so far are blocks.
LEMMA BlocksMade == TypeOK => 1 .. nblocks \subseteq Blocks
BY SizesAssumption DEF TypeOK, Links, Blocks

\* The block a thread holds is a block, and its link is a link.
LEMMA HeldBlock ==
  ASSUME TypeOK, LinksMade, Running, NEW t \in Threads,
         \/ th[t].blk # 0
         \/ th[t].pc \in {"m_next", "m_cas", "m_take", "f_clear", "f_push", "f_link", "f_cas"}
  PROVE  /\ th[t].blk \in 1 .. nblocks /\ th[t].blk \in Blocks
         /\ mem[th[t].blk].next \in Links
<1>1. th[t].blk \in 0 .. nblocks /\ th[t].blk # 0 BY DEF LinksMade, LinkSound
<1>2. nblocks \in Nat BY SizesAssumption DEF TypeOK, Links
<1>3. th[t].blk \in 1 .. nblocks BY <1>1, <1>2
<1> QED BY <1>3, BlocksMade DEF TypeOK

LEMMA StepTypes ==
  ASSUME TypeOK, LinksMade, NEW t \in Threads, Step(t)
  PROVE  TypeOK'
<1> USE DEF memory, arena, client
<1>0. th[t] \in Locals BY DEF TypeOK
<1>1. CASE InitPool(t)
  <2>1. [th[t] EXCEPT !.pc = "m_pop"] \in Locals /\ [th[t] EXCEPT !.pc = "m_setup"] \in Locals
    BY <1>0 DEF Locals, Labels
  <2>2. th' \in [Threads -> Locals] BY <1>1, <2>1 DEF InitPool, TypeOK
  <2> QED BY <1>1, <2>2 DEF InitPool, TypeOK
<1>2. CASE InitStores(t)
  <2>1. [th[t] EXCEPT !.pc = "m_pop"] \in Locals BY <1>0 DEF Locals, Labels
  <2>2. th' \in [Threads -> Locals] BY <1>2, <2>1 DEF InitStores, TypeOK
  <2>3. 0 \in Sizes /\ 0 \in Links BY SizesAssumption DEF Sizes, Links
  <2> QED BY <1>2, <2>2, <2>3 DEF InitStores, TypeOK
<1>3. ASSUME PopReload(t) PROVE th' \in [Threads -> Locals]
  <2>1. \A x \in {"m_add", "m_next"} : [th[t] EXCEPT !.blk = freeList, !.pc = x] \in Locals
    BY <1>0 DEF Locals, Labels, TypeOK
  <2> QED BY <1>3, <2>1 DEF PopReload, TypeOK
<1>4. CASE PopLoad(t)
  BY <1>3, <1>4 DEF PopLoad, TypeOK
<1>5. CASE PopReadNext(t)
  <2>0. mem[th[t].blk].next \in Links BY <1>5, HeldBlock DEF PopReadNext, At, Running
  <2>1. [th[t] EXCEPT !.pc = "m_cas", !.lnk = mem[th[t].blk].next] \in Locals
    BY <1>0, <2>0 DEF Locals, Labels, TypeOK
  <2>2. th' \in [Threads -> Locals] BY <1>5, <2>1 DEF PopReadNext, TypeOK
  <2> QED BY <1>5, <2>2 DEF PopReadNext, TypeOK
<1>6. CASE PopCAS(t)
  <2>1. 0 \in Links /\ th[t].lnk \in Links BY <1>0, SizesAssumption DEF Locals, Links
  <2>2. [th[t] EXCEPT !.pc = "m_take", !.lnk = 0] \in Locals
    BY <1>0, <2>1 DEF Locals, Labels
  <2>3. th' \in [Threads -> Locals] BY <1>3, <1>6, <2>2 DEF PopCAS, TypeOK
  <2>4. freeList' \in Links /\ onFree' \subseteq Blocks BY <1>6, <2>1 DEF PopCAS, TypeOK
  <2> QED BY <1>6, <2>3, <2>4 DEF PopCAS, TypeOK
<1>7. CASE MallocTake(t)
  <2> DEFINE b == th[t].blk
  <2>1. Pooled(th[t].req)
    BY <1>7 DEF MallocTake, At, LinksMade, Running, LinkSound, InMalloc
  <2>2. b \in Blocks BY <1>7, HeldBlock DEF MallocTake, At, Running
  <2>3. mem[b].address \in Int /\ th[t].req \in Sizes /\ th[t].req # 0
    BY <1>0, <2>1, <2>2, SizesAssumption DEF TypeOK, Locals, Pooled
  <2>4. ASSUME MallocReturn(t, mem[b].address, th[t].req)
        PROVE  th' \in [Threads -> Locals] /\ live' \subseteq Extents
    BY <2>3, <2>4, MallocReturnType
  <2>5. [th[t] EXCEPT !.pc = "m_pop"] \in Locals BY <1>0 DEF Locals, Labels
  <2>6. th' \in [Threads -> Locals] /\ live' \subseteq Extents
    BY <1>7, <2>4, <2>5 DEF MallocTake, TypeOK
  <2>7. mem' \in [Blocks -> [size : Nat, used : BOOLEAN, address : Nat, next : Links]]
    BY <1>7, <2>2, ZenonT(60) DEF MallocTake, TypeOK
  <2> QED BY <1>7, <2>6, <2>7 DEF MallocTake, TypeOK
<1>8. CASE MallocAdd(t)
  <2> DEFINE sum == offset + AlignedSize(th[t].req)
  <2>1. [th[t] EXCEPT !.pc = "m_link", !.off = offset] \in Locals
    BY <1>0 DEF Locals, Labels, TypeOK
  <2>2. th[t].req \in Sizes BY <1>0 DEF Locals
  <2>3. ASSUME MallocReturn(t, 0, th[t].req)
        PROVE  th' \in [Threads -> Locals] /\ live' \subseteq Extents
    BY <2>2, <2>3, MallocReturnType
  <2>4. AlignedSize(th[t].req) \in Nat BY <2>2, AlignedSizeBounds, SizesAssumption DEF Sizes
  <2>5. sum < SizeMod => sum \in Sizes BY <2>4, SizesAssumption DEF TypeOK, Sizes
  <2>6. th' \in [Threads -> Locals] /\ live' \subseteq Extents
    BY <1>8, <2>1, <2>3 DEF MallocAdd, TypeOK
  <2>7. offset' \in Sizes /\ refused' \in Nat BY <1>8, <2>5 DEF MallocAdd, TypeOK
  <2> QED BY <1>8, <2>6, <2>7 DEF MallocAdd, TypeOK
<1>9. CASE MallocLink(t)
  <2> DEFINE p == pool + th[t].off  r == th[t].req
  <2>1. pool = PoolBase /\ Pooled(r)
    BY <1>9 DEF MallocLink, At, LinksMade, Running, LinkSound, InMalloc
  <2>2. p \in Nat /\ p # 0 /\ r \in Sizes /\ r \in Nat /\ r # 0
    BY <1>0, <2>1, SizesAssumption DEF Locals, Sizes, Pooled
  <2>3. ASSUME MallocReturn(t, p, r)
        PROVE  th' \in [Threads -> Locals] /\ live' \subseteq Extents
    BY <2>2, <2>3, MallocReturnType
  <2>4. th' \in [Threads -> Locals] /\ live' \subseteq Extents
    BY <1>9, <2>3 DEF MallocLink, TypeOK
  <2>5. NewBlock(t, p) \in [size : Nat, used : BOOLEAN, address : Nat, next : Links]
    BY <2>2, AlignedSizeBounds DEF NewBlock, BlockOf, TypeOK
  <2>6. mem' \in [Blocks -> [size : Nat, used : BOOLEAN, address : Nat, next : Links]]
    BY <1>9, <2>5 DEF MallocLink, TypeOK
  <2>7. nblocks' \in Links /\ head' \in Links
    BY <1>9, SizesAssumption DEF MallocLink, TypeOK, Links
  <2> QED BY <1>9, <2>4, <2>6, <2>7 DEF MallocLink, TypeOK
<1>10. CASE WalkLock(t)
  <2>1. \A x \in {"f_walk", "r_walk"} : [th[t] EXCEPT !.pc = x, !.blk = head] \in Locals
    BY <1>0 DEF Locals, Labels, TypeOK
  <2>2. th' \in [Threads -> Locals] BY <1>10, <2>1 DEF WalkLock, TypeOK
  <2> QED BY <1>10, <2>2 DEF WalkLock, Lock, TypeOK
<1>11. CASE WalkOn(t)
  <2>0. mem[th[t].blk].next \in Links BY <1>11, HeldBlock DEF WalkOn, WalkEnds, At, Running
  <2>1. [th[t] EXCEPT !.blk = mem[th[t].blk].next] \in Locals
    BY <1>0, <2>0 DEF Locals, Labels, TypeOK
  <2>2. th' \in [Threads -> Locals] BY <1>11, <2>1 DEF WalkOn, TypeOK
  <2> QED BY <1>11, <2>2 DEF WalkOn, TypeOK
<1>12. CASE FreeFound(t)
  <2>1. [th[t] EXCEPT !.pc = "f_clear"] \in Locals BY <1>0 DEF Locals, Labels
  <2>2. th' \in [Threads -> Locals] BY <1>12, <2>1, IdleType DEF FreeFound, TypeOK
  <2> QED BY <1>12, <2>2 DEF FreeFound, Unlock, TypeOK
<1>13. CASE FreeClear(t)
  <2>1. [th[t] EXCEPT !.pc = "f_push"] \in Locals BY <1>0 DEF Locals, Labels
  <2>2. th' \in [Threads -> Locals] BY <1>13, <2>1 DEF FreeClear, TypeOK
  <2>3. mem' \in [Blocks -> [size : Nat, used : BOOLEAN, address : Nat, next : Links]]
    BY <1>13 DEF FreeClear, Clear, TypeOK
  <2> QED BY <1>13, <2>2, <2>3 DEF FreeClear, TypeOK
<1>14. ASSUME PushReload(t) PROVE th' \in [Threads -> Locals]
  <2>1. [th[t] EXCEPT !.pc = "f_link", !.lnk = freeList] \in Locals
    BY <1>0 DEF Locals, Labels, TypeOK
  <2> QED BY <1>14, <2>1 DEF PushReload, TypeOK
<1>15. CASE PushLoad(t)
  BY <1>14, <1>15 DEF PushLoad, TypeOK
<1>16. CASE PushLink(t)
  <2>1. [th[t] EXCEPT !.pc = "f_cas"] \in Locals /\ th[t].lnk \in Links
    BY <1>0 DEF Locals, Labels
  <2>2. th' \in [Threads -> Locals] BY <1>16, <2>1 DEF PushLink, TypeOK
  <2>3. mem' \in [Blocks -> [size : Nat, used : BOOLEAN, address : Nat, next : Links]]
    BY <1>16, <2>1 DEF PushLink, TypeOK
  <2> QED BY <1>16, <2>2, <2>3 DEF PushLink, TypeOK
<1>17. CASE PushCAS(t)
  <2>1. th[t].blk \in Blocks
    BY <1>17, HeldBlock DEF PushCAS, At, Running
  <2>2. th[t].blk \in Links BY <1>0 DEF Locals
  <2>3. th' \in [Threads -> Locals] BY <1>14, <1>17, IdleType DEF PushCAS, TypeOK
  <2> QED BY <1>17, <2>1, <2>2, <2>3 DEF PushCAS, TypeOK
<1>18. CASE ReallocFound(t)
  <2>1. th[t].req \in Sizes BY <1>0 DEF Locals
  <2>2. /\ th' \in [Threads -> Locals] /\ live' \subseteq Extents
        /\ crtHeap' \subseteq 1 .. MaxCrt
    BY <1>18, <2>1, EnterMallocType DEF ReallocFound, TypeOK
  <2> QED BY <1>18, <2>2 DEF ReallocFound, Unlock, TypeOK
<1>19. CASE UsageStep(t)
  <2>1. th[t].blk \in Blocks BY <1>0, <1>19 DEF UsageStep, Locals, Links, Blocks
  <2>2. mem[th[t].blk].next \in Links /\ mem[th[t].blk].size \in Nat BY <2>1 DEF TypeOK
  <2>3. \A x \in Sizes : (x + mem[th[t].blk].size) % SizeMod \in Sizes
    BY <2>2, SizesAssumption DEF Sizes
  <2>4. \A x, y \in Sizes : [th[t] EXCEPT !.blk = mem[th[t].blk].next, !.usedMemory = x,
                                         !.freeMemory = y] \in Locals
    BY <1>0, <2>2 DEF Locals
  <2>5. th[t].usedMemory \in Sizes /\ th[t].freeMemory \in Sizes BY <1>0 DEF Locals
  <2>6. th' \in [Threads -> Locals] BY <1>19, <2>3, <2>4, <2>5 DEF UsageStep, TypeOK
  <2> QED BY <1>19, <2>6 DEF UsageStep, TypeOK
<1>20. CASE UsageUnlock(t)
  <2>1. [th[t] EXCEPT !.pc = "u_log"] \in Locals BY <1>0 DEF Locals, Labels
  <2>2. th' \in [Threads -> Locals] BY <1>20, <2>1 DEF UsageUnlock, TypeOK
  <2> QED BY <1>20, <2>2 DEF UsageUnlock, Unlock, TypeOK
<1>21. CASE UsageLog(t)
  BY <1>21, IdleType DEF UsageLog, TypeOK
<1>22. CASE CleanupDelete(t)
  <2>1. th[t].blk \in Blocks BY <1>0, <1>22 DEF CleanupDelete, Locals, Links, Blocks
  <2>2. mem[th[t].blk].next \in Links BY <2>1 DEF TypeOK
  <2>3. [th[t] EXCEPT !.blk = mem[th[t].blk].next] \in Locals BY <1>0, <2>2 DEF Locals
  <2>4. th' \in [Threads -> Locals] BY <1>22, <2>3 DEF CleanupDelete, TypeOK
  <2> QED BY <1>22, <2>1, <2>4 DEF CleanupDelete, TypeOK
<1>23. CASE CleanupEnd(t)
  <2>1. 0 \in Sizes /\ 0 \in Links BY SizesAssumption DEF Sizes, Links
  <2>2. th' \in [Threads -> Locals] BY <1>23, IdleType DEF CleanupEnd, TypeOK
  <2> QED BY <1>23, <2>1, <2>2 DEF CleanupEnd, Unlock, TypeOK
<1> QED BY <1>1, <1>2, <1>4, <1>5, <1>6, <1>7, <1>8, <1>9, <1>10, <1>11, <1>12, <1>13, <1>15, <1>16, <1>17, <1>18, <1>19, <1>20, <1>21, <1>22, <1>23 DEF Step

-----------------------------------------------------------------------------
\* The links, for any threads: a step of t that leaves the blocks' places and
\* the heads of the lists alone keeps every link if it keeps those of t.
LEMMA LinksLocal ==
  ASSUME LinksMade, Running, NEW t \in Threads,
         UNCHANGED <<pool, initialized, head, freeList, onFree, nblocks>>,
         \A b \in 1 .. nblocks :
           mem'[b].next = mem[b].next /\ mem'[b].address = mem[b].address,
         \A u \in Threads \ {t} : th'[u] = th[u],
         LinkSound(t)'
  PROVE  LinksMade'
<1>1. ASSUME NEW u \in Threads, u # t PROVE LinkSound(u)'
  BY <1>1 DEF LinksMade, LinkSound, InMalloc, Pooled
<1> QED BY <1>1 DEF LinksMade

LEMMA IdleLinks ==
  ASSUME TypeOK', NEW t \in Threads, th'[t] = Idle
  PROVE  LinkSound(t)'
<1>1. nblocks' \in Nat BY SizesAssumption DEF TypeOK, Links
<1> QED BY <1>1 DEF Idle, LinkSound, InMalloc

LEMMA MallocReturnLinks ==
  ASSUME TypeOK, TypeOK', LinksMade, Running, NEW t \in Threads, NEW p, NEW s,
         MallocReturn(t, p, s)
  PROVE  LinkSound(t)' /\ \A u \in Threads \ {t} : th'[u] = th[u]
<1>1. CASE th'[t] = Idle BY <1>1, IdleLinks DEF MallocReturn, TypeOK
<1>2. CASE th'[t] = [Idle EXCEPT !.pc = "f_lock", !.ptr = th[t].ptr, !.res = p]
  <2>1. nblocks' \in Nat BY SizesAssumption DEF TypeOK, Links
  <2>2. th[t].ptr \in Nat BY DEF LinksMade, LinkSound
  <2>3. LinkSound(t)' BY <1>2, <2>1, <2>2 DEF Idle, LinkSound, InMalloc
  <2> QED BY <2>3 DEF MallocReturn, TypeOK
<1> QED BY <1>1, <1>2 DEF MallocReturn, TypeOK

LEMMA EnterMallocLinks ==
  ASSUME TypeOK, TypeOK', LinksMade, Running, NEW t \in Threads, NEW s, EnterMalloc(t, s),
         UNCHANGED nblocks
  PROVE  LinkSound(t)' /\ \A u \in Threads \ {t} : th'[u] = th[u]
<1>1. CASE \E p : MallocReturn(t, p, s) BY <1>1, MallocReturnLinks
<1>2. CASE Pooled(s) /\ th' = [th EXCEPT ![t].pc = "m_init", ![t].req = s]
  <2>1. th'[t] = [th[t] EXCEPT !.pc = "m_init", !.req = s] /\ th[t] \in Locals
    BY <1>2 DEF TypeOK
  <2>2. /\ th'[t].pc = "m_init" /\ th'[t].req = s /\ th'[t].blk = th[t].blk
        /\ th'[t].lnk = th[t].lnk /\ th'[t].ptr = th[t].ptr
    BY <2>1 DEF Locals
  <2>3. LinkSound(t)' BY <1>2, <2>2 DEF LinksMade, LinkSound, InMalloc, Pooled
  <2> QED BY <1>2, <2>3 DEF TypeOK
<1> QED BY <1>1, <1>2 DEF EnterMalloc

LEMMA CallLinks ==
  ASSUME TypeOK, TypeOK', LinksMade, Running, NEW t \in Threads, Call(t)
  PROVE  LinksMade'
<1> USE DEF memory, arena, client
<1>0. /\ th[t] \in Locals /\ LinkSound(t) /\ head \in 0 .. nblocks
  BY DEF TypeOK, LinksMade
<1>1. ASSUME NEW s, MallocCall(t, s) PROVE LinksMade'
  BY <1>1, EnterMallocLinks, LinksLocal DEF MallocCall
<1>2. ASSUME NEW p \in Nat, th' = [th EXCEPT ![t].pc = "f_lock", ![t].ptr = p],
             UNCHANGED memory
      PROVE  LinksMade'
  <2>1. th'[t] = [th[t] EXCEPT !.pc = "f_lock", !.ptr = p] /\ \A u \in Threads \ {t} : th'[u] = th[u]
    BY <1>2 DEF TypeOK
  <2>2. /\ th'[t].pc = "f_lock" /\ th'[t].ptr = p /\ th'[t].blk = th[t].blk
        /\ th'[t].lnk = th[t].lnk
    BY <1>0, <2>1 DEF Locals
  <2>3. LinkSound(t)' BY <1>0, <1>2, <2>2 DEF LinkSound, InMalloc
  <2> QED BY <1>2, <2>1, <2>3, LinksLocal
<1>3. ASSUME NEW e \in live, FreeCall(t, e) PROVE LinksMade'
  <2>1. IsInCustomPool(e.addr) => e.addr \in Nat
    BY SizesAssumption DEF IsInCustomPool, TypeOK, Extents
  <2>2. CASE UNCHANGED th BY <1>0, <1>3, <2>2, LinksLocal DEF FreeCall, LinkSound, InMalloc
  <2> QED BY <1>2, <1>3, <2>1, <2>2 DEF FreeCall
<1>4. ASSUME NEW b \in onFree, DoubleFreeCall(t, b) PROVE LinksMade'
  <2>1. mem[b].address \in Nat BY DEF TypeOK
  <2> QED BY <1>2, <1>4, <2>1 DEF DoubleFreeCall
<1>5. ASSUME NEW e \in live, NEW s, ReallocCall(t, e, s) PROVE LinksMade'
  <2>1. IsInCustomPool(e.addr) => e.addr \in Nat
    BY SizesAssumption DEF IsInCustomPool, TypeOK, Extents
  <2>2. CASE UNCHANGED th BY <1>0, <1>5, <2>2, LinksLocal DEF ReallocCall, LinkSound, InMalloc
  <2>3. CASE /\ IsInCustomPool(e.addr)
             /\ th' = [th EXCEPT ![t].pc = "r_lock", ![t].ptr = e.addr, ![t].req = s]
    <3>1. /\ th'[t] = [th[t] EXCEPT !.pc = "r_lock", !.ptr = e.addr, !.req = s]
          /\ \A u \in Threads \ {t} : th'[u] = th[u]
      BY <2>3 DEF TypeOK
    <3>2. /\ th'[t].pc = "r_lock" /\ th'[t].ptr = e.addr /\ th'[t].blk = th[t].blk
          /\ th'[t].lnk = th[t].lnk
      BY <1>0, <3>1 DEF Locals
    <3>3. UNCHANGED memory BY <1>5 DEF ReallocCall
    <3>4. LinkSound(t)' BY <1>0, <2>1, <2>3, <3>2, <3>3 DEF LinkSound, InMalloc
    <3> QED BY <3>1, <3>3, <3>4, LinksLocal
  <2> QED BY <1>5, <2>2, <2>3 DEF ReallocCall
<1>6. ASSUME NEW x \in {"u_walk", "c_walk"}, th' = [th EXCEPT ![t].pc = x, ![t].blk = head],
             UNCHANGED <<arena, head, freeList, onFree, nblocks, mem>>
      PROVE  LinksMade'
  <2>1. th'[t] = [th[t] EXCEPT !.pc = x, !.blk = head] /\ \A u \in Threads \ {t} : th'[u] = th[u]
    BY <1>6 DEF TypeOK
  <2>2. /\ th'[t].pc = x /\ th'[t].ptr = th[t].ptr /\ th'[t].blk = head
        /\ th'[t].lnk = th[t].lnk
    BY <1>0, <2>1 DEF Locals
  <2>3. LinkSound(t)' BY <1>0, <1>6, <2>2 DEF LinkSound, InMalloc
  <2> QED BY <1>6, <2>1, <2>3, LinksLocal
<1>7. CASE UsageCall(t) BY <1>6, <1>7 DEF UsageCall
<1>8. CASE CleanupCall(t) BY <1>6, <1>8 DEF CleanupCall
<1> QED BY <1>1, <1>3, <1>4, <1>5, <1>7, <1>8 DEF Call, CallocCall

\* A step that changes t's program counter and block or link, and nothing of
\* the memory's links.
LEMMA WalkerLinks ==
  ASSUME TypeOK, LinksMade, Running, NEW t \in Threads,
         UNCHANGED <<pool, initialized, head, freeList, onFree, nblocks>>,
         \A b \in 1 .. nblocks :
           mem'[b].next = mem[b].next /\ mem'[b].address = mem[b].address,
         \A u \in Threads \ {t} : th'[u] = th[u],
         th'[t].blk \in 0 .. nblocks, th'[t].lnk \in 0 .. nblocks,
         th'[t].ptr = th[t].ptr,
         InMalloc(t)' => InMalloc(t) /\ th'[t].req = th[t].req /\ pool = PoolBase,
         th'[t].pc \in {"m_next", "m_cas", "m_take", "f_clear", "f_push", "f_link", "f_cas"} =>
           th'[t].blk # 0
  PROVE  LinksMade'
<1>1. LinkSound(t) BY DEF LinksMade
<1>2. LinkSound(t)' BY <1>1 DEF LinkSound, Pooled
<1> QED BY <1>2, LinksLocal

LEMMA StepLinks ==
  ASSUME TypeOK, TypeOK', LinksMade, Running, NEW t \in Threads, Step(t)
  PROVE  LinksMade'
<1> USE DEF memory, arena, client
<1> DEFINE l == th[t]  k == th'[t]
           Moved(x, b, n) == /\ \A u \in Threads \ {t} : th'[u] = th[u]
                             /\ k.pc = x /\ k.blk = b /\ k.lnk = n
                             /\ k.ptr = l.ptr /\ k.req = l.req
<1>0. /\ l \in Locals /\ LinkSound(t) /\ head \in 0 .. nblocks /\ freeList \in 0 .. nblocks
      /\ nblocks \in Nat
  BY SizesAssumption DEF TypeOK, LinksMade, Links
<1>2. CASE InitPool(t)
  <2>1. CASE status' = "exited" BY <2>1 DEF LinksMade, Running
  <2>2. CASE initialized /\ th' = [th EXCEPT ![t].pc = "m_pop"] /\ UNCHANGED pool
    <3>1. Moved("m_pop", l.blk, l.lnk)
      BY <1>0, <2>2 DEF TypeOK, Locals
    <3>2. pool = PoolBase BY <2>2 DEF LinksMade
    <3>3. InMalloc(t) BY <1>2 DEF InitPool, At, InMalloc
    <3> QED BY <1>0, <1>2, <2>2, <3>1, <3>2, <3>3, WalkerLinks DEF InitPool, LinkSound
  <2>3. CASE th' = [th EXCEPT ![t].pc = "m_setup"] /\ pool' = PoolBase
    <3>1. Moved("m_setup", l.blk, l.lnk)
      BY <1>0, <2>3 DEF TypeOK, Locals
    <3>2. Pooled(l.req) BY <1>0, <1>2 DEF InitPool, At, LinkSound, InMalloc
    <3>3. ASSUME NEW u \in Threads PROVE LinkSound(u)'
      BY <1>0, <1>2, <2>3, <3>1, <3>2
         DEF InitPool, LinksMade, LinkSound, InMalloc, Pooled
    <3> QED BY <1>2, <2>3, <3>3 DEF InitPool, LinksMade
  <2> QED BY <1>2, <2>1, <2>2, <2>3 DEF InitPool
<1>3. CASE InitStores(t)
  <2>1. Moved("m_pop", l.blk, l.lnk)
    BY <1>0, <1>3 DEF InitStores, TypeOK, Locals
  <2>2. pool = PoolBase BY <1>0, <1>3 DEF InitStores, At, LinkSound, InMalloc
  <2>3. InMalloc(t) BY <1>3 DEF InitStores, At, InMalloc
  <2>4. ASSUME NEW u \in Threads PROVE LinkSound(u)'
    BY <1>0, <1>3, <2>1, <2>2, <2>3
       DEF InitStores, LinksMade, LinkSound, InMalloc, Pooled
  <2> QED BY <1>0, <1>3, <2>2, <2>4 DEF InitStores, LinksMade
<1>4. ASSUME PopReload(t), InMalloc(t), l.pc # "m_init",
             UNCHANGED <<pool, initialized, head, freeList, onFree, nblocks, mem>>
      PROVE  LinksMade'
  <2> DEFINE x == IF freeList = 0 THEN "m_add" ELSE "m_next"
  <2>1. Moved(x, freeList, l.lnk)
    BY <1>0, <1>4 DEF PopReload, TypeOK, Locals
  <2>2. k.pc = "m_next" => k.blk # 0 BY <1>0, <2>1 DEF LinkSound
  <2>3. k.pc \in {"m_add", "m_next"} BY <1>0, <2>1 DEF LinkSound
  <2>4. k.blk \in 0 .. nblocks /\ k.lnk \in 0 .. nblocks /\ k.ptr = l.ptr /\ k.req = l.req
        /\ \A u \in Threads \ {t} : th'[u] = th[u]
    BY <1>0, <2>1 DEF LinkSound
  <2> HIDE DEF k
  <2> QED BY <1>0, <1>4, <2>2, <2>3, <2>4, WalkerLinks DEF LinkSound, k
<1>5. CASE PopLoad(t) BY <1>4, <1>5 DEF PopLoad, At, InMalloc
<1>6. CASE PopReadNext(t)
  <2>1. l.blk \in 1 .. nblocks BY <1>6, HeldBlock DEF PopReadNext, At
  <2>2. mem[l.blk].next \in 0 .. nblocks BY <2>1 DEF LinksMade
  <2>3. Moved("m_cas", l.blk, mem[l.blk].next)
    BY <1>0, <1>6 DEF PopReadNext, TypeOK, Locals
  <2>4. InMalloc(t) /\ pool = PoolBase /\ l.blk # 0
    BY <1>0, <1>6 DEF PopReadNext, At, InMalloc, LinkSound
  <2> QED BY <1>0, <1>6, <2>2, <2>3, <2>4, WalkerLinks DEF PopReadNext, LinkSound
<1>7. CASE PopCAS(t)
  <2>1. l.pc = "m_cas" BY <1>7 DEF PopCAS, At
  <2>2. CASE PopReload(t) /\ UNCHANGED <<freeList, onFree>>
    BY <1>4, <1>7, <2>1, <2>2 DEF PopCAS, InMalloc
  <2>3. CASE /\ freeList' = l.lnk /\ onFree' = onFree \ {l.blk}
             /\ th' = [th EXCEPT ![t].pc = "m_take", ![t].lnk = 0]
    <3>1. Moved("m_take", l.blk, 0)
      BY <1>0, <2>3 DEF TypeOK, Locals
    <3>2. Pooled(l.req) /\ pool = PoolBase /\ l.blk # 0
      BY <1>0, <2>1 DEF LinkSound, InMalloc
    <3>3. ASSUME NEW u \in Threads PROVE LinkSound(u)'
      <4>1. CASE u = t
        BY <1>0, <1>7, <3>1, <3>2, <4>1 DEF PopCAS, LinkSound, InMalloc, Pooled
      <4>2. CASE u # t
        BY <1>0, <1>7, <3>1, <4>2 DEF PopCAS, LinksMade, LinkSound, InMalloc, Pooled
      <4> QED BY <4>1, <4>2
    <3>4. l.lnk \in 0 .. nblocks BY <1>0 DEF LinkSound
    <3> QED BY <1>7, <2>3, <3>3, <3>4 DEF PopCAS, LinksMade
  <2> QED BY <1>7, <2>2, <2>3 DEF PopCAS
<1>8. CASE MallocTake(t)
  <2>1. l.pc = "m_take" BY <1>8 DEF MallocTake, At
  <2>2. \A b \in 1 .. nblocks : mem'[b].next = mem[b].next /\ mem'[b].address = mem[b].address
    BY <1>8, BlocksMade DEF MallocTake, TypeOK
  <2>3. CASE \E p, s : MallocReturn(t, p, s)
    BY <1>8, <2>2, <2>3, MallocReturnLinks, LinksLocal DEF MallocTake
  <2>4. CASE th' = [th EXCEPT ![t].pc = "m_pop"]
    <3>1. Moved("m_pop", l.blk, l.lnk)
      BY <1>0, <2>4 DEF TypeOK, Locals
    <3>2. InMalloc(t) /\ pool = PoolBase BY <1>0, <2>1 DEF InMalloc, LinkSound
    <3> QED BY <1>0, <1>8, <2>2, <3>1, <3>2, WalkerLinks DEF MallocTake, LinkSound
  <2> QED BY <1>8, <2>3, <2>4 DEF MallocTake
<1>9. CASE MallocAdd(t)
  <2>0. CASE status' = "wrapped" BY <2>0 DEF LinksMade, Running
  <2>1. CASE \E p, s : MallocReturn(t, p, s)
    BY <1>9, <2>1, MallocReturnLinks, LinksLocal DEF MallocAdd
  <2>2. CASE th' = [th EXCEPT ![t].pc = "m_link", ![t].off = offset]
    <3>1. k = [l EXCEPT !.pc = "m_link", !.off = offset] /\ \A u \in Threads \ {t} : th'[u] = th[u]
      BY <2>2 DEF TypeOK
    <3>2. k.pc = "m_link" /\ k.blk = l.blk /\ k.lnk = l.lnk /\ k.ptr = l.ptr /\ k.req = l.req
      BY <1>0, <3>1 DEF Locals
    <3>3. InMalloc(t) /\ pool = PoolBase BY <1>0, <1>9 DEF MallocAdd, At, InMalloc, LinkSound
    <3> QED BY <1>0, <1>9, <3>1, <3>2, <3>3, WalkerLinks DEF MallocAdd, LinkSound
  <2> QED BY <1>9, <2>0, <2>1, <2>2 DEF MallocAdd
<1>10. CASE MallocLink(t)
  <2> DEFINE p == pool + l.off  n == nblocks + 1
  <2>1. CASE status' = "exited" BY <2>1 DEF LinksMade, Running
  <2>2. CASE /\ nblocks < MaxBlocks /\ nblocks' = n /\ head' = n
             /\ mem' = [mem EXCEPT ![n] = NewBlock(t, p)]
             /\ MallocReturn(t, p, l.req)
    <3>1. n \in Blocks /\ n \in 1 .. n /\ 1 .. n = 1 .. nblocks \cup {n}
          /\ 0 .. nblocks \subseteq 0 .. n
      BY <1>0, <2>2, SizesAssumption DEF Blocks
    <3>2. p # 0 BY <1>0, <1>10, SizesAssumption DEF MallocLink, At, LinkSound, InMalloc,
                                                   Locals, Sizes
    <3>3. mem'[n].next = head /\ mem'[n].address = p
      BY <2>2, <3>1 DEF NewBlock, BlockOf, TypeOK
    <3>4. ASSUME NEW b \in 1 .. nblocks PROVE mem'[b] = mem[b]
      <4>1. b \in Blocks /\ b # n BY <1>0, BlocksMade
      <4> QED BY <2>2, <4>1 DEF TypeOK
    <3>5. ASSUME NEW u \in Threads PROVE LinkSound(u)'
      <4>1. CASE u = t BY <2>2, <4>1, MallocReturnLinks
      <4>2. CASE u # t
        <5>1. th'[u] = th[u] BY <2>2, <4>2, MallocReturnLinks
        <5>2. th[u].blk \in 0 .. n /\ th[u].lnk \in 0 .. n
          BY <3>1 DEF LinksMade, LinkSound
        <5> QED BY <1>10, <2>2, <5>1, <5>2
                DEF MallocLink, LinksMade, LinkSound, InMalloc, Pooled
      <4> QED BY <4>1, <4>2
    <3>6. \A b \in 1 .. n : mem'[b].next \in 0 .. n /\ mem'[b].address # 0
      BY <1>0, <3>1, <3>2, <3>3, <3>4 DEF LinksMade
    <3>7. /\ head' \in 0 .. nblocks' /\ freeList' \in 0 .. nblocks'
          /\ onFree' \subseteq 1 .. nblocks'
      BY <1>0, <1>10, <2>2, <3>1 DEF MallocLink, LinksMade
    <3> QED BY <1>10, <2>2, <3>5, <3>6, <3>7 DEF MallocLink, LinksMade
  <2> QED BY <1>10, <2>1, <2>2 DEF MallocLink
<1>11. ASSUME NEW x, x \notin {"m_next", "m_cas", "m_take", "f_clear", "f_push", "f_link", "f_cas"},
              x \notin {"m_init", "m_setup", "m_pop", "m_add", "m_link"},
              NEW b \in 0 .. nblocks,
              Moved(x, b, l.lnk),
              UNCHANGED <<pool, initialized, head, freeList, onFree, nblocks, mem>>
       PROVE  LinksMade'
  <2>1. ~InMalloc(t)' BY <1>11 DEF InMalloc
  <2>2. l.lnk \in 0 .. nblocks BY <1>0 DEF LinkSound
  <2> QED BY <1>11, <2>1, <2>2, WalkerLinks
<1>12. CASE WalkLock(t)
  <2>1. Moved("f_walk", head, l.lnk) \/ Moved("r_walk", head, l.lnk)
    BY <1>0, <1>12 DEF WalkLock, TypeOK, Locals
  <2> QED BY <1>0, <1>11, <1>12, <2>1 DEF WalkLock
<1>13. CASE WalkOn(t)
  <2>1. l.blk \in 1 .. nblocks BY <1>13, HeldBlock DEF WalkOn, WalkEnds, At
  <2>2. mem[l.blk].next \in 0 .. nblocks BY <2>1 DEF LinksMade
  <2>3. l.pc \in {"f_walk", "r_walk"} BY <1>13 DEF WalkOn, At
  <2>4. Moved(l.pc, mem[l.blk].next, l.lnk)
    BY <1>0, <1>13 DEF WalkOn, TypeOK, Locals
  <2> QED BY <1>11, <1>13, <2>2, <2>3, <2>4 DEF WalkOn
<1>14. ASSUME th' = [th EXCEPT ![t] = Idle],
              UNCHANGED <<pool, initialized, head, freeList, onFree, nblocks, mem>>
       PROVE  LinksMade'
  BY <1>14, IdleLinks, LinksLocal DEF TypeOK
<1>15. ASSUME NEW x \in {"f_clear", "f_push", "f_link", "f_cas"}, NEW n \in 0 .. nblocks, l.blk # 0,
              Moved(x, l.blk, n),
              \A b \in 1 .. nblocks :
                mem'[b].next = mem[b].next /\ mem'[b].address = mem[b].address,
              UNCHANGED <<pool, initialized, head, freeList, onFree, nblocks>>
       PROVE  LinksMade'
  <2>1. l.blk \in 0 .. nblocks BY <1>0 DEF LinkSound
  <2>2. ~InMalloc(t)' BY <1>15 DEF InMalloc
  <2> QED BY <1>15, <2>1, <2>2, WalkerLinks
<1>16. CASE FreeFound(t)
  <2>1. CASE Freeable(l.blk)
    <3>1. Moved("f_clear", l.blk, l.lnk) /\ l.blk # 0
      BY <1>0, <1>16, <2>1 DEF FreeFound, Freeable, TypeOK, Locals
    <3> QED BY <1>0, <1>15, <1>16, <3>1 DEF FreeFound, LinkSound
  <2>2. CASE ~Freeable(l.blk)
    <3>1. th' = [th EXCEPT ![t] = Idle] BY <1>16, <2>2 DEF FreeFound
    <3> QED BY <1>14, <1>16, <3>1 DEF FreeFound
  <2> QED BY <2>1, <2>2
<1>17. CASE FreeClear(t)
  <2>1. Moved("f_push", l.blk, l.lnk) /\ l.blk # 0
    BY <1>0, <1>17 DEF FreeClear, At, LinkSound, TypeOK, Locals
  <2>2. \A b \in 1 .. nblocks : mem'[b].next = mem[b].next /\ mem'[b].address = mem[b].address
    BY <1>17, BlocksMade DEF FreeClear, Clear, TypeOK
  <2> QED BY <1>0, <1>15, <1>17, <2>1, <2>2 DEF FreeClear, LinkSound
<1>18. CASE PushLoad(t)
  <2>1. l.blk # 0 BY <1>0, <1>18 DEF PushLoad, At, LinkSound
  <2>2. Moved("f_link", l.blk, freeList) BY <1>0, <1>18 DEF PushLoad, PushReload, TypeOK, Locals
  <2> QED BY <1>0, <1>15, <1>18, <2>1, <2>2 DEF PushLoad
<1>19. CASE PushLink(t)
  <2> DEFINE b == l.blk
  <2>1. b \in 1 .. nblocks /\ b \in Blocks /\ l.lnk \in 0 .. nblocks
    BY <1>0, <1>19, HeldBlock DEF PushLink, At, LinkSound
  <2>2. mem'[b].next = l.lnk /\ mem'[b].address = mem[b].address
    BY <1>19, <2>1 DEF PushLink, TypeOK
  <2>3. \A c \in 1 .. nblocks : c # b => mem'[c] = mem[c]
    BY <1>19, BlocksMade DEF PushLink, TypeOK
  <2>4. \A c \in 1 .. nblocks : mem'[c].next \in 0 .. nblocks /\ mem'[c].address # 0
    BY <2>1, <2>2, <2>3 DEF LinksMade
  <2>5. Moved("f_cas", b, l.lnk)
    BY <1>0, <1>19 DEF PushLink, TypeOK, Locals
  <2>6. b \in 0 .. nblocks BY <1>0 DEF LinkSound
  <2>7. ASSUME NEW u \in Threads PROVE LinkSound(u)'
    <3>1. CASE u = t
      BY <1>0, <1>19, <2>1, <2>5, <2>6, <3>1 DEF PushLink, At, LinkSound, InMalloc
    <3>2. CASE u # t
      BY <1>19, <2>1, <2>5, <2>6, <3>2
         DEF PushLink, LinksMade, LinkSound, InMalloc, Pooled
    <3> QED BY <3>1, <3>2
  <2> QED BY <1>19, <2>4, <2>7 DEF PushLink, LinksMade
<1>20. CASE PushCAS(t)
  <2>1. l.blk # 0 /\ l.blk \in 1 .. nblocks BY <1>20, HeldBlock DEF PushCAS, At
  <2>2. CASE PushReload(t) /\ UNCHANGED <<freeList, onFree>>
    <3>1. Moved("f_link", l.blk, freeList) BY <1>0, <2>2 DEF PushReload, TypeOK, Locals
    <3> QED BY <1>0, <1>15, <1>20, <2>1, <2>2, <3>1 DEF PushCAS
  <2>3. CASE /\ freeList' = l.blk /\ onFree' = onFree \cup {l.blk}
             /\ th' = [th EXCEPT ![t] = Idle]
    <3>1. ASSUME NEW u \in Threads PROVE LinkSound(u)'
      <4>1. CASE u = t BY <2>3, <4>1, IdleLinks DEF TypeOK
      <4>2. CASE u # t
        BY <1>20, <2>3, <4>2 DEF PushCAS, TypeOK, LinksMade, LinkSound, InMalloc, Pooled
      <4> QED BY <4>1, <4>2
    <3>2. freeList' \in 0 .. nblocks BY <1>0, <2>1, <2>3
    <3> QED BY <1>20, <2>1, <2>3, <3>1, <3>2 DEF PushCAS, LinksMade
  <2> QED BY <1>20, <2>2, <2>3 DEF PushCAS
<1>21. CASE ReallocFound(t)
  <2>1. CASE status' = "corrupt" BY <2>1 DEF LinksMade, Running
  <2>2. CASE EnterMalloc(t, l.req)
    BY <1>21, <2>2, EnterMallocLinks, LinksLocal DEF ReallocFound
  <2> QED BY <1>21, <2>1, <2>2 DEF ReallocFound
<1>22. CASE UsageStep(t)
  <2>1. l.blk \in 1 .. nblocks BY <1>22, HeldBlock DEF UsageStep
  <2>2. mem[l.blk].next \in 0 .. nblocks BY <2>1 DEF LinksMade
  <2>3. /\ k.blk = mem[l.blk].next /\ k.pc = "u_walk" /\ k.lnk = l.lnk /\ k.ptr = l.ptr
        /\ \A u \in Threads \ {t} : th'[u] = th[u]
    BY <1>0, <1>22 DEF UsageStep, At, TypeOK, Locals
  <2>4. ~InMalloc(t)' BY <2>3 DEF InMalloc
  <2> QED BY <1>0, <1>22, <2>2, <2>3, <2>4, WalkerLinks DEF UsageStep, LinkSound
<1>23. CASE UsageUnlock(t)
  <2>1. Moved("u_log", l.blk, l.lnk)
    BY <1>0, <1>23 DEF UsageUnlock, TypeOK, Locals
  <2> QED BY <1>0, <1>11, <1>23, <2>1 DEF UsageUnlock, LinkSound
<1>24. CASE UsageLog(t) BY <1>14, <1>24 DEF UsageLog
<1>25. CASE CleanupDelete(t)
  <2>1. l.blk \in 1 .. nblocks BY <1>25, HeldBlock DEF CleanupDelete
  <2>2. mem[l.blk].next \in 0 .. nblocks BY <2>1 DEF LinksMade
  <2>3. Moved("c_walk", mem[l.blk].next, l.lnk)
    BY <1>0, <1>25 DEF CleanupDelete, At, TypeOK, Locals
  <2> QED BY <1>11, <1>25, <2>2, <2>3 DEF CleanupDelete
<1>26. CASE CleanupEnd(t) BY <1>26 DEF CleanupEnd, LinksMade, Running
<1> QED BY <1>2, <1>3, <1>5, <1>6, <1>7, <1>8, <1>9, <1>10, <1>12, <1>13, <1>16, <1>17, <1>18,
           <1>19, <1>20, <1>21, <1>22, <1>23, <1>24, <1>25, <1>26 DEF Step

\* Only a running program moves.
LEMMA CallRuns ==
  ASSUME NEW t \in Threads, Call(t)
  PROVE  Running
BY DEF Call, MallocCall, CallocCall, FreeCall, DoubleFreeCall, ReallocCall, UsageCall,
       CleanupCall, MayCall, At, Running

LEMMA StepRuns ==
  ASSUME NEW t \in Threads, Step(t)
  PROVE  Running
BY DEF Step, InitPool, InitStores, PopLoad, PopReadNext, PopCAS, MallocTake, MallocAdd,
       MallocLink, WalkLock, WalkOn, FreeFound, FreeClear, PushLoad, PushLink, PushCAS,
       ReallocFound, UsageStep, UsageUnlock, UsageLog, CleanupDelete, CleanupEnd, At, Running

\* The types, and with them the links, hold whatever the threads: in particular
\* no client is handed nullptr, or no bytes, as an extent, and no call follows a
\* link to a block that was not made.
THEOREM TypeCorrect == Spec => [](TypeOK /\ LinksMade)
<1>1. Init => TypeOK /\ LinksMade
  <2>1. Init => \A t \in Threads : LinkSound(t) BY DEF Init, Idle, LinkSound, InMalloc
  <2>2. Init => 1 .. nblocks = {} BY DEF Init
  <2> QED BY <2>1, <2>2, InitType DEF Init, LinksMade
<1>2. TypeOK /\ LinksMade /\ [Next]_vars => (TypeOK /\ LinksMade)'
  <2> SUFFICES ASSUME TypeOK, LinksMade, [Next]_vars PROVE TypeOK' /\ LinksMade'
    OBVIOUS
  <2>1. ASSUME NEW t \in Threads, Call(t) PROVE TypeOK' /\ LinksMade'
    BY <2>1, CallRuns, CallTypes, CallLinks
  <2>2. ASSUME NEW t \in Threads, Step(t) PROVE TypeOK' /\ LinksMade'
    BY <2>2, StepRuns, StepTypes, StepLinks
  <2>3. CASE UNCHANGED vars
    <3>1. TypeOK' BY <2>3 DEF vars, memory, arena, client, TypeOK
    <3>2. LinksMade'
      BY <2>3 DEF vars, memory, arena, client, LinksMade, LinkSound, InMalloc, Pooled, Running
    <3> QED BY <3>1, <3>2
  <2> QED BY <2>1, <2>2, <2>3 DEF Next, Stopped
<1> QED BY <1>1, <1>2, PTL DEF Spec

-----------------------------------------------------------------------------
\* Distinct blocks have distinct addresses, all of them in the arena.
LEMMA AddressInjective ==
  ASSUME TypeOK, BlocksTile, NEW b \in 1 .. nblocks, NEW c \in 1 .. nblocks,
         mem[b].address = mem[c].address
  PROVE  b = c
<1>1. /\ b \in Blocks /\ c \in Blocks /\ nblocks \in Nat
  BY BlocksMade, SizesAssumption DEF TypeOK, Links
<1>2. /\ mem[b].address \in Nat /\ mem[c].address \in Nat
      /\ mem[b].size \in Nat /\ mem[c].size \in Nat
  BY <1>1 DEF TypeOK
<1>3. ~(b < c) BY <1>1, <1>2 DEF BlocksTile
<1>4. ~(c < b) BY <1>1, <1>2 DEF BlocksTile
<1> QED BY <1>1, <1>3, <1>4

\* What the invariant looks at, of the memory.
seen == <<pool, initialized, offset, freeList, onFree, nblocks, mem>>

\* A step that leaves this memory and the clients' pooled extents alone, and
\* gives thread t at most an argument nobody else has, keeps the invariant if
\* it keeps it for t.
LEMMA LocalStep ==
  ASSUME TypeOK, IndInv, Running, NEW t \in Threads,
         UNCHANGED seen, PoolHeap' = PoolHeap,
         \A u \in Threads \ {t} : th'[u] = th[u],
         \A u \in Threads \ {t} : th'[t].ptr # 0 => th'[t].ptr # th[u].ptr,
         \A u \in Threads \ {t} :
           th[u].pc = "m_take" => th'[t].ptr # mem[th[u].blk].address,
         CallSound(t)'
  PROVE  IndInv'
<1> USE DEF seen
<1>1. BlocksTile' BY DEF IndInv, BlocksTile
<1>2. FreeListShape' BY DEF IndInv, FreeListShape
<1>3. OwnersExclusive' BY DEF IndInv, OwnersExclusive
<1>4. ArgumentsDistinct' BY DEF IndInv, ArgumentsDistinct
<1>5. Startup' BY DEF IndInv, Startup
<1>6. ASSUME NEW u \in Threads, u # t PROVE CallSound(u)'
  <2>1. MallocSound(u)'
    BY <1>6 DEF IndInv, CallSound, MallocSound, InMalloc, AlignedSize, Pooled
  <2>2. FreeSound(u)' BY <1>6 DEF IndInv, CallSound, FreeSound
  <2>3. ReallocSound(u)'
    BY <1>6 DEF IndInv, CallSound, ReallocSound, InMalloc, AlignedSize, Pooled
  <2> QED BY <2>1, <2>2, <2>3 DEF CallSound
<1> QED BY <1>1, <1>2, <1>3, <1>4, <1>5, <1>6 DEF IndInv

\* The address of a block made is not null.
LEMMA AddressNotNull ==
  ASSUME TypeOK, BlocksTile, NEW b \in 1 .. nblocks
  PROVE  mem[b].address # 0 /\ mem[b].address \in Nat
<1>1. b \in Blocks BY BlocksMade
<1> QED BY <1>1, SizesAssumption DEF BlocksTile, TypeOK

LEMMA LocalStepSameArgument ==
  ASSUME TypeOK, IndInv, Running, NEW t \in Threads,
         UNCHANGED seen, PoolHeap' = PoolHeap,
         \A u \in Threads \ {t} : th'[u] = th[u],
         th'[t].ptr \in {0, th[t].ptr},
         CallSound(t)'
  PROVE  IndInv'
<1>1. \A u \in Threads \ {t} : th'[t].ptr # 0 => th'[t].ptr # th[u].ptr
  BY DEF IndInv, ArgumentsDistinct
<1>2. ASSUME NEW u \in Threads \ {t}, th[u].pc = "m_take"
      PROVE  th'[t].ptr # mem[th[u].blk].address
  <2>1. th[u].blk \in 1 .. nblocks /\ th[t].ptr # mem[th[u].blk].address
    BY <1>2 DEF IndInv, CallSound, MallocSound
  <2> QED BY <2>1, AddressNotNull DEF IndInv
<1> QED BY <1>1, <1>2, LocalStep

\* The steps that change nothing but their thread.
LEMMA IdleSound ==
  ASSUME NEW t \in Threads, th'[t] = Idle
  PROVE  CallSound(t)'
BY DEF Idle, CallSound, MallocSound, FreeSound, ReallocSound, InMalloc

LEMMA PopReloadSound ==
  ASSUME TypeOK, IndInv, Running, NEW t \in Threads, th[t].pc \in {"m_pop", "m_cas"},
         PopReload(t), UNCHANGED seen, PoolHeap' = PoolHeap
  PROVE  IndInv'
<1> DEFINE l == th[t]  k == th'[t]
<1>1. k = [l EXCEPT !.blk = freeList, !.pc = IF freeList = 0 THEN "m_add" ELSE "m_next"]
  BY DEF PopReload, TypeOK
<1>2. l \in Locals BY DEF TypeOK
<1>3. /\ k.req = l.req /\ k.ptr = l.ptr /\ k.blk = freeList
      /\ k.pc = IF freeList = 0 THEN "m_add" ELSE "m_next"
  BY <1>1, <1>2 DEF Locals
<1>4. MallocSound(t)'
  BY <1>3 DEF IndInv, CallSound, MallocSound, InMalloc, FreeListShape, AlignedSize, Pooled, seen
<1>5. FreeSound(t)' BY <1>3 DEF FreeSound
<1>6. ReallocSound(t)'
  BY <1>3 DEF IndInv, CallSound, ReallocSound, InMalloc
<1>7. \A u \in Threads \ {t} : th'[u] = th[u] BY DEF PopReload, TypeOK
<1> QED BY <1>3, <1>4, <1>5, <1>6, <1>7, LocalStepSameArgument DEF CallSound

LEMMA PopLoadInv ==
  ASSUME TypeOK, IndInv, NEW t \in Threads, PopLoad(t)
  PROVE  IndInv'
BY PopReloadSound DEF PopLoad, At, Running, memory, arena, client, seen, PoolHeap, InPool

\* The link read is the link of a block that only this thread can pop.
LEMMA PopReadNextInv ==
  ASSUME TypeOK, IndInv, NEW t \in Threads, PopReadNext(t)
  PROVE  IndInv'
<1> USE DEF memory, arena, client
<1> DEFINE l == th[t]  k == th'[t]
<1>1. Running /\ l \in Locals BY DEF PopReadNext, At, Running, TypeOK
<1>2. k = [l EXCEPT !.pc = "m_cas", !.lnk = mem[l.blk].next] BY <1>1 DEF PopReadNext, TypeOK
<1>3. k.pc = "m_cas" /\ k.req = l.req /\ k.ptr = l.ptr /\ k.blk = l.blk /\ k.lnk = mem[l.blk].next
  BY <1>1, <1>2 DEF Locals
<1>4. UNCHANGED seen /\ PoolHeap' = PoolHeap BY DEF PopReadNext, seen, PoolHeap, InPool
<1>5. MallocSound(t)' 
  BY <1>1, <1>3, <1>4 DEF PopReadNext, At, IndInv, CallSound, MallocSound, InMalloc, AlignedSize, Pooled, seen
<1>6. FreeSound(t)' BY <1>3 DEF FreeSound
<1>7. ReallocSound(t)' BY <1>1, <1>3, <1>4 DEF PopReadNext, At, IndInv, CallSound, ReallocSound, InMalloc
<1>8. \A u \in Threads \ {t} : th'[u] = th[u] BY DEF PopReadNext, TypeOK
<1> QED BY <1>1, <1>3, <1>4, <1>5, <1>6, <1>7, <1>8, LocalStepSameArgument DEF CallSound

\* The load of a push.
LEMMA PushLoadInv ==
  ASSUME TypeOK, IndInv, NEW t \in Threads, PushLoad(t)
  PROVE  IndInv'
<1> USE DEF memory, arena, client
<1> DEFINE l == th[t]  k == th'[t]
<1>1. Running /\ l \in Locals BY DEF PushLoad, At, Running, TypeOK
<1>2. k = [l EXCEPT !.pc = "f_link", !.lnk = freeList] BY <1>1 DEF PushLoad, PushReload, TypeOK
<1>3. k.pc = "f_link" /\ k.ptr = l.ptr /\ k.blk = l.blk
  BY <1>1, <1>2 DEF Locals
<1>4. UNCHANGED seen /\ PoolHeap' = PoolHeap BY DEF PushLoad, seen, PoolHeap, InPool
<1>5. MallocSound(t)' BY <1>3 DEF MallocSound, InMalloc
<1>6. FreeSound(t)' BY <1>1, <1>3, <1>4 DEF PushLoad, At, IndInv, CallSound, FreeSound, seen
<1>7. ReallocSound(t)' BY <1>3 DEF ReallocSound, InMalloc
<1>8. \A u \in Threads \ {t} : th'[u] = th[u] BY DEF PushLoad, PushReload, TypeOK
<1> QED BY <1>1, <1>3, <1>4, <1>5, <1>6, <1>7, <1>8, LocalStepSameArgument DEF CallSound

\* A walk does not depend on where it is.
LEMMA WalkOnInv ==
  ASSUME TypeOK, IndInv, NEW t \in Threads, WalkOn(t)
  PROVE  IndInv'
<1> USE DEF memory, arena, client
<1> DEFINE l == th[t]  k == th'[t]
<1>1. Running /\ l \in Locals BY DEF WalkOn, At, Running, TypeOK
<1>2. k = [l EXCEPT !.blk = mem[l.blk].next] BY <1>1 DEF WalkOn, TypeOK
<1>3. k.pc = l.pc /\ k.req = l.req /\ k.ptr = l.ptr
  BY <1>1, <1>2 DEF Locals
<1>4. UNCHANGED seen /\ PoolHeap' = PoolHeap BY DEF WalkOn, seen, PoolHeap, InPool
<1>5. MallocSound(t)' BY <1>3 DEF WalkOn, At, MallocSound, InMalloc
<1>6. FreeSound(t)' BY <1>1, <1>3, <1>4 DEF WalkOn, At, IndInv, CallSound, FreeSound, seen
<1>7. ReallocSound(t)' BY <1>1, <1>3, <1>4 DEF WalkOn, At, IndInv, CallSound, ReallocSound, InMalloc, AlignedSize, Pooled, seen
<1>8. \A u \in Threads \ {t} : th'[u] = th[u] BY DEF WalkOn, TypeOK
<1> QED BY <1>1, <1>3, <1>4, <1>5, <1>6, <1>7, <1>8, LocalStepSameArgument DEF CallSound

\* DebugMemoryUsage only reads.
LEMMA UsageStepInv ==
  ASSUME TypeOK, IndInv, NEW t \in Threads, UsageStep(t)
  PROVE  IndInv'
<1> USE DEF memory, arena, client
<1> DEFINE l == th[t]  k == th'[t]
<1>1. Running /\ l \in Locals BY DEF UsageStep, At, Running, TypeOK
<1>3. k.pc = "u_walk" /\ k.ptr = l.ptr
  BY <1>1 DEF Locals, UsageStep, At, TypeOK
<1>4. UNCHANGED seen /\ PoolHeap' = PoolHeap BY DEF UsageStep, seen, PoolHeap, InPool
<1>5. MallocSound(t)' BY <1>3 DEF MallocSound, InMalloc
<1>6. FreeSound(t)' BY <1>3 DEF FreeSound
<1>7. ReallocSound(t)'
  BY <1>1, <1>3 DEF UsageStep, At, MayCall, IndInv, CallSound, ReallocSound, InMalloc
<1>8. \A u \in Threads \ {t} : th'[u] = th[u] BY DEF UsageStep, TypeOK
<1> QED BY <1>1, <1>3, <1>4, <1>5, <1>6, <1>7, <1>8, LocalStepSameArgument DEF CallSound

LEMMA UsageUnlockInv ==
  ASSUME TypeOK, IndInv, NEW t \in Threads, UsageUnlock(t)
  PROVE  IndInv'
<1> USE DEF memory, arena, client
<1> DEFINE l == th[t]  k == th'[t]
<1>1. Running /\ l \in Locals BY DEF UsageUnlock, At, Running, TypeOK
<1>2. k = [l EXCEPT !.pc = "u_log"] BY <1>1 DEF UsageUnlock, TypeOK
<1>3. k.pc = "u_log" /\ k.ptr = l.ptr
  BY <1>1, <1>2 DEF Locals
<1>4. UNCHANGED seen /\ PoolHeap' = PoolHeap BY DEF UsageUnlock, seen, PoolHeap, InPool
<1>5. MallocSound(t)' BY <1>3 DEF MallocSound, InMalloc
<1>6. FreeSound(t)' BY <1>3 DEF FreeSound
<1>7. ReallocSound(t)'
  BY <1>1, <1>3 DEF UsageUnlock, At, MayCall, IndInv, CallSound, ReallocSound, InMalloc
<1>8. \A u \in Threads \ {t} : th'[u] = th[u] BY DEF UsageUnlock, TypeOK
<1> QED BY <1>1, <1>3, <1>4, <1>5, <1>6, <1>7, <1>8, LocalStepSameArgument DEF CallSound

LEMMA UsageCallInv ==
  ASSUME TypeOK, IndInv, NEW t \in Threads, UsageCall(t)
  PROVE  IndInv'
<1> USE DEF memory, arena, client
<1> DEFINE l == th[t]  k == th'[t]
<1>1. Running /\ l \in Locals BY DEF UsageCall, MayCall, At, Running, TypeOK
<1>2. k = [l EXCEPT !.pc = "u_walk", !.blk = head] BY <1>1 DEF UsageCall, TypeOK
<1>3. k.pc = "u_walk" /\ k.ptr = l.ptr
  BY <1>1, <1>2 DEF Locals
<1>4. UNCHANGED seen /\ PoolHeap' = PoolHeap BY DEF UsageCall, seen, PoolHeap, InPool
<1>5. MallocSound(t)' BY <1>3 DEF MallocSound, InMalloc
<1>6. FreeSound(t)' BY <1>3 DEF FreeSound
<1>7. ReallocSound(t)'
  BY <1>1, <1>3 DEF UsageCall, At, MayCall, IndInv, CallSound, ReallocSound, InMalloc
<1>8. \A u \in Threads \ {t} : th'[u] = th[u] BY DEF UsageCall, TypeOK
<1> QED BY <1>1, <1>3, <1>4, <1>5, <1>6, <1>7, <1>8, LocalStepSameArgument DEF CallSound

LEMMA CleanupCallInv ==
  ASSUME TypeOK, IndInv, NEW t \in Threads, CleanupCall(t)
  PROVE  IndInv'
<1> USE DEF memory, arena, client
<1> DEFINE l == th[t]  k == th'[t]
<1>1. Running /\ l \in Locals BY DEF CleanupCall, At, Running, TypeOK
<1>2. k = [l EXCEPT !.pc = "c_walk", !.blk = head] BY <1>1 DEF CleanupCall, TypeOK
<1>3. k.pc = "c_walk" /\ k.ptr = l.ptr
  BY <1>1, <1>2 DEF Locals
<1>4. UNCHANGED seen /\ PoolHeap' = PoolHeap BY DEF CleanupCall, seen, PoolHeap, InPool
<1>5. MallocSound(t)' BY <1>3 DEF MallocSound, InMalloc
<1>6. FreeSound(t)' BY <1>3 DEF FreeSound
<1>7. ReallocSound(t)'
  BY <1>1, <1>3 DEF CleanupCall, At, MayCall, IndInv, CallSound, ReallocSound, InMalloc
<1>8. \A u \in Threads \ {t} : th'[u] = th[u] BY DEF CleanupCall, TypeOK
<1> QED BY <1>1, <1>3, <1>4, <1>5, <1>6, <1>7, <1>8, LocalStepSameArgument DEF CallSound

\* CleanupMemoryPool leaves the blocks' memory readable to the end.
LEMMA CleanupDeleteInv ==
  ASSUME TypeOK, IndInv, NEW t \in Threads, CleanupDelete(t)
  PROVE  IndInv'
<1> USE DEF memory, arena, client
<1> DEFINE l == th[t]  k == th'[t]
<1>1. Running /\ l \in Locals BY DEF CleanupDelete, At, Running, TypeOK
<1>2. k = [l EXCEPT !.blk = mem[l.blk].next] BY <1>1 DEF CleanupDelete, TypeOK
<1>3. k.pc = "c_walk" /\ k.ptr = l.ptr
  BY <1>1, <1>2 DEF Locals, CleanupDelete, At
<1>4. UNCHANGED seen /\ PoolHeap' = PoolHeap BY DEF CleanupDelete, seen, PoolHeap, InPool
<1>5. MallocSound(t)' BY <1>3 DEF MallocSound, InMalloc
<1>6. FreeSound(t)' BY <1>3 DEF FreeSound
<1>7. ReallocSound(t)'
  BY <1>1, <1>3 DEF CleanupDelete, At, MayCall, IndInv, CallSound, ReallocSound, InMalloc
<1>8. \A u \in Threads \ {t} : th'[u] = th[u] BY DEF CleanupDelete, TypeOK
<1> QED BY <1>1, <1>3, <1>4, <1>5, <1>6, <1>7, <1>8, LocalStepSameArgument DEF CallSound

\* The walk is entered with the argument it looks for, and left with its block.
LEMMA WalkLockInv ==
  ASSUME TypeOK, IndInv, NEW t \in Threads, WalkLock(t)
  PROVE  IndInv'
<1> DEFINE l == th[t]  k == th'[t]
<1>1. Running /\ l \in Locals BY DEF WalkLock, At, Running, TypeOK
<1>2. /\ \/ l.pc = "f_lock" /\ k.pc = "f_walk"
         \/ l.pc = "r_lock" /\ k.pc = "r_walk"
      /\ k.req = l.req /\ k.ptr = l.ptr
  BY <1>1 DEF WalkLock, At, Locals, TypeOK
<1>3. UNCHANGED seen /\ PoolHeap' = PoolHeap
  BY DEF WalkLock, seen, PoolHeap, InPool, arena, client
<1>4. MallocSound(t)' BY <1>2 DEF MallocSound, InMalloc
<1>5. FreeSound(t)' BY <1>1, <1>2, <1>3 DEF IndInv, CallSound, FreeSound, seen
<1>6. ReallocSound(t)'
  BY <1>1, <1>2, <1>3 DEF IndInv, CallSound, ReallocSound, InMalloc, AlignedSize, Pooled, seen
<1>7. \A u \in Threads \ {t} : th'[u] = th[u] BY DEF WalkLock, TypeOK
<1> QED BY <1>1, <1>2, <1>3, <1>4, <1>5, <1>6, <1>7, LocalStepSameArgument DEF CallSound

LEMMA FreeFoundInv ==
  ASSUME TypeOK, IndInv, NEW t \in Threads, FreeFound(t)
  PROVE  IndInv'
<1> DEFINE l == th[t]  k == th'[t]  b == l.blk
<1>1. Running /\ l \in Locals /\ l.pc = "f_walk" BY DEF FreeFound, At, Running, TypeOK
<1>2. UNCHANGED seen /\ PoolHeap' = PoolHeap
  BY DEF FreeFound, seen, PoolHeap, InPool, arena, client
<1>3. \A u \in Threads \ {t} : th'[u] = th[u] BY DEF FreeFound, TypeOK
<1>4. CASE ~Freeable(b)
  <2>1. k = Idle BY <1>4 DEF FreeFound, TypeOK
  <2>2. k.ptr = 0 BY <2>1 DEF Idle
  <2> QED BY <1>1, <1>2, <1>3, <2>1, <2>2, IdleSound, LocalStepSameArgument
<1>5. CASE Freeable(b)
  <2>1. k = [l EXCEPT !.pc = "f_clear"] BY <1>5 DEF FreeFound, TypeOK
  <2>2. k.pc = "f_clear" /\ k.ptr = l.ptr /\ k.blk = b BY <1>1, <2>1 DEF Locals
  <2>3. b # 0 /\ mem[b].used /\ mem[b].address = l.ptr
    BY <1>5 DEF FreeFound, WalkEnds, Freeable
  <2>4. b \in Blocks BY <1>1, <2>3 DEF Locals, Links, Blocks
  <2>5. \E c \in 1 .. nblocks : mem[c].address = l.ptr
    BY <1>1 DEF IndInv, CallSound, FreeSound
  <2>6. l.ptr # 0 BY <1>1, <2>5, AddressNotNull DEF IndInv
  <2>7. nblocks \in Nat BY SizesAssumption DEF TypeOK, Links
  <2>8. b \in 1 .. nblocks
    BY <1>1, <2>3, <2>4, <2>6, <2>7 DEF IndInv, BlocksTile, Blocks
  <2>9. FreeSound(t)'
    BY <1>1, <1>2, <2>2, <2>3, <2>8 DEF IndInv, CallSound, FreeSound, seen
  <2>10. MallocSound(t)' /\ ReallocSound(t)'
    BY <2>2 DEF MallocSound, ReallocSound, InMalloc
  <2> QED BY <1>1, <1>2, <1>3, <2>2, <2>9, <2>10, LocalStepSameArgument DEF CallSound
<1> QED BY <1>4, <1>5

LEMMA UsageLogInv ==
  ASSUME TypeOK, IndInv, NEW t \in Threads, UsageLog(t)
  PROVE  IndInv'
<1>1. Running BY DEF UsageLog, At, Running
<1>2. UNCHANGED seen /\ PoolHeap' = PoolHeap
  BY DEF UsageLog, seen, PoolHeap, InPool, arena, memory, client
<1>3. th'[t] = Idle /\ \A u \in Threads \ {t} : th'[u] = th[u] BY DEF UsageLog, TypeOK
<1>4. th'[t].ptr = 0 BY <1>3 DEF Idle
<1> QED BY <1>1, <1>2, <1>3, <1>4, IdleSound, LocalStepSameArgument

\* InitMemoryPool: nothing has been made before `initialized' is set.
LEMMA InitPoolInv ==
  ASSUME TypeOK, IndInv, NEW t \in Threads, InitPool(t), SinglePopper
  PROVE  IndInv'
<1> DEFINE l == th[t]  k == th'[t]
<1>1. Running /\ l \in Locals /\ l.pc = "m_init" BY DEF InitPool, At, Running, TypeOK
<1>2. t \in Allocators /\ Pooled(l.req)
  BY <1>1 DEF IndInv, CallSound, MallocSound, InMalloc
<1>3. PoolHeap' = PoolHeap BY DEF InitPool, PoolHeap, InPool
<1>4. CASE initialized /\ th' = [th EXCEPT ![t].pc = "m_pop"] /\ UNCHANGED <<pool, status>>
  <2>1. k.pc = "m_pop" /\ k.req = l.req /\ k.ptr = l.ptr BY <1>1, <1>4 DEF TypeOK, Locals
  <2>2. UNCHANGED seen BY <1>4 DEF InitPool, seen
  <2>3. pool = PoolBase BY <1>1, <1>4 DEF IndInv, Startup
  <2>4. MallocSound(t)'
    BY <1>2, <1>4, <2>1, <2>2, <2>3 DEF MallocSound, InMalloc, AlignedSize, Pooled, seen
  <2>5. FreeSound(t)' BY <2>1 DEF FreeSound
  <2>6. ReallocSound(t)'
    BY <1>1, <1>3, <2>1, <2>2 DEF IndInv, CallSound, ReallocSound, InMalloc
  <2>7. \A u \in Threads \ {t} : th'[u] = th[u] BY <1>4 DEF TypeOK
  <2> QED BY <1>1, <1>3, <2>1, <2>2, <2>4, <2>5, <2>6, <2>7, LocalStepSameArgument DEF CallSound
<1>5. CASE ~initialized /\ th' = [th EXCEPT ![t].pc = "m_setup"] /\ pool' = PoolBase /\ UNCHANGED status
  <2>1. k.pc = "m_setup" /\ k.req = l.req /\ k.ptr = l.ptr BY <1>1, <1>5 DEF TypeOK, Locals
  <2>2. UNCHANGED <<initialized, offset, freeList, onFree, nblocks, mem>> BY DEF InitPool
  <2>3. nblocks = 0 /\ onFree = {} BY <1>1, <1>5 DEF IndInv, Startup
  <2>4. BlocksTile' BY <1>1, <2>2, <2>3 DEF IndInv, BlocksTile
  <2>5. FreeListShape' BY <1>1, <2>2, <2>3 DEF IndInv, FreeListShape
  <2>6. OwnersExclusive' BY <1>1, <1>3, <2>2 DEF IndInv, OwnersExclusive
  <2>7. ArgumentsDistinct'
    BY <1>1, <1>5, <2>1 DEF IndInv, ArgumentsDistinct, TypeOK
  <2>8. Startup' BY <1>1, <1>5, <2>2 DEF IndInv, Startup
  <2>9. CallSound(t)'
    <3>1. MallocSound(t)'
      BY <1>2, <1>5, <2>1, <2>2 DEF MallocSound, InMalloc, AlignedSize, Pooled
    <3>2. FreeSound(t)' BY <2>1 DEF FreeSound
    <3>3. ReallocSound(t)' BY <1>1, <1>3, <2>1 DEF IndInv, CallSound, ReallocSound, InMalloc
    <3> QED BY <3>1, <3>2, <3>3 DEF CallSound
  <2>10. ASSUME NEW u \in Threads, u # t PROVE CallSound(u)'
    <3>1. th'[u] = th[u] BY <1>5, <2>10 DEF TypeOK
    <3>2. u \notin Allocators BY <1>2, <2>10 DEF SinglePopper
    <3>3. MallocSound(u)' BY <1>1, <3>1, <3>2 DEF IndInv, CallSound, MallocSound, InMalloc
    <3>4. FreeSound(u)' BY <1>1, <1>3, <2>2, <3>1 DEF IndInv, CallSound, FreeSound
    <3>5. ReallocSound(u)'
      BY <1>1, <1>3, <3>1, <3>2 DEF IndInv, CallSound, MallocSound, ReallocSound, InMalloc
    <3> QED BY <3>3, <3>4, <3>5 DEF CallSound
  <2> QED BY <2>4, <2>5, <2>6, <2>7, <2>8, <2>9, <2>10 DEF IndInv
<1>6. CASE status' = "exited" BY <1>6 DEF IndInv, Running
<1> QED BY <1>4, <1>5, <1>6 DEF InitPool

\* While the only popping thread is in CustomMalloc or CustomRealloc, no other is.
LEMMA OthersNotAllocating ==
  ASSUME TypeOK, IndInv, Running, SinglePopper, NEW t \in Allocators,
         NEW u \in Threads, u # t
  PROVE  /\ ~InMalloc(u) /\ th[u].pc \notin {"r_lock", "r_walk"} /\ u \notin Allocators
         /\ MallocSound(u)
<1>1. u \notin Allocators BY DEF SinglePopper
<1> QED BY <1>1 DEF IndInv, CallSound, MallocSound, ReallocSound

LEMMA InitStoresInv ==
  ASSUME TypeOK, IndInv, NEW t \in Threads, InitStores(t), SinglePopper
  PROVE  IndInv'
<1> DEFINE l == th[t]  k == th'[t]
<1>1. Running /\ l \in Locals /\ l.pc = "m_setup" /\ Running'
  BY DEF InitStores, At, Running, TypeOK, client
<1>2. t \in Allocators /\ Pooled(l.req)
      /\ ~initialized /\ pool = PoolBase
  BY <1>1 DEF IndInv, CallSound, MallocSound, InMalloc
<1>3. PoolHeap' = PoolHeap BY DEF InitStores, PoolHeap, InPool, client
<1>4. nblocks = 0 /\ onFree = {} /\ offset = 0 /\ freeList = 0
  BY <1>1, <1>2 DEF IndInv, Startup, FreeListShape
<1>5. UNCHANGED <<pool, offset, freeList, onFree, nblocks, mem>> /\ initialized'
  BY <1>4 DEF InitStores
<1>6. k.pc = "m_pop" /\ k.req = l.req /\ k.ptr = l.ptr
  BY <1>1 DEF InitStores, TypeOK, Locals
<1>7. BlocksTile' BY <1>1, <1>4, <1>5 DEF IndInv, BlocksTile
<1>8. FreeListShape' BY <1>1, <1>5 DEF IndInv, FreeListShape
<1>9. OwnersExclusive' BY <1>1, <1>3, <1>5 DEF IndInv, OwnersExclusive
<1>10. ArgumentsDistinct' BY <1>1, <1>6 DEF InitStores, IndInv, ArgumentsDistinct, TypeOK
<1>11. Startup' BY <1>2, <1>5 DEF Startup
<1>12. CallSound(t)'
  <2>1. MallocSound(t)' BY <1>2, <1>5, <1>6 DEF MallocSound, InMalloc, AlignedSize, Pooled
  <2>2. FreeSound(t)' BY <1>6 DEF FreeSound
  <2>3. ReallocSound(t)' BY <1>1, <1>3, <1>6 DEF IndInv, CallSound, ReallocSound, InMalloc
  <2> QED BY <2>1, <2>2, <2>3 DEF CallSound
<1>13. ASSUME NEW u \in Threads, u # t PROVE CallSound(u)'
  <2>1. th'[u] = th[u] BY <1>13 DEF InitStores, TypeOK
  <2>2. ~InMalloc(u) /\ th[u].pc \notin {"r_lock", "r_walk"}
    BY <1>1, <1>2, <1>13, OthersNotAllocating
  <2>3. MallocSound(u)' BY <2>1, <2>2 DEF MallocSound, InMalloc
  <2>4. FreeSound(u)' BY <1>1, <1>3, <1>5, <2>1 DEF IndInv, CallSound, FreeSound
  <2>5. ReallocSound(u)'
    BY <1>1, <1>3, <2>1, <2>2 DEF IndInv, CallSound, ReallocSound, InMalloc
  <2> QED BY <2>3, <2>4, <2>5 DEF CallSound
<1> QED BY <1>7, <1>8, <1>9, <1>10, <1>11, <1>12, <1>13 DEF IndInv

\* The block a call's argument names is in use, or the call is freeing it, or it
\* is the popping thread freeing it a second time.
LEMMA ArgumentBlock ==
  ASSUME TypeOK, IndInv, Running, NEW u \in Threads, th[u].ptr # 0
  PROVE  \E c \in 1 .. nblocks :
           /\ mem[c].address = th[u].ptr
           /\ \/ mem[c].used
              \/ /\ c \in onFree /\ u \in Allocators
                 /\ th[u].pc \in {"f_lock", "f_walk"}
              \/ /\ c \notin onFree /\ c = th[u].blk
                 /\ th[u].pc \in {"f_push", "f_link", "f_cas"}
<1> DEFINE l == th[u]
<1>1. l.pc \in Labels BY DEF TypeOK, Locals
<1>2. OwnersExclusive /\ MallocSound(u) /\ FreeSound(u) /\ ReallocSound(u) BY DEF IndInv, CallSound
<1>3. CASE InMalloc(u) \/ l.pc \in {"r_lock", "r_walk"}
  <2>1. PICK e \in PoolHeap : e.addr = l.ptr BY <1>2, <1>3 DEF ReallocSound
  <2> QED BY <1>2, <2>1 DEF OwnersExclusive
<1>4. CASE l.pc \in {"f_lock", "f_walk"} BY <1>2, <1>4 DEF FreeSound
<1>5. CASE l.pc = "f_clear" BY <1>2, <1>5 DEF FreeSound
<1>6. CASE l.pc \in {"f_push", "f_link", "f_cas"} BY <1>2, <1>6 DEF FreeSound
<1>7. CASE l.pc \in {"idle", "u_walk", "u_log", "c_walk"} BY <1>2, <1>7 DEF ReallocSound
<1> QED BY <1>1, <1>3, <1>4, <1>5, <1>6, <1>7 DEF Labels, InMalloc

\* The exchange of a pop takes the top block off and leaves a list: the link it
\* installs is the one the top block has now, because a block on the list is
\* not linked anew and only this thread takes blocks away.
LEMMA PopCASInv ==
  ASSUME TypeOK, IndInv, NEW t \in Threads, PopCAS(t), SinglePopper
  PROVE  IndInv'
<1> USE DEF arena, client
<1> DEFINE l == th[t]  k == th'[t]  b == l.blk
<1>1. Running /\ l \in Locals /\ l.pc = "m_cas" /\ Running'
  BY DEF PopCAS, At, Running, TypeOK
<1>2. /\ t \in Allocators /\ Pooled(l.req)
      /\ initialized /\ pool = PoolBase /\ b \in onFree /\ l.lnk = mem[b].next
  BY <1>1 DEF IndInv, CallSound, MallocSound, InMalloc
<1>3. PoolHeap' = PoolHeap BY DEF PopCAS, PoolHeap, InPool
<1>4. CASE ~PopWins(t)
  BY <1>1, <1>3, <1>4, PopReloadSound DEF PopCAS, seen
<1>5. CASE PopWins(t)
  <2>1. /\ freeList = b /\ freeList' = l.lnk /\ onFree' = onFree \ {b}
        /\ th' = [th EXCEPT ![t].pc = "m_take", ![t].lnk = 0]
    BY <1>5 DEF PopCAS, PopWins
  <2>2. UNCHANGED <<pool, initialized, offset, nblocks, mem>> BY DEF PopCAS
  <2>3. k.pc = "m_take" /\ k.req = l.req /\ k.ptr = l.ptr /\ k.blk = b
    BY <1>1, <2>1 DEF TypeOK, Locals
  <2>4. BlocksTile' BY <1>1, <2>2 DEF IndInv, BlocksTile
  <2>5. FreeListShape'
    <3>1. FreeListShape BY <1>1 DEF IndInv
    <3>2. \A c \in onFree : mem[c].next # 0 => mem[c].next # b
      BY <2>1, <3>1 DEF FreeListShape
    <3>3. freeList' \in onFree' \cup {0} BY <1>2, <2>1, <3>1, <3>2 DEF FreeListShape
    <3>4. \A c \in onFree' : mem[c].next \in onFree' \cup {0}
      BY <2>1, <3>1, <3>2 DEF FreeListShape
    <3>5. \A c \in onFree' : mem[c].next # 0 => mem[c].next # freeList'
      BY <1>2, <2>1, <3>1 DEF FreeListShape
    <3> QED BY <2>1, <2>2, <3>1, <3>3, <3>4, <3>5 DEF FreeListShape
  <2>6. OwnersExclusive' BY <1>1, <1>3, <2>2 DEF IndInv, OwnersExclusive
  <2>7. ArgumentsDistinct' BY <1>1, <2>1, <2>3 DEF IndInv, ArgumentsDistinct, TypeOK
  <2>8. Startup' BY <1>1, <2>1, <2>2 DEF IndInv, Startup
  <2>9. b \in 1 .. nblocks /\ ~mem[b].used BY <1>1, <1>2 DEF IndInv, FreeListShape
  <2>10. ASSUME NEW u \in Threads PROVE th[u].ptr # mem[b].address
    <3> SUFFICES ASSUME th[u].ptr = mem[b].address PROVE FALSE OBVIOUS
    <3>1. BlocksTile /\ th[u].ptr # 0 BY <1>1, <2>9, AddressNotNull DEF IndInv
    <3>2. PICK c \in 1 .. nblocks :
            /\ mem[c].address = th[u].ptr
            /\ \/ mem[c].used
               \/ /\ c \in onFree /\ u \in Allocators
                  /\ th[u].pc \in {"f_lock", "f_walk"}
               \/ /\ c \notin onFree /\ c = th[u].blk
                  /\ th[u].pc \in {"f_push", "f_link", "f_cas"}
      BY <1>1, <3>1, ArgumentBlock
    <3>3. c = b BY <2>9, <3>1, <3>2, AddressInjective
    <3>4. u = t BY <1>2, <2>9, <3>2, <3>3 DEF SinglePopper
    <3> QED BY <1>1, <1>2, <2>9, <3>2, <3>3, <3>4
  <2>11. CallSound(t)'
    <3>1. MallocSound(t)'
      <4>1. \A u \in Threads : th'[u].ptr # mem'[b].address
        BY <2>1, <2>2, <2>3, <2>10 DEF TypeOK
      <4>2. k.blk \in (1 .. nblocks') \ onFree' /\ ~mem'[k.blk].used
        BY <2>1, <2>2, <2>3, <2>9
      <4>3. Pooled(k.req)
        BY <1>2, <2>2, <2>3
      <4>4. initialized' /\ pool' = PoolBase BY <1>2, <2>2
      <4> QED BY <1>2, <2>3, <4>1, <4>2, <4>3, <4>4 DEF MallocSound, InMalloc, Pooled, AlignedSize
    <3>2. FreeSound(t)' BY <2>3 DEF FreeSound
    <3>3. ReallocSound(t)' BY <1>1, <1>3, <2>3 DEF IndInv, CallSound, ReallocSound, InMalloc
    <3> QED BY <3>1, <3>2, <3>3 DEF CallSound
  <2>12. ASSUME NEW u \in Threads, u # t PROVE CallSound(u)'
    <3>1. th'[u] = th[u] BY <2>1, <2>12 DEF TypeOK
    <3>2. ~InMalloc(u) /\ th[u].pc \notin {"r_lock", "r_walk"} /\ u \notin Allocators
      BY <1>1, <1>2, <2>12, OthersNotAllocating
    <3>3. MallocSound(u)' BY <3>1, <3>2 DEF MallocSound, InMalloc
    <3>4. FreeSound(u)'
      <4>1. FreeSound(u) BY <1>1 DEF IndInv, CallSound
      <4>2. onFree' \subseteq onFree BY <2>1
      <4> QED BY <1>3, <2>2, <3>1, <3>2, <4>1, <4>2 DEF FreeSound
    <3>5. ReallocSound(u)'
      BY <1>1, <1>3, <3>1, <3>2 DEF IndInv, CallSound, ReallocSound, InMalloc
    <3> QED BY <3>3, <3>4, <3>5 DEF CallSound
  <2> QED BY <1>1, <2>4, <2>5, <2>6, <2>7, <2>8, <2>11, <2>12 DEF IndInv
<1> QED BY <1>4, <1>5

\* Nothing the invariant looks at changes.
LEMMA Unmoved ==
  ASSUME TypeOK, IndInv, Running, UNCHANGED <<seen, th>>, PoolHeap' = PoolHeap
  PROVE  IndInv'
<1> USE DEF seen
<1>1. BlocksTile' BY DEF IndInv, BlocksTile
<1>2. FreeListShape' BY DEF IndInv, FreeListShape
<1>3. OwnersExclusive' BY DEF IndInv, OwnersExclusive
<1>4. ArgumentsDistinct' /\ Startup' BY DEF IndInv, ArgumentsDistinct, Startup
<1>5. ASSUME NEW u \in Threads PROVE CallSound(u)'
  <2>1. MallocSound(u)' BY DEF IndInv, CallSound, MallocSound, InMalloc, AlignedSize, Pooled
  <2>2. FreeSound(u)' BY DEF IndInv, CallSound, FreeSound
  <2>3. ReallocSound(u)'
    BY DEF IndInv, CallSound, ReallocSound, InMalloc, AlignedSize, Pooled
  <2> QED BY <2>1, <2>2, <2>3 DEF CallSound
<1> QED BY <1>1, <1>2, <1>3, <1>4, <1>5 DEF IndInv

\* An owned extent is the memory of a used block; no pop has taken that block.
LEMMA OwnedBlock ==
  ASSUME TypeOK, IndInv, Running, NEW g \in PoolHeap
  PROVE  /\ \E c \in 1 .. nblocks : mem[c].address = g.addr /\ mem[c].used
         /\ initialized /\ pool = PoolBase
         /\ \A u \in Threads : th[u].pc = "m_take" => g.addr # mem[th[u].blk].address
<1>1. PICK c \in 1 .. nblocks : mem[c].address = g.addr /\ mem[c].used
  BY DEF IndInv, OwnersExclusive
<1>2. initialized /\ pool = PoolBase BY <1>1 DEF IndInv, BlocksTile
<1>3. ASSUME NEW u \in Threads, th[u].pc = "m_take" PROVE g.addr # mem[th[u].blk].address
  <2>1. th[u].blk \in 1 .. nblocks /\ ~mem[th[u].blk].used
    BY <1>3 DEF IndInv, CallSound, MallocSound
  <2>2. BlocksTile BY DEF IndInv
  <2> QED BY <1>1, <2>1, <2>2, AddressInjective
<1> QED BY <1>1, <1>2, <1>3

\* A client gives an extent of the arena to CustomFree: its call has it now.
LEMMA GiveBack ==
  ASSUME TypeOK, IndInv, Running, NEW t \in Threads, NEW g \in PoolHeap,
         UNCHANGED seen, PoolHeap' = PoolHeap \ {g},
         \A u \in Threads \ {t} : th'[u] = th[u],
         \A u \in Threads \ {t} : th[u].ptr # g.addr,
         th'[t].pc = "f_lock", th'[t].ptr = g.addr
  PROVE  IndInv'
<1> USE DEF seen
<1>1. BlocksTile' BY DEF IndInv, BlocksTile
<1>2. FreeListShape' BY DEF IndInv, FreeListShape
<1>3. OwnersExclusive' BY DEF IndInv, OwnersExclusive
<1>4. ArgumentsDistinct' BY DEF IndInv, ArgumentsDistinct
<1>5. Startup' BY DEF IndInv, Startup
<1>6. CallSound(t)'
  <2>1. \A e \in PoolHeap' : e.addr # g.addr BY DEF IndInv, OwnersExclusive
  <2>2. FreeSound(t)' BY <2>1, OwnedBlock DEF FreeSound
  <2>3. MallocSound(t)' /\ ReallocSound(t)' BY DEF MallocSound, ReallocSound, InMalloc
  <2> QED BY <2>2, <2>3 DEF CallSound
<1>7. ASSUME NEW u \in Threads, u # t PROVE CallSound(u)'
  <2>1. MallocSound(u)'
    <3>1. th[u].pc = "m_take" => g.addr # mem[th[u].blk].address BY OwnedBlock
    <3>2. th'[u] = th[u] BY <1>7
    <3> QED BY <3>1, <3>2 DEF IndInv, CallSound, MallocSound, InMalloc, AlignedSize, Pooled
  <2>2. FreeSound(u)' BY <1>7 DEF IndInv, CallSound, FreeSound
  <2>3. ReallocSound(u)'
    BY <1>7 DEF IndInv, CallSound, ReallocSound, InMalloc, AlignedSize, Pooled
  <2> QED BY <2>1, <2>2, <2>3 DEF CallSound
<1> QED BY <1>1, <1>2, <1>3, <1>4, <1>5, <1>6, <1>7 DEF IndInv

\* What CustomMalloc's return does to the clients' extents in the arena.
LEMMA GrantedHeap ==
  ASSUME TypeOK, NEW t \in Threads, NEW p \in Int, p # 0, NEW s, MallocReturn(t, p, s)
  PROVE  PoolHeap' = {e \in PoolHeap : e.addr # th[t].ptr}
                       \cup (IF p > 0 THEN {[addr |-> p, size |-> s]} ELSE {})
BY DEF MallocReturn, LiveAfter, Granted, PoolHeap, InPool

\* CustomMalloc up to InitMemoryPool, called or reached from CustomRealloc: the
\* requests that go to the C heap touch nothing in the arena.
LEMMA EnterMallocInv ==
  ASSUME TypeOK, IndInv, Running, NEW t \in Allocators, t \in Threads, NEW s \in Sizes,
         th[t].ptr = 0 \/ th[t].pc = "r_walk",
         EnterMalloc(t, s), UNCHANGED seen
  PROVE  IndInv'
<1> DEFINE l == th[t]  k == th'[t]
<1>1. l \in Locals BY DEF TypeOK
<1>2. CASE ~Pooled(s) /\ MallocReturn(t, 0, s) /\ UNCHANGED crtHeap
  <2>1. th' = [th EXCEPT ![t] = Idle] /\ UNCHANGED live
    BY <1>2 DEF MallocReturn, LiveAfter
  <2>2. k = Idle /\ k.ptr = 0 /\ \A u \in Threads \ {t} : th'[u] = th[u]
    BY <2>1 DEF TypeOK, Idle
  <2>3. PoolHeap' = PoolHeap BY <2>1 DEF PoolHeap, InPool
  <2> QED BY <2>2, <2>3, IdleSound, LocalStepSameArgument
<1>3. CASE /\ ~Pooled(s) /\ s # 0
           /\ \E c \in (1 .. MaxCrt) \ crtHeap :
                MallocReturn(t, -c, s) /\ crtHeap' = crtHeap \cup {c}
  <2> PICK c \in (1 .. MaxCrt) \ crtHeap : MallocReturn(t, -c, s) BY <1>3
  <2>1. -c \in Int /\ -c # 0 /\ ~(-c > 0) BY SizesAssumption
  <2>2. PoolHeap' = {e \in PoolHeap : e.addr # l.ptr} BY <2>1, GrantedHeap
  <2>3. \A u \in Threads \ {t} : th'[u] = th[u] BY DEF MallocReturn, TypeOK
  <2>4. CASE l.ptr = 0
    <3>1. PoolHeap' = PoolHeap BY <2>2, <2>4 DEF PoolHeap, InPool
    <3>2. k = Idle BY <2>4 DEF MallocReturn, TypeOK
    <3>3. k.ptr = 0 BY <3>2 DEF Idle
    <3> QED BY <2>3, <3>1, <3>2, <3>3, IdleSound, LocalStepSameArgument
  <2>5. CASE l.ptr # 0
    <3>1. PICK g \in PoolHeap : g.addr = l.ptr
      BY <2>5 DEF IndInv, CallSound, ReallocSound
    <3>2. PoolHeap' = PoolHeap \ {g} BY <2>2, <3>1 DEF IndInv, OwnersExclusive
    <3>3. k = [Idle EXCEPT !.pc = "f_lock", !.ptr = l.ptr, !.res = -c]
      BY <2>1, <2>5 DEF MallocReturn, TypeOK
    <3>4. k.pc = "f_lock" /\ k.ptr = g.addr BY <3>1, <3>3 DEF Idle
    <3>5. \A u \in Threads \ {t} : th[u].ptr # g.addr
      BY <2>5, <3>1 DEF IndInv, ArgumentsDistinct
    <3> QED BY <2>3, <3>2, <3>4, <3>5, GiveBack
  <2> QED BY <2>4, <2>5
<1>4. CASE /\ Pooled(s) /\ th' = [th EXCEPT ![t].pc = "m_init", ![t].req = s]
           /\ UNCHANGED <<live, crtHeap>>
  <2>1. k = [l EXCEPT !.pc = "m_init", !.req = s] BY <1>4 DEF TypeOK
  <2>2. k.pc = "m_init" /\ k.req = s /\ k.ptr = l.ptr BY <1>1, <2>1 DEF Locals
  <2>3. PoolHeap' = PoolHeap BY <1>4 DEF PoolHeap, InPool
  <2>4. MallocSound(t)'
    BY <1>4, <2>2 DEF MallocSound, InMalloc, Pooled, AlignedSize, seen
  <2>5. FreeSound(t)' BY <2>2 DEF FreeSound
  <2>6. ReallocSound(t)'
    BY <2>2, <2>3 DEF IndInv, CallSound, ReallocSound, InMalloc
  <2>7. \A u \in Threads \ {t} : th'[u] = th[u] BY <1>4 DEF TypeOK
  <2> QED BY <2>2, <2>3, <2>4, <2>5, <2>6, <2>7, LocalStepSameArgument DEF CallSound
<1> QED BY <1>2, <1>3, <1>4 DEF EnterMalloc

\* CustomMalloc returns block b, reused or new, whose address p no client owns
\* and no running call has as its argument.
LEMMA GrantInv ==
  ASSUME TypeOK, IndInv, Running, SinglePopper, NEW t \in Allocators, t \in Threads,
         InMalloc(t), NEW p \in Nat, p # 0, NEW s \in Nat, MallocReturn(t, p, s),
         UNCHANGED <<pool, initialized, offset, freeList, onFree>>,
         BlocksTile', 1 .. nblocks \subseteq 1 .. nblocks',
         NEW b \in 1 .. nblocks', b \notin onFree,
         mem'[b].address = p, mem'[b].used, s <= mem'[b].size,
         b \in 1 .. nblocks => mem[b].address = p /\ ~mem[b].used,
         \A c \in 1 .. nblocks : c # b => mem'[c] = mem[c] /\ mem[c].address # p,
         \A u \in Threads : th[u].ptr # p
  PROVE  IndInv'
<1> DEFINE l == th[t]  k == th'[t]  n == [addr |-> p, size |-> s]
<1>1. PoolHeap' = {e \in PoolHeap : e.addr # l.ptr} \cup {n} BY GrantedHeap
<1>2. /\ k.pc = (IF l.ptr = 0 THEN "idle" ELSE "f_lock") /\ k.ptr = l.ptr
      /\ \A u \in Threads \ {t} : th'[u] = th[u]
  BY DEF MallocReturn, TypeOK, Idle
<1>3. /\ FreeListShape /\ OwnersExclusive /\ ArgumentsDistinct /\ Startup
      /\ \A u \in Threads : CallSound(u)
  BY DEF IndInv
<1>4. ASSUME NEW e \in PoolHeap
      PROVE  e.addr # p /\ \E c \in 1 .. nblocks' :
               mem'[c].address = e.addr /\ e.size <= mem'[c].size /\ mem'[c].used
  <2>1. PICK c \in 1 .. nblocks :
          mem[c].address = e.addr /\ e.size <= mem[c].size /\ mem[c].used
    BY <1>3 DEF OwnersExclusive
  <2>2. c # b BY <2>1
  <2> QED BY <2>1, <2>2
<1>5. FreeListShape'
  <2>1. \A c \in onFree : c \in 1 .. nblocks /\ mem'[c] = mem[c] BY <1>3 DEF FreeListShape
  <2> QED BY <1>3, <2>1 DEF FreeListShape
<1>6. OwnersExclusive'
  <2>1. n.addr = p /\ n.size = s OBVIOUS
  <2>2. \A e \in PoolHeap' : \E c \in 1 .. nblocks' :
          mem'[c].address = e.addr /\ e.size <= mem'[c].size /\ mem'[c].used
    BY <1>1, <1>4, <2>1
  <2>3. \A e, g \in PoolHeap' : e.addr = g.addr => e = g
    BY <1>1, <1>3, <1>4, <2>1 DEF OwnersExclusive
  <2> QED BY <2>2, <2>3 DEF OwnersExclusive
<1>7. ArgumentsDistinct' BY <1>2, <1>3 DEF ArgumentsDistinct
<1>8. Startup'
  <2>1. initialized BY DEF BlocksTile
  <2> QED BY <1>3, <2>1 DEF Startup
<1>9. ASSUME NEW u \in Threads, u # t PROVE CallSound(u)'
  <2>1. /\ ~InMalloc(u) /\ th[u].pc \notin {"r_lock", "r_walk"} /\ u \notin Allocators
        /\ th'[u] = th[u]
    BY <1>2, <1>9, OthersNotAllocating
  <2>2. MallocSound(u)' BY <2>1 DEF MallocSound, InMalloc
  <2>3. FreeSound(u)'
    <3>1. FreeSound(u) BY <1>3 DEF CallSound
    <3>2. \A e \in PoolHeap' : e.addr = p \/ e \in PoolHeap BY <1>1
    <3>3. \A c \in 1 .. nblocks : mem[c].address = th[u].ptr => c # b /\ c \in 1 .. nblocks'
      OBVIOUS
    <3> QED BY <2>1, <3>1, <3>2, <3>3 DEF FreeSound
  <2>4. ReallocSound(u)'
    BY <1>3, <2>1 DEF CallSound, ReallocSound, InMalloc
  <2> QED BY <2>2, <2>3, <2>4 DEF CallSound
<1>10. CallSound(t)'
  <2>1. CASE l.ptr = 0
    BY <1>2, <2>1 DEF CallSound, MallocSound, FreeSound, ReallocSound, InMalloc
  <2>2. CASE l.ptr # 0
    <3>1. PICK g \in PoolHeap : g.addr = l.ptr BY <1>3, <2>2 DEF CallSound, ReallocSound
    <3>2. \E c \in 1 .. nblocks' : mem'[c].address = l.ptr /\ mem'[c].used BY <1>4, <3>1
    <3>3. \A e \in PoolHeap' : e.addr # l.ptr BY <1>1
    <3>4. FreeSound(t)' BY <1>2, <2>2, <3>2, <3>3 DEF FreeSound
    <3> QED BY <1>2, <2>2, <3>4 DEF CallSound, MallocSound, ReallocSound, InMalloc
  <2> QED BY <2>1, <2>2
<1> QED BY <1>5, <1>6, <1>7, <1>8, <1>9, <1>10 DEF IndInv

\* A popped block is nobody's; it is handed out if it is large enough.
LEMMA MallocTakeInv ==
  ASSUME TypeOK, IndInv, NEW t \in Threads, MallocTake(t), SinglePopper
  PROVE  IndInv'
<1> USE DEF arena
<1> DEFINE l == th[t]  k == th'[t]  b == l.blk  p == mem[b].address  s == l.req
<1>1. Running /\ l \in Locals /\ l.pc = "m_take" BY DEF MallocTake, At, Running, TypeOK
<1>2. /\ t \in Allocators /\ InMalloc(t) /\ Pooled(s)
      /\ initialized /\ pool = PoolBase
      /\ b \in (1 .. nblocks) \ onFree /\ ~mem[b].used
      /\ \A u \in Threads : th[u].ptr # p
  BY <1>1 DEF IndInv, CallSound, MallocSound, InMalloc
<1>3. b \in Blocks /\ BlocksTile BY <1>1, <1>2, BlocksMade DEF IndInv
<1>4. CASE Fits(b, s) /\ mem' = [mem EXCEPT ![b].used = TRUE] /\ MallocReturn(t, p, s)
  <2>1. p \in Nat /\ p # 0 BY <1>2, <1>3, AddressNotNull
  <2>2. s \in Nat /\ s <= mem[b].size
    <3>1. s \in Nat BY <1>1, SizesAssumption DEF Locals, Sizes
    <3>2. AlignedSize(s) \in Nat /\ AlignedSize(s) >= s BY <3>1, AlignedSizeBounds
    <3>3. mem[b].size \in Nat /\ mem[b].size >= AlignedSize(s)
      BY <1>3, <1>4 DEF Fits, TypeOK
    <3> QED BY <3>1, <3>2, <3>3
  <2>3. UNCHANGED <<pool, initialized, offset, freeList, onFree, nblocks>> BY DEF MallocTake
  <2>4. /\ mem'[b].address = p /\ mem'[b].used /\ mem'[b].size = mem[b].size
        /\ \A c \in Blocks : /\ c # b => mem'[c] = mem[c]
                             /\ mem'[c].address = mem[c].address /\ mem'[c].size = mem[c].size
    BY <1>3, <1>4 DEF TypeOK
  <2>5. BlocksTile' BY <1>3, <2>3, <2>4, BlocksMade DEF BlocksTile
  <2>6. \A c \in 1 .. nblocks : c # b => mem'[c] = mem[c] /\ mem[c].address # p
    BY <1>2, <1>3, <2>4, BlocksMade, AddressInjective
  <2> QED BY <1>1, <1>2, <1>4, <2>1, <2>2, <2>3, <2>4, <2>5, <2>6, GrantInv, SMTT(30)
<1>5. CASE ~Fits(b, s) /\ th' = [th EXCEPT ![t].pc = "m_pop"] /\ UNCHANGED <<mem, live>>
  <2>1. k.pc = "m_pop" /\ k.req = s /\ k.ptr = l.ptr BY <1>1, <1>5 DEF TypeOK, Locals
  <2>2. UNCHANGED seen /\ PoolHeap' = PoolHeap
    BY <1>5 DEF MallocTake, seen, PoolHeap, InPool
  <2>3. MallocSound(t)'
    BY <1>2, <2>1, <2>2 DEF MallocSound, InMalloc, AlignedSize, Pooled, seen
  <2>4. FreeSound(t)' BY <2>1 DEF FreeSound
  <2>5. ReallocSound(t)'
    BY <1>1, <1>2, <2>1, <2>2 DEF IndInv, CallSound, ReallocSound, InMalloc
  <2>6. \A u \in Threads \ {t} : th'[u] = th[u] BY <1>5 DEF TypeOK
  <2> QED BY <1>1, <2>1, <2>2, <2>3, <2>4, <2>5, <2>6, LocalStepSameArgument DEF CallSound
<1> QED BY <1>4, <1>5 DEF MallocTake

\* offset only grows, until a sum wraps and the run stops: the extent reserved
\* lies above every block.
LEMMA MallocAddInv ==
  ASSUME TypeOK, IndInv, NEW t \in Threads, MallocAdd(t), SinglePopper
  PROVE  IndInv'
<1> DEFINE l == th[t]  k == th'[t]  aligned == AlignedSize(l.req)
<1>0. SUFFICES ASSUME status' # "wrapped" PROVE IndInv'
  BY DEF IndInv, Running
<1>1. /\ Running /\ l \in Locals /\ l.pc = "m_add" /\ Running'
  BY <1>0 DEF MallocAdd, At, Running, TypeOK
<1>2. /\ t \in Allocators /\ InMalloc(t) /\ Pooled(l.req)
      /\ initialized /\ pool = PoolBase
  BY <1>1 DEF IndInv, CallSound, MallocSound, InMalloc
<1>3. /\ offset \in Nat /\ aligned \in Nat /\ SizeMod \in Nat /\ PoolBase \in Nat
  BY <1>1, AlignedSizeBounds, SizesAssumption DEF TypeOK, Locals, Sizes
<1>4. offset' = offset + aligned BY <1>0 DEF MallocAdd
<1>5. UNCHANGED <<pool, initialized, freeList, onFree, nblocks, mem>> BY DEF MallocAdd
<1>6. UNCHANGED live BY <1>0 DEF MallocAdd, MallocReturn, LiveAfter
<1>7. PoolHeap' = PoolHeap BY <1>6 DEF PoolHeap, InPool
<1>8. /\ \/ k = Idle
         \/ k = [l EXCEPT !.pc = "m_link", !.off = offset] /\ ~Refused(offset, aligned)
      /\ \A u \in Threads \ {t} : th'[u] = th[u]
  BY <1>0 DEF MallocAdd, MallocReturn, TypeOK
<1>9. \/ k.pc = "idle" /\ k.ptr = 0
      \/ /\ k.pc = "m_link" /\ k.ptr = l.ptr /\ k.req = l.req /\ k.off = offset
         /\ ~Refused(offset, aligned)
  <2>1. CASE k = Idle BY <2>1 DEF Idle
  <2>2. CASE k = [l EXCEPT !.pc = "m_link", !.off = offset] /\ ~Refused(offset, aligned)
    BY <1>1, <2>2 DEF Locals
  <2> QED BY <1>8, <2>1, <2>2
<1>10. \A b \in 1 .. nblocks : mem[b].address \in Nat /\ mem[b].size \in Nat
  BY BlocksMade DEF TypeOK
<1>11. BlocksTile'
  <2>1. BlocksTile BY <1>1 DEF IndInv
  <2> QED BY <1>3, <1>4, <1>5, <1>10, <2>1 DEF BlocksTile
<1>12. FreeListShape' BY <1>1, <1>5 DEF IndInv, FreeListShape
<1>13. OwnersExclusive' BY <1>1, <1>5, <1>7 DEF IndInv, OwnersExclusive
<1>14. ArgumentsDistinct' BY <1>1, <1>8, <1>9 DEF IndInv, ArgumentsDistinct
<1>15. Startup' BY <1>2, <1>5 DEF Startup
<1>16. CallSound(t)'
  <2>1. CASE k.pc = "idle" /\ k.ptr = 0
    BY <2>1 DEF CallSound, MallocSound, FreeSound, ReallocSound, InMalloc
  <2>2. CASE /\ k.pc = "m_link" /\ k.ptr = l.ptr /\ k.req = l.req /\ k.off = offset
             /\ ~Refused(offset, aligned)
    <3>1. offset + aligned <= TotalPoolSize
      BY <1>3, <2>2, SizesAssumption DEF Refused
    <3>2. \A b \in 1 .. nblocks : mem[b].address + mem[b].size <= PoolBase + offset
      BY <1>1 DEF IndInv, BlocksTile
    <3>3. MallocSound(t)'
      BY <1>2, <1>3, <1>4, <1>5, <2>2, <3>1, <3>2 DEF MallocSound, InMalloc, AlignedSize, Pooled
    <3>4. FreeSound(t)' BY <2>2 DEF FreeSound
    <3>5. ReallocSound(t)'
      BY <1>1, <1>2, <1>7, <2>2 DEF IndInv, CallSound, ReallocSound, InMalloc
    <3> QED BY <3>3, <3>4, <3>5 DEF CallSound
  <2> QED BY <1>9, <2>1, <2>2
<1>17. ASSUME NEW u \in Threads, u # t PROVE CallSound(u)'
  <2>1. /\ ~InMalloc(u) /\ th[u].pc \notin {"r_lock", "r_walk"} /\ th'[u] = th[u]
    BY <1>1, <1>2, <1>8, <1>17, OthersNotAllocating
  <2>2. MallocSound(u)' BY <2>1 DEF MallocSound, InMalloc
  <2>3. FreeSound(u)' BY <1>1, <1>5, <1>7, <2>1 DEF IndInv, CallSound, FreeSound
  <2>4. ReallocSound(u)'
    BY <1>1, <1>7, <2>1 DEF IndInv, CallSound, ReallocSound, InMalloc
  <2> QED BY <2>2, <2>3, <2>4 DEF CallSound
<1> QED BY <1>11, <1>12, <1>13, <1>14, <1>15, <1>16, <1>17 DEF IndInv

\* The new block lies above all others.
LEMMA MallocLinkInv ==
  ASSUME TypeOK, IndInv, NEW t \in Threads, MallocLink(t), SinglePopper
  PROVE  IndInv'
<1> USE DEF arena
<1> DEFINE l == th[t]  p == pool + l.off  s == l.req  b == nblocks + 1
<1>1. Running /\ l \in Locals /\ l.pc = "m_link" BY DEF MallocLink, At, Running, TypeOK
<1>2. /\ t \in Allocators /\ InMalloc(t) /\ Pooled(s) /\ initialized /\ pool = PoolBase
      /\ l.off + AlignedSize(s) <= offset /\ l.off + AlignedSize(s) <= TotalPoolSize
      /\ \A c \in 1 .. nblocks : mem[c].address + mem[c].size <= PoolBase + l.off
  BY <1>1 DEF IndInv, CallSound, MallocSound, InMalloc
<1>3. /\ BlocksTile /\ FreeListShape /\ nblocks \in Nat BY <1>1, SizesAssumption DEF IndInv, TypeOK, Links
<1>4. CASE status' = "exited" BY <1>4 DEF IndInv, Running
<1>5. CASE /\ nblocks < MaxBlocks /\ nblocks' = nblocks + 1
           /\ mem' = [mem EXCEPT ![b] = NewBlock(t, p)]
           /\ MallocReturn(t, p, s)
  <2>1. /\ l.off \in Nat /\ s \in Nat /\ PoolBase \in Nat /\ PoolBase # 0 /\ s # 0
        /\ TotalPoolSize \in Nat /\ offset \in Nat
    BY <1>1, <1>2, SizesAssumption DEF Locals, Sizes, Pooled, TypeOK
  <2>2. AlignedSize(s) \in Nat /\ AlignedSize(s) >= s BY <2>1, AlignedSizeBounds
  <2>3. p \in Nat /\ p # 0 /\ p = PoolBase + l.off BY <1>2, <2>1
  <2>4. b \in Blocks /\ b \notin 1 .. nblocks /\ 1 .. nblocks' = (1 .. nblocks) \cup {b}
    BY <1>3, <1>5, SizesAssumption DEF Blocks
  <2>5. /\ mem'[b].address = p /\ mem'[b].used /\ mem'[b].size = AlignedSize(s)
        /\ \A c \in Blocks : c # b => mem'[c] = mem[c]
    BY <1>5, <2>4 DEF TypeOK, NewBlock, BlockOf
  <2>6. \A c \in 1 .. nblocks : /\ c \in Blocks /\ c # b /\ mem'[c] = mem[c]
                                /\ mem[c].address \in Nat /\ mem[c].size \in Nat
                                /\ mem[c].size > 0
                                /\ mem[c].address < p
    BY <1>2, <1>3, <2>1, <2>3, <2>4, <2>5, BlocksMade DEF TypeOK, BlocksTile
  <2>7. UNCHANGED <<pool, initialized, offset, freeList, onFree>> BY DEF MallocLink
  <2>8. BlocksTile'
    <3>1. ASSUME NEW c \in 1 .. nblocks'
          PROVE  /\ pool' = PoolBase /\ initialized'
                 /\ mem'[c].address >= PoolBase /\ mem'[c].size > 0
                 /\ mem'[c].address + mem'[c].size <= PoolBase + offset'
                 /\ mem'[c].address + mem'[c].size <= PoolBase + TotalPoolSize
      <4>1. CASE c = b BY <1>2, <2>1, <2>2, <2>3, <2>5, <2>7, <4>1
      <4>2. CASE c \in 1 .. nblocks
        BY <1>3, <2>6, <2>7, <4>2 DEF BlocksTile
      <4> QED BY <2>4, <4>1, <4>2
    <3>2. ASSUME NEW c \in Blocks, c > nblocks' PROVE mem'[c].address = 0
      <4>1. c # b /\ c > nblocks BY <1>3, <1>5, <3>2 DEF Blocks
      <4> QED BY <1>3, <2>5, <4>1 DEF BlocksTile
    <3>3. ASSUME NEW c \in 1 .. nblocks', NEW d \in 1 .. nblocks', c < d
          PROVE  mem'[c].address + mem'[c].size <= mem'[d].address
      <4>1. c \in 1 .. nblocks BY <1>3, <1>5, <3>3
      <4>2. CASE d = b BY <1>2, <2>3, <2>5, <2>6, <4>1, <4>2
      <4>3. CASE d \in 1 .. nblocks BY <1>3, <2>6, <3>3, <4>1, <4>3 DEF BlocksTile
      <4> QED BY <2>4, <4>2, <4>3
    <3> QED BY <3>1, <3>2, <3>3 DEF BlocksTile
  <2>9. ASSUME NEW u \in Threads PROVE th[u].ptr # p
    <3>1. CASE th[u].ptr = 0 BY <2>3, <3>1
    <3>2. CASE th[u].ptr # 0
      <4>1. PICK c \in 1 .. nblocks : mem[c].address = th[u].ptr
        BY <1>1, <3>2, ArgumentBlock
      <4> QED BY <2>3, <2>6, <4>1
    <3> QED BY <3>1, <3>2
  <2>10. \A c \in 1 .. nblocks : c # b => mem'[c] = mem[c] /\ mem[c].address # p
    BY <2>3, <2>6
  <2>11. b \notin onFree BY <1>3, <2>4 DEF FreeListShape
  <2>12. b \in 1 .. nblocks' /\ 1 .. nblocks \subseteq 1 .. nblocks' BY <2>4
  <2>13. b \in 1 .. nblocks => mem[b].address = p /\ ~mem[b].used BY <2>4
  <2>14. s <= mem'[b].size BY <2>1, <2>2, <2>5
  <2> HIDE DEF b, p, s
  <2> QED BY <1>1, <1>2, <1>5, <2>1, <2>3, <2>5, <2>7, <2>8, <2>9, <2>10, <2>11, <2>12, <2>13, <2>14, GrantInv
<1> QED BY <1>4, <1>5 DEF MallocLink

\* The block whose flag is cleared is the argument of this call alone, and no
\* client owns it.
LEMMA FreeClearInv ==
  ASSUME TypeOK, IndInv, NEW t \in Threads, FreeClear(t)
  PROVE  IndInv'
<1> USE DEF arena, client
<1> DEFINE l == th[t]  k == th'[t]  b == l.blk
<1>1. /\ Running /\ l \in Locals /\ l.pc = "f_clear" /\ Running'
  BY DEF FreeClear, At, Running, TypeOK
<1>2. /\ BlocksTile /\ FreeListShape /\ OwnersExclusive /\ ArgumentsDistinct /\ Startup
      /\ \A u \in Threads : CallSound(u)
  BY <1>1 DEF IndInv
<1>3. /\ b \in 1 .. nblocks /\ mem[b].address = l.ptr /\ mem[b].used
      /\ \A e \in PoolHeap : e.addr # l.ptr
  BY <1>1, <1>2 DEF CallSound, FreeSound
<1>4. b \in Blocks /\ l.ptr # 0 BY <1>2, <1>3, BlocksMade, AddressNotNull
<1>5. /\ k.pc = "f_push" /\ k.ptr = l.ptr /\ k.blk = b
      /\ \A u \in Threads \ {t} : th'[u] = th[u]
  BY <1>1 DEF FreeClear, TypeOK, Locals
<1>6. /\ ~mem'[b].used /\ mem'[b].address = l.ptr
      /\ \A c \in Blocks : /\ c # b => mem'[c] = mem[c]
                           /\ mem'[c].address = mem[c].address
                           /\ mem'[c].size = mem[c].size /\ mem'[c].next = mem[c].next
  BY <1>3, <1>4 DEF FreeClear, Clear, TypeOK
<1>7. UNCHANGED <<pool, initialized, offset, freeList, onFree, nblocks>> /\ PoolHeap' = PoolHeap
  BY DEF FreeClear, PoolHeap, InPool
<1>8. \A c \in 1 .. nblocks : c \in Blocks BY BlocksMade
<1>9. BlocksTile' BY <1>2, <1>6, <1>7, <1>8 DEF BlocksTile
<1>10. b \notin onFree /\ \A c \in onFree : mem'[c] = mem[c]
  BY <1>2, <1>3, <1>6, <1>8 DEF FreeListShape
<1>11. FreeListShape' BY <1>2, <1>7, <1>10 DEF FreeListShape
<1>12. OwnersExclusive'
  <2>1. ASSUME NEW e \in PoolHeap
        PROVE  \E c \in 1 .. nblocks :
                 mem'[c].address = e.addr /\ e.size <= mem'[c].size /\ mem'[c].used
    <3>1. PICK c \in 1 .. nblocks :
            mem[c].address = e.addr /\ e.size <= mem[c].size /\ mem[c].used
      BY <1>2 DEF OwnersExclusive
    <3>2. c # b BY <1>3, <3>1
    <3> QED BY <1>6, <1>8, <3>1, <3>2
  <2> QED BY <1>2, <1>7, <2>1 DEF OwnersExclusive
<1>13. ArgumentsDistinct' /\ Startup'
  BY <1>2, <1>5, <1>7 DEF ArgumentsDistinct, Startup
<1>14. CallSound(t)'
  BY <1>3, <1>5, <1>6, <1>7, <1>10 DEF CallSound, MallocSound, FreeSound, ReallocSound, InMalloc
<1>15. ASSUME NEW u \in Threads, u # t PROVE CallSound(u)'
  <2>1. th'[u] = th[u] /\ th[u].ptr # l.ptr
    BY <1>2, <1>4, <1>5, <1>15 DEF ArgumentsDistinct
  <2>2. MallocSound(u)'
    <3>1. MallocSound(u) BY <1>2 DEF CallSound
    <3>2. th[u].pc \in {"m_next", "m_cas"} => mem'[th[u].blk] = mem[th[u].blk]
      BY <1>10, <3>1 DEF MallocSound
    <3>3. \A v \in Threads : th'[v].ptr = th[v].ptr BY <1>5
    <3>4. th[u].pc = "m_take" => /\ th[u].blk \in Blocks /\ th[u].blk # b
                                 /\ mem'[th[u].blk] = mem[th[u].blk]
      BY <1>3, <1>6, <1>8, <3>1 DEF MallocSound
    <3>5. \A c \in 1 .. nblocks : mem'[c].address = mem[c].address /\ mem'[c].size = mem[c].size
      BY <1>6, <1>8
    <3> QED BY <1>7, <2>1, <3>1, <3>2, <3>3, <3>4, <3>5
        DEF MallocSound, InMalloc, AlignedSize, Pooled
  <2>3. FreeSound(u)'
    <3>1. FreeSound(u) BY <1>2 DEF CallSound
    <3>2. \A c \in 1 .. nblocks : mem[c].address = th[u].ptr => mem'[c] = mem[c]
      BY <1>3, <1>6, <1>8, <2>1
    <3> QED BY <1>7, <2>1, <3>1, <3>2 DEF FreeSound
  <2>4. ReallocSound(u)'
    BY <1>2, <1>7, <2>1 DEF CallSound, ReallocSound, InMalloc, AlignedSize, Pooled
  <2> QED BY <2>2, <2>3, <2>4 DEF CallSound
<1> QED BY <1>9, <1>11, <1>12, <1>13, <1>14, <1>15 DEF IndInv

\* The link written is the link of a block that is not on the free list yet.
LEMMA PushLinkInv ==
  ASSUME TypeOK, IndInv, NEW t \in Threads, PushLink(t)
  PROVE  IndInv'
<1> USE DEF arena, client
<1> DEFINE l == th[t]  k == th'[t]  b == l.blk
<1>1. /\ Running /\ l \in Locals /\ l.pc = "f_link" /\ Running'
  BY DEF PushLink, At, Running, TypeOK
<1>2. /\ BlocksTile /\ FreeListShape /\ OwnersExclusive /\ ArgumentsDistinct /\ Startup
      /\ \A u \in Threads : CallSound(u)
  BY <1>1 DEF IndInv
<1>3. /\ b \in 1 .. nblocks /\ mem[b].address = l.ptr /\ ~mem[b].used /\ b \notin onFree
      /\ \A e \in PoolHeap : e.addr # l.ptr
  BY <1>1, <1>2 DEF CallSound, FreeSound
<1>4. b \in Blocks /\ l.ptr # 0 BY <1>2, <1>3, BlocksMade, AddressNotNull
<1>5. /\ k.pc = "f_cas" /\ k.ptr = l.ptr /\ k.blk = b /\ k.lnk = l.lnk
      /\ \A u \in Threads \ {t} : th'[u] = th[u]
  BY <1>1 DEF PushLink, TypeOK, Locals
<1>6. /\ mem'[b].next = l.lnk
      /\ \A c \in Blocks : /\ c # b => mem'[c] = mem[c]
                           /\ mem'[c].address = mem[c].address
                           /\ mem'[c].size = mem[c].size /\ mem'[c].used = mem[c].used
  BY <1>4 DEF PushLink, TypeOK
<1>7. UNCHANGED <<pool, initialized, offset, freeList, onFree, nblocks>> /\ PoolHeap' = PoolHeap
  BY DEF PushLink, PoolHeap, InPool
<1>8. \A c \in 1 .. nblocks : c \in Blocks BY BlocksMade
<1>9. BlocksTile' BY <1>2, <1>6, <1>7, <1>8 DEF BlocksTile
<1>10. \A c \in onFree : mem'[c] = mem[c] /\ c \in 1 .. nblocks
  BY <1>2, <1>3, <1>6, <1>8 DEF FreeListShape
<1>11. FreeListShape' BY <1>2, <1>7, <1>10 DEF FreeListShape
<1>12. \A c \in 1 .. nblocks : /\ mem'[c].address = mem[c].address
                               /\ mem'[c].size = mem[c].size /\ mem'[c].used = mem[c].used
  BY <1>6, <1>8
<1>13. OwnersExclusive' BY <1>2, <1>7, <1>12 DEF OwnersExclusive
<1>14. ArgumentsDistinct' /\ Startup'
  BY <1>2, <1>5, <1>7 DEF ArgumentsDistinct, Startup
<1>15. CallSound(t)'
  BY <1>3, <1>5, <1>6, <1>7, <1>12 DEF CallSound, MallocSound, FreeSound, ReallocSound, InMalloc
<1>16. ASSUME NEW u \in Threads, u # t PROVE CallSound(u)'
  <2>1. th'[u] = th[u] /\ th[u].ptr # l.ptr
    BY <1>2, <1>4, <1>5, <1>16 DEF ArgumentsDistinct
  <2>2. MallocSound(u)'
    <3>1. MallocSound(u) BY <1>2 DEF CallSound
    <3>2. th[u].pc \in {"m_next", "m_cas"} => mem'[th[u].blk] = mem[th[u].blk]
      BY <1>10, <3>1 DEF MallocSound
    <3>3. \A v \in Threads : th'[v].ptr = th[v].ptr BY <1>5
    <3>4. th[u].pc = "m_take" => th[u].blk \in 1 .. nblocks BY <3>1 DEF MallocSound
    <3> QED BY <1>7, <1>12, <2>1, <3>1, <3>2, <3>3, <3>4
        DEF MallocSound, InMalloc, AlignedSize, Pooled
  <2>3. FreeSound(u)'
    <3>1. FreeSound(u) BY <1>2 DEF CallSound
    <3>2. \A c \in 1 .. nblocks : mem[c].address = th[u].ptr => mem'[c] = mem[c]
      BY <1>3, <1>6, <1>8, <2>1
    <3> QED BY <1>7, <2>1, <3>1, <3>2 DEF FreeSound
  <2>4. ReallocSound(u)'
    BY <1>2, <1>7, <2>1 DEF CallSound, ReallocSound, InMalloc, AlignedSize, Pooled
  <2> QED BY <2>2, <2>3, <2>4 DEF CallSound
<1> QED BY <1>9, <1>11, <1>13, <1>14, <1>15, <1>16 DEF IndInv

\* The exchange of a push puts a block on top that nothing on the list links to.
LEMMA PushCASInv ==
  ASSUME TypeOK, IndInv, NEW t \in Threads, PushCAS(t)
  PROVE  IndInv'
<1> USE DEF arena, client
<1> DEFINE l == th[t]  k == th'[t]  b == l.blk
<1>1. /\ Running /\ l \in Locals /\ l.pc = "f_cas" /\ Running'
  BY DEF PushCAS, At, Running, TypeOK
<1>2. /\ BlocksTile /\ FreeListShape /\ OwnersExclusive /\ ArgumentsDistinct /\ Startup
      /\ \A u \in Threads : CallSound(u)
  BY <1>1 DEF IndInv
<1>3. /\ b \in 1 .. nblocks /\ mem[b].address = l.ptr /\ ~mem[b].used /\ b \notin onFree
      /\ mem[b].next = l.lnk /\ \A e \in PoolHeap : e.addr # l.ptr
  BY <1>1, <1>2 DEF CallSound, FreeSound
<1>4. l.ptr # 0 BY <1>2, <1>3, AddressNotNull
<1>5. /\ UNCHANGED <<pool, initialized, offset, nblocks, mem>> /\ PoolHeap' = PoolHeap
      /\ \A u \in Threads \ {t} : th'[u] = th[u]
  BY DEF PushCAS, PushReload, PoolHeap, InPool, TypeOK
<1>6. CASE PushWins(t)
  <2>1. freeList' = b /\ onFree' = onFree \cup {b} /\ l.lnk = freeList /\ k = Idle
    BY <1>6 DEF PushCAS, PushWins, TypeOK
  <2>2. k.ptr = 0 /\ k.pc = "idle" BY <2>1 DEF Idle
  <2>3. BlocksTile' BY <1>2, <1>5 DEF BlocksTile
  <2>4. FreeListShape'
    <3>1. onFree' \subseteq 1 .. nblocks' BY <1>2, <1>3, <1>5, <2>1 DEF FreeListShape
    <3>2. ASSUME NEW c \in onFree'
          PROVE  /\ ~mem[c].used /\ mem[c].next \in onFree' \cup {0}
                 /\ mem[c].next # 0 => mem[c].next # freeList'
      <4>1. CASE c = b BY <1>2, <1>3, <2>1, <4>1 DEF FreeListShape
      <4>2. CASE c \in onFree BY <1>2, <1>3, <2>1, <4>2 DEF FreeListShape
      <4> QED BY <2>1, <4>1, <4>2
    <3>3. ASSUME NEW c \in onFree', NEW d \in onFree', mem[c].next = mem[d].next
          PROVE  c = d \/ mem[c].next = 0
      <4>1. CASE c \in onFree /\ d \in onFree BY <1>2, <3>3, <4>1 DEF FreeListShape
      <4>2. CASE c = b \/ d = b BY <1>2, <1>3, <2>1, <3>3, <4>2 DEF FreeListShape
      <4> QED BY <2>1, <4>1, <4>2
    <3> QED BY <1>5, <2>1, <3>1, <3>2, <3>3 DEF FreeListShape
  <2>5. OwnersExclusive' BY <1>2, <1>5 DEF OwnersExclusive
  <2>6. ArgumentsDistinct' BY <1>2, <1>5, <2>2 DEF ArgumentsDistinct
  <2>7. Startup' BY <1>2, <1>3, <1>5 DEF Startup, BlocksTile
  <2>8. CallSound(t)' BY <2>1, IdleSound
  <2>9. ASSUME NEW u \in Threads, u # t PROVE CallSound(u)'
    <3>1. th'[u] = th[u] /\ th[u].ptr # l.ptr
      BY <1>2, <1>4, <1>5, <2>9 DEF ArgumentsDistinct
    <3>2. MallocSound(u)'
      <4>1. MallocSound(u) BY <1>2 DEF CallSound
      <4>2. th[u].pc = "m_take" =>
              /\ th[u].blk # b
              /\ \A v \in Threads : th'[v].ptr # mem[th[u].blk].address
        <5>1. ASSUME th[u].pc = "m_take"
              PROVE  /\ th[u].blk \in 1 .. nblocks
                     /\ \A v \in Threads : th[v].ptr # mem[th[u].blk].address
          BY <4>1, <5>1 DEF MallocSound
        <5> QED BY <1>2, <1>3, <1>5, <2>2, <5>1, AddressNotNull
      <4> QED BY <1>5, <2>1, <3>1, <4>1, <4>2 DEF MallocSound, InMalloc, AlignedSize, Pooled
    <3>3. FreeSound(u)'
      <4>1. FreeSound(u) BY <1>2 DEF CallSound
      <4>2. mem[th[u].blk].address = th[u].ptr => th[u].blk # b BY <1>3, <3>1
      <4> QED BY <1>5, <2>1, <3>1, <4>1, <4>2 DEF FreeSound
    <3>4. ReallocSound(u)'
      BY <1>2, <1>5, <3>1 DEF CallSound, ReallocSound, InMalloc, AlignedSize, Pooled
    <3> QED BY <3>2, <3>3, <3>4 DEF CallSound
  <2> QED BY <2>3, <2>4, <2>5, <2>6, <2>7, <2>8, <2>9 DEF IndInv
<1>7. CASE ~PushWins(t)
  <2>1. PushReload(t) /\ UNCHANGED <<freeList, onFree>> BY <1>7 DEF PushCAS
  <2>2. k.pc = "f_link" /\ k.ptr = l.ptr /\ k.blk = b
    BY <1>1, <2>1 DEF PushReload, TypeOK, Locals
  <2>3. UNCHANGED seen BY <1>5, <2>1 DEF seen
  <2>4. CallSound(t)'
    BY <1>3, <1>5, <2>1, <2>2 DEF CallSound, MallocSound, FreeSound, ReallocSound, InMalloc
  <2> QED BY <1>1, <1>5, <2>2, <2>3, <2>4, LocalStepSameArgument
<1> QED BY <1>6, <1>7

-----------------------------------------------------------------------------
\* The calls, under the obligations of the client.
LEMMA MallocCallInv ==
  ASSUME TypeOK, IndInv, NEW t \in Threads, NEW s \in Sizes, MallocCall(t, s), SinglePopper
  PROVE  IndInv'
<1> USE DEF memory, arena
<1>1. Running /\ th[t].pc = "idle" /\ t \in Allocators
  BY DEF MallocCall, MayCall, At, Running
<1>2. th[t].ptr = 0 BY <1>1 DEF IndInv, CallSound, ReallocSound
<1>3. EnterMalloc(t, s) /\ UNCHANGED seen BY DEF MallocCall, seen
<1> QED BY <1>1, <1>2, <1>3, EnterMallocInv

LEMMA CallocCallInv ==
  ASSUME TypeOK, IndInv, NEW t \in Threads, NEW ns \in CallocArgs,
         CallocCall(t, ns[1], ns[2]), SinglePopper
  PROVE  IndInv'
<1>1. ns[1] \in Nat /\ ns[2] \in Nat BY SizesAssumption
<1>2. ns[1] * ns[2] \in Nat BY <1>1
<1>3. (ns[1] * ns[2]) % SizeMod \in Sizes BY <1>2, SizesAssumption DEF Sizes
<1> QED BY <1>3, MallocCallInv DEF CallocCall

LEMMA FreeCallInv ==
  ASSUME TypeOK, IndInv, NEW t \in Threads, NEW e \in live, FreeCall(t, e)
  PROVE  IndInv'
<1> USE DEF memory, arena
<1> DEFINE l == th[t]  k == th'[t]
<1>1. Running /\ l \in Locals /\ l.pc = "idle"
  BY DEF FreeCall, MayCall, At, Running, TypeOK
<1>2. /\ e \in Extents /\ e.addr \in Int /\ \A u \in Threads : th[u].ptr # e.addr
      /\ live' = live \ {e} /\ UNCHANGED seen
  BY DEF FreeCall, InCall, TypeOK, Extents, seen
<1>3. PoolHeap' = PoolHeap \ {e} BY <1>2 DEF PoolHeap, InPool
<1>4. pool \in Nat BY SizesAssumption DEF TypeOK
<1>5. CASE IsInCustomPool(e.addr)
           /\ th' = [th EXCEPT ![t].pc = "f_lock", ![t].ptr = e.addr]
  <2>1. e \in PoolHeap
    BY <1>2, <1>4, <1>5 DEF IsInCustomPool, PoolHeap, InPool
  <2>2. k.pc = "f_lock" /\ k.ptr = e.addr /\ \A u \in Threads \ {t} : th'[u] = th[u]
    BY <1>1, <1>5 DEF TypeOK, Locals
  <2> QED BY <1>1, <1>2, <1>3, <2>1, <2>2, GiveBack
<1>6. CASE /\ pool # 0 /\ ~IsInCustomPool(e.addr)
           /\ status' = (IF e.addr < 0 THEN status ELSE "corrupt") /\ UNCHANGED th
  <2>1. CASE e.addr < 0
    <3>1. e \notin PoolHeap BY <1>2, <2>1 DEF PoolHeap, InPool
    <3> QED BY <1>1, <1>2, <1>3, <1>6, <3>1, Unmoved
  <2>2. CASE ~(e.addr < 0) BY <1>6, <2>2 DEF IndInv, Running
  <2> QED BY <2>1, <2>2
<1>7. CASE pool = 0 /\ UNCHANGED <<th, crtHeap, status>>
  <2>1. e \notin PoolHeap BY <1>1, <1>7, OwnedBlock, SizesAssumption
  <2> QED BY <1>1, <1>2, <1>3, <1>7, <2>1, Unmoved
<1> QED BY <1>5, <1>6, <1>7 DEF FreeCall

\* The second free of a block that is free already is harmless here.
LEMMA DoubleFreeCallInv ==
  ASSUME TypeOK, IndInv, NEW t \in Threads, NEW b \in onFree, DoubleFreeCall(t, b),
         SinglePopper
  PROVE  IndInv'
<1> USE DEF memory, arena, client
<1> DEFINE l == th[t]  k == th'[t]  p == mem[b].address
<1>1. Running /\ l \in Locals /\ l.pc = "idle" /\ t \in Allocators
  BY DEF DoubleFreeCall, MayCall, At, Running, TypeOK
<1>2. BlocksTile /\ b \in 1 .. nblocks /\ ~mem[b].used
  BY <1>1 DEF IndInv, FreeListShape
<1>3. p # 0 BY <1>2, AddressNotNull
<1>4. UNCHANGED seen /\ PoolHeap' = PoolHeap
  BY DEF DoubleFreeCall, seen, PoolHeap, InPool
<1>5. k.pc = "f_lock" /\ k.ptr = p /\ \A u \in Threads \ {t} : th'[u] = th[u]
  BY <1>1 DEF DoubleFreeCall, TypeOK, Locals
<1>6. ASSUME NEW u \in Threads \ {t} PROVE th[u].ptr # p
  <2> SUFFICES ASSUME th[u].ptr = p PROVE FALSE OBVIOUS
  <2>1. PICK c \in 1 .. nblocks :
          /\ mem[c].address = th[u].ptr
          /\ \/ mem[c].used
             \/ /\ c \in onFree /\ u \in Allocators
                /\ th[u].pc \in {"f_lock", "f_walk"}
             \/ /\ c \notin onFree /\ c = th[u].blk
                /\ th[u].pc \in {"f_push", "f_link", "f_cas"}
    BY <1>1, <1>3, ArgumentBlock
  <2>2. c = b BY <1>2, <2>1, AddressInjective
  <2>3. u \notin Allocators BY <1>1 DEF SinglePopper
  <2> QED BY <1>2, <2>1, <2>2, <2>3
<1>7. ASSUME NEW u \in Threads \ {t}, th[u].pc = "m_take"
      PROVE  p # mem[th[u].blk].address
  <2>1. th[u].blk \in 1 .. nblocks /\ th[u].blk \notin onFree
    BY <1>1, <1>7 DEF IndInv, CallSound, MallocSound
  <2> QED BY <1>2, <2>1, AddressInjective
<1>8. ASSUME NEW e \in PoolHeap PROVE e.addr # p
  <2>1. PICK c \in 1 .. nblocks : mem[c].address = e.addr /\ mem[c].used
    BY <1>1, OwnedBlock
  <2> QED BY <1>2, <2>1, AddressInjective
<1>9. FreeSound(t)' BY <1>1, <1>2, <1>4, <1>5, <1>8 DEF FreeSound, seen
<1>10. MallocSound(t)' /\ ReallocSound(t)' BY <1>5 DEF MallocSound, ReallocSound, InMalloc
<1> QED BY <1>1, <1>4, <1>5, <1>6, <1>7, <1>9, <1>10, LocalStep DEF CallSound

LEMMA ReallocCallInv ==
  ASSUME TypeOK, IndInv, NEW t \in Threads, NEW e \in live, NEW s \in Sizes,
         ReallocCall(t, e, s), SinglePopper
  PROVE  IndInv'
<1> USE DEF memory, arena
<1> DEFINE l == th[t]  k == th'[t]
<1>1. Running /\ l \in Locals /\ l.pc = "idle" /\ t \in Allocators
  BY RolesAssumption DEF ReallocCall, MayCall, At, Running, TypeOK
<1>2. /\ e \in Extents /\ e.addr \in Int /\ \A u \in Threads : th[u].ptr # e.addr
      /\ UNCHANGED seen
  BY DEF ReallocCall, InCall, TypeOK, Extents, seen
<1>3. pool \in Nat BY SizesAssumption DEF TypeOK
<1>4. CASE /\ IsInCustomPool(e.addr)
           /\ th' = [th EXCEPT ![t].pc = "r_lock", ![t].ptr = e.addr, ![t].req = s]
           /\ UNCHANGED <<live, crtHeap, status>>
  <2>1. e \in PoolHeap BY <1>2, <1>3, <1>4 DEF IsInCustomPool, PoolHeap, InPool
  <2>2. /\ k.pc = "r_lock" /\ k.ptr = e.addr /\ k.req = s /\ e.addr # 0
        /\ \A u \in Threads \ {t} : th'[u] = th[u]
    BY <1>1, <1>2, <1>4 DEF TypeOK, Locals, Extents
  <2>3. PoolHeap' = PoolHeap BY <1>4 DEF PoolHeap, InPool
  <2>4. initialized BY <1>1, <2>1, OwnedBlock
  <2>5. ReallocSound(t)'
    BY <1>1, <1>2, <2>1, <2>2, <2>3, <2>4 DEF ReallocSound, InMalloc, AlignedSize, Pooled, seen
  <2>6. MallocSound(t)' /\ FreeSound(t)' BY <2>2 DEF MallocSound, FreeSound, InMalloc
  <2>7. \A u \in Threads \ {t} : th[u].pc = "m_take" => e.addr # mem[th[u].blk].address
    BY <1>1, <2>1, OwnedBlock
  <2> QED BY <1>1, <1>2, <2>2, <2>3, <2>5, <2>6, <2>7, LocalStep DEF CallSound
<1>5. CASE e.addr < 0 /\ live' = (live \ {e}) \cup {[e EXCEPT !.size = s]} /\ UNCHANGED th
  <2> DEFINE d == [e EXCEPT !.size = s]
  <2>1. d.addr < 0 /\ live' = (live \ {e}) \cup {d} BY <1>2, <1>5 DEF Extents
  <2> HIDE DEF d
  <2>2. ~InPool(d) /\ ~InPool(e)
    <3>1. d.addr = e.addr BY <1>2 DEF d, Extents
    <3> QED BY <1>2, <1>5, <3>1 DEF InPool
  <2>3. PoolHeap' = PoolHeap BY <2>1, <2>2, Zenon DEF PoolHeap
  <2> QED BY <1>1, <1>2, <1>5, <2>3, Unmoved
<1>6. CASE e.addr < 0 /\ live' = live \ {e} /\ UNCHANGED th
  <2>1. PoolHeap' = PoolHeap BY <1>2, <1>6 DEF PoolHeap, InPool
  <2> QED BY <1>1, <1>2, <1>6, <2>1, Unmoved
<1>7. CASE status' = "corrupt" BY <1>7 DEF IndInv, Running
<1> QED BY <1>4, <1>5, <1>6, <1>7 DEF ReallocCall

\* The block found, CustomRealloc still owns its argument when it allocates.
LEMMA ReallocFoundInv ==
  ASSUME TypeOK, IndInv, NEW t \in Threads, ReallocFound(t)
  PROVE  IndInv'
<1> USE DEF arena
<1>1. /\ Running /\ th[t].pc = "r_walk" /\ th[t].req \in Sizes
  BY DEF ReallocFound, At, Running, TypeOK, Locals
<1>2. t \in Allocators
  BY <1>1 DEF IndInv, CallSound, ReallocSound
<1>3. CASE EnterMalloc(t, th[t].req)
  <2>1. UNCHANGED seen BY DEF ReallocFound, seen
  <2> QED BY <1>1, <1>2, <1>3, <2>1, EnterMallocInv
<1>4. CASE status' = "corrupt" BY <1>4 DEF IndInv, Running
<1> QED BY <1>3, <1>4 DEF ReallocFound

-----------------------------------------------------------------------------
\* The three facts of the inductive proof.
LEMMA InitInv == Init => IndInv
<1> SUFFICES ASSUME Init PROVE IndInv OBVIOUS
<1>1. \A t \in Threads : th[t] = Idle BY DEF Init
<1>2. 1 .. nblocks = {} BY DEF Init
<1>3. PoolHeap = {} BY DEF Init, PoolHeap
<1>4. \A t \in Threads : th[t].pc = "idle" /\ th[t].ptr = 0 BY <1>1 DEF Idle
<1>5. BlocksTile
  <2>1. \A b \in Blocks : mem[b].address = 0 BY DEF Init
  <2> QED BY <1>2, <2>1 DEF BlocksTile
<1>6. FreeListShape BY DEF Init, FreeListShape
<1>7. OwnersExclusive BY <1>3 DEF OwnersExclusive
<1>8. ArgumentsDistinct /\ Startup BY <1>4 DEF Init, ArgumentsDistinct, Startup
<1>9. \A t \in Threads : CallSound(t)
  BY <1>4 DEF CallSound, MallocSound, FreeSound, ReallocSound, InMalloc
<1> QED BY <1>5, <1>6, <1>7, <1>8, <1>9 DEF IndInv

LEMMA CallInv ==
  ASSUME TypeOK, IndInv, NEW t \in Threads, Call(t), SinglePopper
  PROVE  IndInv'
<1>1. Requests \subseteq Sizes BY SizesAssumption DEF Sizes
<1> QED BY <1>1, MallocCallInv, CallocCallInv, FreeCallInv, DoubleFreeCallInv, ReallocCallInv,
           UsageCallInv, CleanupCallInv DEF Call

LEMMA StepInv ==
  ASSUME TypeOK, IndInv, NEW t \in Threads, Step(t), SinglePopper
  PROVE  IndInv'
<1>1. CASE CleanupEnd(t) BY <1>1 DEF CleanupEnd, IndInv, Running
<1> QED BY <1>1, InitPoolInv, InitStoresInv, PopLoadInv, PopReadNextInv, PopCASInv,
           MallocTakeInv, MallocAddInv, MallocLinkInv, WalkLockInv, WalkOnInv, FreeFoundInv,
           FreeClearInv, PushLoadInv, PushLinkInv, PushCASInv, ReallocFoundInv,
           UsageStepInv, UsageUnlockInv, UsageLogInv, CleanupDeleteInv DEF Step

LEMMA NextInv ==
  ASSUME TypeOK, IndInv, [Next]_vars, SinglePopper
  PROVE  IndInv'
<1>1. ASSUME NEW t \in Threads, Call(t) PROVE IndInv' BY <1>1, CallInv
<1>2. ASSUME NEW t \in Threads, Step(t) PROVE IndInv' BY <1>2, StepInv
<1>3. CASE UNCHANGED vars
  <2>0. /\ pool' = pool /\ initialized' = initialized /\ offset' = offset /\ head' = head
        /\ freeList' = freeList /\ onFree' = onFree /\ headMutex' = headMutex
        /\ nblocks' = nblocks /\ mem' = mem /\ th' = th
        /\ live' = live /\ crtHeap' = crtHeap /\ deleted' = deleted /\ status' = status
    BY <1>3 DEF vars, memory, arena, client
  <2>2. CASE ~Running BY <2>0, <2>2 DEF IndInv, Running
  <2>3. CASE Running
    <3>1. UNCHANGED <<seen, th>> /\ PoolHeap' = PoolHeap BY <2>0 DEF seen, PoolHeap, InPool
    <3> QED BY <2>3, <3>1, Unmoved
  <2> QED BY <2>2, <2>3
<1> QED BY <1>1, <1>2, <1>3 DEF Next, Stopped

\* The invariant, with the types, holds in every reachable state.
THEOREM Inductive ==
  ASSUME SinglePopper
  PROVE  Spec => [](TypeOK /\ IndInv)
<1>1. Init => IndInv BY InitInv
<1>2. TypeOK /\ IndInv /\ [Next]_vars => IndInv' BY NextInv
<1> QED BY <1>1, <1>2, TypeCorrect, PTL DEF Spec

\* The invariant the other results follow from.
THEOREM InvariantHolds ==
  ASSUME SinglePopper
  PROVE  Spec => []IndInv
BY Inductive, PTL

\* CustomMalloc never hands out memory that overlaps what a client still owns,
\* however many threads free: distinct extents are the memory of distinct blocks,
\* and the blocks tile the arena.
THEOREM NoOverlapHolds ==
  ASSUME SinglePopper
  PROVE  Spec => []NoOverlap
<1>1. TypeOK /\ IndInv => NoOverlap
  <2> SUFFICES ASSUME TypeOK, IndInv, Running, NEW e \in PoolHeap, NEW g \in PoolHeap, e # g
               PROVE  Apart(e, g)
    BY DEF NoOverlap
  <2>1. BlocksTile /\ OwnersExclusive BY DEF IndInv
  <2>2. PICK c \in 1 .. nblocks : mem[c].address = e.addr /\ e.size <= mem[c].size
    BY <2>1 DEF OwnersExclusive
  <2>3. PICK d \in 1 .. nblocks : mem[d].address = g.addr /\ g.size <= mem[d].size
    BY <2>1 DEF OwnersExclusive
  <2>4. c # d BY <2>1, <2>2, <2>3 DEF OwnersExclusive
  <2>5. /\ e.size \in Nat /\ g.size \in Nat
    BY SizesAssumption DEF PoolHeap, TypeOK, Extents, Sizes
  <2>6. /\ mem[c].address \in Nat /\ mem[c].size \in Nat
        /\ mem[d].address \in Nat /\ mem[d].size \in Nat
    BY BlocksMade DEF TypeOK
  <2>7. nblocks \in Nat BY SizesAssumption DEF TypeOK, Links
  <2>8. c < d \/ d < c BY <2>4, <2>7
  <2>9. \/ mem[c].address + mem[c].size <= mem[d].address
        \/ mem[d].address + mem[d].size <= mem[c].address
    BY <2>1, <2>8 DEF BlocksTile
  <2> QED BY <2>2, <2>3, <2>5, <2>6, <2>9 DEF Apart
<1> QED BY <1>1, Inductive, PTL

\* A block on the free list is unused and nobody else's, and the list goes on
\* inside itself.
THEOREM FreeListSafeHolds ==
  ASSUME SinglePopper
  PROVE  Spec => []FreeListSafe
<1>1. TypeOK /\ IndInv => FreeListSafe
  <2> SUFFICES ASSUME TypeOK, IndInv, Running, NEW b \in onFree
               PROVE  /\ ~mem[b].used /\ ~InHand(b)
                      /\ \A e \in live : e.addr # mem[b].address
                      /\ mem[b].next \in onFree \cup {0}
    BY DEF FreeListSafe
  <2>1. /\ BlocksTile /\ FreeListShape /\ \A t \in Threads : CallSound(t) BY DEF IndInv
  <2>2. b \in 1 .. nblocks /\ ~mem[b].used /\ mem[b].next \in onFree \cup {0}
    BY <2>1 DEF FreeListShape
  <2>3. ~InHand(b) BY <2>1, <2>2 DEF InHand, CallSound, MallocSound, FreeSound
  <2>4. ASSUME NEW e \in live PROVE e.addr # mem[b].address
    <3>1. CASE e \in PoolHeap
      <4>1. PICK c \in 1 .. nblocks : mem[c].address = e.addr /\ mem[c].used
        BY <3>1, OwnedBlock
      <4> QED BY <2>1, <2>2, <4>1, AddressInjective
    <3>2. CASE e \notin PoolHeap
      <4>1. ~(e.addr > 0) BY <3>2 DEF PoolHeap, InPool
      <4>2. mem[b].address > 0 BY <2>1, <2>2, AddressNotNull
      <4> QED BY <4>1, <4>2
    <3> QED BY <3>1, <3>2
  <2> QED BY <2>2, <2>3, <2>4
<1> QED BY <1>1, Inductive, PTL

\* No step rewrites the link of a block on the free list.
LEMMA FreeLinkKept ==
  ASSUME TypeOK, IndInv, Next, NEW b \in onFree
  PROVE  mem'[b].next = mem[b].next
<1> USE DEF memory, arena, client
<1>1. b \in Blocks BY DEF TypeOK
<1>2. CASE UNCHANGED mem BY <1>2
<1>3. ASSUME NEW t \in Threads, MallocTake(t) PROVE mem'[b].next = mem[b].next
  BY <1>1, <1>3 DEF MallocTake, TypeOK
<1>4. ASSUME NEW t \in Threads, FreeClear(t) PROVE mem'[b].next = mem[b].next
  BY <1>1, <1>4 DEF FreeClear, Clear, TypeOK
<1>5. ASSUME NEW t \in Threads, MallocLink(t) PROVE mem'[b].next = mem[b].next
  <2>1. Running BY <1>5 DEF MallocLink, At, Running
  <2>2. b \in 1 .. nblocks /\ nblocks \in Nat
    BY <2>1, SizesAssumption DEF IndInv, FreeListShape, TypeOK, Links
  <2>3. b # nblocks + 1 BY <2>2
  <2> QED BY <1>1, <1>5, <2>3 DEF MallocLink, TypeOK
<1>6. ASSUME NEW t \in Threads, PushLink(t) PROVE mem'[b].next = mem[b].next
  <2>1. b # th[t].blk BY <1>6 DEF PushLink, At, Running, IndInv, CallSound, FreeSound
  <2> QED BY <1>1, <1>6, <2>1 DEF PushLink, TypeOK
<1>7. ASSUME NEW t \in Threads, Call(t) PROVE UNCHANGED mem
  BY <1>7 DEF Call, MallocCall, CallocCall, FreeCall, DoubleFreeCall, ReallocCall,
              UsageCall, CleanupCall
<1>8. ASSUME NEW t \in Threads, Step(t), ~MallocTake(t), ~FreeClear(t), ~MallocLink(t),
             ~PushLink(t)
      PROVE  UNCHANGED mem
  BY <1>8 DEF Step, InitPool, InitStores, PopLoad, PopReadNext, PopCAS, MallocAdd,
              WalkLock, WalkOn, FreeFound, PushLoad, PushCAS, ReallocFound,
              UsageStep, UsageUnlock, UsageLog, CleanupDelete, CleanupEnd
<1>9. CASE Stopped BY <1>9 DEF Stopped, vars
<1> QED BY <1>2, <1>3, <1>4, <1>5, <1>6, <1>7, <1>8, <1>9 DEF Next

\* No step rewrites the link of a block that stays on the free list, which the
\* exchange of a pop takes for granted.
THEOREM FreeLinkStableHolds ==
  ASSUME SinglePopper
  PROVE  Spec => FreeLinkStable
<1> DEFINE Stable == \A b \in onFree \cap onFree' : mem'[b].next = mem[b].next
<1>1. TypeOK /\ IndInv /\ [Next]_vars => [Stable]_vars BY FreeLinkKept
<1>2. [][Stable]_vars <=> FreeLinkStable BY DEF FreeLinkStable
<1> QED BY <1>1, <1>2, Inductive, PTL DEF Spec
=============================================================================

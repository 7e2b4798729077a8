--------------------------- MODULE PoolAllocator ---------------------------
(***************************************************************************)
(* The custom memory pool of "src/Redone/Overdrive exe.cpp" (196-365):     *)
(* one VirtualAlloc'ed arena, a bump offset, a list of all blocks (head),  *)
(* a lock-free list of freed blocks (freeList), and one `next' field that  *)
(* both lists share.                                                       *)
(*                                                                         *)
(* A step makes at most one access to memory that other threads may write  *)
(* at the time, so the interleavings of the exported functions are the     *)
(* interleavings of their steps.  Addresses are integers: 0 is nullptr,    *)
(* the arena starts at PoolBase, and the blocks of the C heap, which the   *)
(* arena never meets, are negative.                                        *)
(*                                                                         *)
(* The client's obligations are the guards of its calls: it frees and      *)
(* resizes what it owns, and Main makes the first pooled request.  What    *)
(* follows a fetch_add that wraps size_t is undefined, and left out.       *)
(***************************************************************************)
EXTENDS Integers, FiniteSets

CONSTANTS Allocators,     \* threads that call CustomMalloc and CustomCalloc
          Freers,         \* threads that call CustomFree
          Resizers,       \* threads that call CustomRealloc
          Reporters,      \* threads that call DebugMemoryUsage
          Closers,        \* threads that call CleanupMemoryPool
          Main,           \* the thread that makes the first pooled request
          NoThread,       \* headMutex is free
          Requests,       \* byte counts the clients ask for
          CallocArgs,     \* pairs <<n, s>> the clients give CustomCalloc
          MinPoolSize,    \* 1024 in the source
          Alignment,      \* 16
          TotalPoolSize,  \* TOTAL_POOL_SIZE, 2 GiB
          SizeMod,        \* 2^32 or 2^64: size_t is 0 .. SizeMod - 1
          PoolBase,       \* what VirtualAlloc returns
          MaxBlocks,      \* bound: MemoryBlocks that `new' can supply
          MaxCrt          \* bound: blocks that malloc can supply

Threads == Allocators \cup Freers \cup Resizers \cup Reporters \cup Closers
Blocks  == 1 .. MaxBlocks
\* Mutants: the rounding goes down, or is forgotten.
AlignedDown(s) == (s \div Alignment) * Alignment
Unaligned(s)   == s
AlignedSize(s) == ((s + Alignment - 1) \div Alignment) * Alignment
Pooled(s)      == s >= MinPoolSize /\ s <= TotalPoolSize \div 3

ASSUME SizesAssumption ==
  /\ {MinPoolSize, Alignment, TotalPoolSize, SizeMod, PoolBase} \subseteq Nat \ {0}
  /\ {MaxBlocks, MaxCrt} \subseteq Nat
  /\ TotalPoolSize < SizeMod
  /\ Requests \subseteq 0 .. SizeMod - 1
  /\ CallocArgs \subseteq (0 .. SizeMod - 1) \X (0 .. SizeMod - 1)
  /\ PoolBase % Alignment = 0

ASSUME RolesAssumption ==
  /\ Resizers \subseteq Allocators \cap Freers
  /\ Main \in Allocators
  /\ IsFiniteSet(Threads)
  /\ NoThread \notin Threads

VARIABLES
  pool, offset, head, freeList, initialized, headMutex,
  nblocks, mem,   \* the MemoryBlocks made so far are mem[1 .. nblocks]
  th,             \* per thread: program counter, arguments and locals
  live,           \* ghost: the extents the clients own
  onFree,         \* ghost: the blocks pushed and not popped since
  crtHeap,        \* the C heap's blocks in use
  refused,        \* ghost: the requests the limit check has refused
  deleted,        \* the MemoryBlocks CleanupMemoryPool deleted
  status          \* "run", or why the process stopped

arena  == <<pool, initialized, offset, refused>>
memory == <<arena, head, freeList, onFree, headMutex, nblocks, mem>>
client == <<live, crtHeap, deleted, status>>
vars   == <<memory, th, client>>

Idle == [pc |-> "idle", req |-> 0, ptr |-> 0, blk |-> 0, lnk |-> 0, off |-> 0,
         res |-> 0, usedMemory |-> 0, freeMemory |-> 0]

Init ==
  /\ pool = 0 /\ offset = 0 /\ head = 0 /\ freeList = 0 /\ initialized = FALSE
  /\ headMutex = NoThread /\ onFree = {} /\ nblocks = 0
  /\ mem = [b \in Blocks |-> [size |-> 0, used |-> FALSE, address |-> 0, next |-> 0]]
  /\ th = [t \in Threads |-> Idle]
  /\ live = {} /\ crtHeap = {} /\ deleted = {} /\ status = "run" /\ refused = 0

-----------------------------------------------------------------------------
At(t, label) == status = "run" /\ th[t].pc = label
\* Mutants: the arena's first block is outside; everything below is inside.
InPoolOpen(p)  == pool # 0 /\ p > pool /\ p < pool + TotalPoolSize
InPoolBelow(p) == pool # 0 /\ p < pool + TotalPoolSize
IsInCustomPool(p) == pool # 0 /\ p >= pool /\ p < pool + TotalPoolSize
Lock(t) == headMutex = NoThread /\ headMutex' = t
Unlock  == headMutex' = NoThread

\* A client calls when its thread is idle and nobody is cleaning up.
MayCall(t) == At(t, "idle") /\ \A u \in Threads : th[u].pc # "c_walk"
MayPool(t, s) == Pooled(s) => t = Main \/ initialized
\* Pointers that are the argument or the pending result of a running call.
InCall == {th[t].ptr : t \in Threads} \cup {th[t].res : t \in Threads}

\* CustomMalloc returns p (0: nullptr) for a request of s bytes.  Inside
\* CustomRealloc (th[t].ptr is its argument) a non-null result is followed by
\* memcpy and CustomFree(th[t].ptr).  Mutant: nullptr is taken for a block.
Granted(t, p, s) == {e \in live : e.addr # th[t].ptr} \cup {[addr |-> p, size |-> s]}
LiveAfter(t, p, s) == IF p = 0 THEN live ELSE Granted(t, p, s)
MallocReturn(t, p, s) ==
  /\ live' = LiveAfter(t, p, s)
  /\ th' = [th EXCEPT ![t] =
              IF p = 0 \/ th[t].ptr = 0 THEN Idle
              ELSE [Idle EXCEPT !.pc = "f_lock", !.ptr = th[t].ptr, !.res = p]]

\* CustomMalloc up to InitMemoryPool.
EnterMalloc(t, s) ==
  \/ ~Pooled(s) /\ MallocReturn(t, 0, s) /\ UNCHANGED crtHeap
  \/ /\ ~Pooled(s) /\ s # 0
     /\ \E c \in (1 .. MaxCrt) \ crtHeap :
          MallocReturn(t, -c, s) /\ crtHeap' = crtHeap \cup {c}
  \/ /\ Pooled(s) /\ th' = [th EXCEPT ![t].pc = "m_init", ![t].req = s]
     /\ UNCHANGED <<live, crtHeap>>

MallocCall(t, s) ==
  /\ MayCall(t) /\ t \in Allocators /\ MayPool(t, s)
  /\ EnterMalloc(t, s)
  /\ UNCHANGED <<memory, deleted, status>>

\* The product wraps in size_t.
CallocCall(t, n, s) == MallocCall(t, (n * s) % SizeMod)

\* InitMemoryPool: test `initialized', VirtualAlloc, store pool ...
InitPool(t) ==
  /\ At(t, "m_init")
  /\ \/ /\ initialized /\ th' = [th EXCEPT ![t].pc = "m_pop"]
        /\ UNCHANGED <<pool, status>>
     \/ /\ ~initialized /\ th' = [th EXCEPT ![t].pc = "m_setup"]
        /\ pool' = PoolBase /\ UNCHANGED status
     \/ ~initialized /\ status' = "exited" /\ UNCHANGED <<pool, th>>
  /\ UNCHANGED <<initialized, offset, refused, head, freeList, onFree, headMutex, nblocks,
                 mem, live, crtHeap, deleted>>

\* ... and the stores nobody looks at before `initialized' is set.
InitStores(t) ==
  /\ At(t, "m_setup") /\ th' = [th EXCEPT ![t].pc = "m_pop"]
  /\ offset' = 0 /\ head' = 0 /\ freeList' = 0 /\ initialized' = TRUE
  /\ UNCHANGED <<pool, refused, onFree, headMutex, nblocks, mem, client>>

\* PopFreeBlock: the load, and the reload of a failed compare_exchange.
PopReload(t) ==
  th' = [th EXCEPT ![t].blk = freeList,
                   ![t].pc = IF freeList = 0 THEN "m_add" ELSE "m_next"]

PopLoad(t) == At(t, "m_pop") /\ PopReload(t) /\ UNCHANGED <<memory, client>>

PopReadNext(t) ==
  /\ At(t, "m_next")
  /\ th' = [th EXCEPT ![t].pc = "m_cas", ![t].lnk = mem[th[t].blk].next]
  /\ UNCHANGED <<memory, client>>

\* Mutants: a store instead of the exchange; a failed exchange that keeps its
\* stale block.
PopAlways(t) == TRUE
PopWins(t)   == freeList = th[t].blk
PopStale(t)  ==
  /\ At(t, "m_cas")
  /\ \/ /\ PopWins(t) /\ freeList' = th[t].lnk /\ onFree' = onFree \ {th[t].blk}
        /\ th' = [th EXCEPT ![t].pc = "m_take", ![t].lnk = 0]
     \/ ~PopWins(t) /\ th' = [th EXCEPT ![t].pc = "m_next"] /\ UNCHANGED <<freeList, onFree>>
  /\ UNCHANGED <<arena, head, headMutex, nblocks, mem, client>>
PopCAS(t) ==
  /\ At(t, "m_cas")
  /\ \/ /\ PopWins(t) /\ freeList' = th[t].lnk
        /\ onFree' = onFree \ {th[t].blk}
        /\ th' = [th EXCEPT ![t].pc = "m_take", ![t].lnk = 0]
     \/ ~PopWins(t) /\ PopReload(t) /\ UNCHANGED <<freeList, onFree>>
  /\ UNCHANGED <<arena, head, headMutex, nblocks, mem, client>>

\* A popped block that is too small is dropped and the next one is popped.
FitsAny(b, s) == TRUE   \* mutant: the size is not compared
Fits(b, s)    == mem[b].size >= AlignedSize(s)
MallocTake(t) ==
  /\ At(t, "m_take")
  /\ \/ /\ Fits(th[t].blk, th[t].req)
        /\ mem' = [mem EXCEPT ![th[t].blk].used = TRUE]
        /\ MallocReturn(t, mem[th[t].blk].address, th[t].req)
     \/ /\ ~Fits(th[t].blk, th[t].req)
        /\ th' = [th EXCEPT ![t].pc = "m_pop"] /\ UNCHANGED <<mem, live>>
  /\ UNCHANGED <<arena, head, freeList, onFree, headMutex, nblocks, crtHeap, deleted,
                 status>>

\* offset.fetch_add, and the limit check on its result.  A refused request is
\* not taken back, so that offset can reach the width of size_t: the sum that
\* wraps there passes the check, and the client is handed memory beyond the
\* arena.  The run stops at that point.
RefusedLate(cur, s) == cur > TotalPoolSize   \* mutant: the request is left out
Refused(cur, s)     == cur + s > TotalPoolSize
MallocAdd(t) ==
  LET aligned == AlignedSize(th[t].req)
      sum     == offset + aligned
  IN
  /\ At(t, "m_add")
  /\ \/ /\ sum >= SizeMod /\ status' = "wrapped" /\ UNCHANGED <<offset, refused, th, live>>
     \/ /\ sum < SizeMod /\ Refused(offset, aligned)
        /\ offset' = sum /\ refused' = refused + 1
        /\ MallocReturn(t, 0, th[t].req) /\ UNCHANGED status
     \/ /\ sum < SizeMod /\ ~Refused(offset, aligned)
        /\ offset' = sum /\ th' = [th EXCEPT ![t].pc = "m_link", ![t].off = offset]
        /\ UNCHANGED <<refused, live, status>>
  /\ UNCHANGED <<pool, initialized, head, freeList, onFree, headMutex, nblocks, mem,
                 crtHeap, deleted>>

\* new MemoryBlock (or std::bad_alloc), and its insertion under headMutex.
BlockOf(t, p, link) == [size |-> AlignedSize(th[t].req), used |-> TRUE, address |-> p,
                        next |-> link]
\* Mutants: the old head is lost; head is stored before it is read.
NewUnlinked(t, p) == BlockOf(t, p, 0)
NewSelf(t, p)     == BlockOf(t, p, nblocks + 1)
NewBlock(t, p)    == BlockOf(t, p, head)
MallocLink(t) ==
  LET p == pool + th[t].off IN
  /\ At(t, "m_link")
  /\ \/ /\ headMutex = NoThread /\ nblocks < MaxBlocks
        /\ nblocks' = nblocks + 1 /\ head' = nblocks + 1
        /\ mem' = [mem EXCEPT ![nblocks + 1] = NewBlock(t, p)]
        /\ MallocReturn(t, p, th[t].req) /\ UNCHANGED status
     \/ status' = "exited" /\ UNCHANGED <<nblocks, head, mem, th, live>>
  /\ UNCHANGED <<arena, freeList, onFree, headMutex, crtHeap, deleted>>

-----------------------------------------------------------------------------
\* CustomFree of an owned extent, up to the lock.  Without a pool it returns
\* at once, and a block of the C heap stays allocated.
FreeCall(t, e) ==
  /\ MayCall(t) /\ t \in Freers /\ e \in live /\ e.addr \notin InCall
  /\ live' = live \ {e}
  /\ \/ /\ IsInCustomPool(e.addr)
        /\ th' = [th EXCEPT ![t].pc = "f_lock", ![t].ptr = e.addr]
        /\ UNCHANGED <<crtHeap, status>>
     \/ /\ pool # 0 /\ ~IsInCustomPool(e.addr)
        /\ crtHeap' = crtHeap \ {-e.addr}
        /\ status' = IF e.addr < 0 THEN status ELSE "corrupt"
        /\ UNCHANGED th
     \/ pool = 0 /\ UNCHANGED <<th, crtHeap, status>>
  /\ UNCHANGED <<memory, deleted>>

\* CustomFree again of a block that lies on the free list, by a thread that
\* could itself have taken it from there.
DoubleFreeCall(t, b) ==
  /\ MayCall(t) /\ t \in Freers \cap Allocators /\ b \in onFree
  /\ IsInCustomPool(mem[b].address)
  /\ th' = [th EXCEPT ![t].pc = "f_lock", ![t].ptr = mem[b].address]
  /\ UNCHANGED <<memory, client>>

\* CustomFree and CustomRealloc lock headMutex and load head ...
WalkLock(t) ==
  /\ \/ At(t, "f_lock") /\ th' = [th EXCEPT ![t].pc = "f_walk", ![t].blk = head]
     \/ At(t, "r_lock") /\ th' = [th EXCEPT ![t].pc = "r_walk", ![t].blk = head]
  /\ Lock(t)
  /\ UNCHANGED <<arena, head, freeList, onFree, nblocks, mem, client>>

\* ... and follow `next', which a push may be rewriting, to the block of ptr.
WalkEnds(t) == th[t].blk # 0 => mem[th[t].blk].address = th[t].ptr
WalkOn(t) ==
  /\ At(t, "f_walk") \/ At(t, "r_walk")
  /\ ~WalkEnds(t)
  /\ th' = [th EXCEPT ![t].blk = mem[th[t].blk].next]
  /\ UNCHANGED <<memory, client>>

FreeableAny(b) == b # 0   \* mutant: a block that is free already is freed again
Freeable(b)    == b # 0 /\ mem[b].used
FreeFound(t) ==
  /\ At(t, "f_walk") /\ WalkEnds(t)
  /\ Unlock
  /\ th' = [th EXCEPT ![t] = IF Freeable(th[t].blk) THEN [@ EXCEPT !.pc = "f_clear"]
                             ELSE Idle]
  /\ UNCHANGED <<arena, head, freeList, onFree, nblocks, mem, client>>

ClearNone(b) == mem   \* mutant: `used' stays set
Clear(b)     == [mem EXCEPT ![b].used = FALSE]
FreeClear(t) ==
  /\ At(t, "f_clear") /\ th' = [th EXCEPT ![t].pc = "f_push"]
  /\ mem' = Clear(th[t].blk)
  /\ UNCHANGED <<arena, head, freeList, onFree, headMutex, nblocks, client>>

\* PushFreeBlock.
PushReload(t) == th' = [th EXCEPT ![t].pc = "f_link", ![t].lnk = freeList]

PushLoad(t) == At(t, "f_push") /\ PushReload(t) /\ UNCHANGED <<memory, client>>

PushLink(t) ==
  /\ At(t, "f_link") /\ th' = [th EXCEPT ![t].pc = "f_cas"]
  /\ mem' = [mem EXCEPT ![th[t].blk].next = th[t].lnk]
  /\ UNCHANGED <<arena, head, freeList, onFree, headMutex, nblocks, client>>

PushAlways(t) == TRUE   \* mutant: a store instead of the exchange
PushWins(t)   == freeList = th[t].lnk
PushCAS(t) ==
  /\ At(t, "f_cas")
  /\ \/ /\ PushWins(t) /\ freeList' = th[t].blk
        /\ onFree' = onFree \cup {th[t].blk}
        /\ th' = [th EXCEPT ![t] = Idle]
     \/ ~PushWins(t) /\ PushReload(t) /\ UNCHANGED <<freeList, onFree>>
  /\ UNCHANGED <<arena, head, headMutex, nblocks, mem, client>>

-----------------------------------------------------------------------------
\* CustomRealloc of an owned extent (of nullptr, it is MallocCall).
ReallocCall(t, e, s) ==
  /\ MayCall(t) /\ t \in Resizers /\ MayPool(t, s)
  /\ e \in live /\ e.addr \notin InCall
  /\ \/ /\ IsInCustomPool(e.addr)
        /\ th' = [th EXCEPT ![t].pc = "r_lock", ![t].ptr = e.addr, ![t].req = s]
        /\ UNCHANGED <<live, crtHeap, status>>
     \/ /\ ~IsInCustomPool(e.addr) /\ e.addr < 0 /\ s # 0
        /\ live' = (live \ {e}) \cup {[e EXCEPT !.size = s]}
        /\ UNCHANGED <<th, crtHeap, status>>
     \/ /\ ~IsInCustomPool(e.addr) /\ e.addr < 0 /\ s = 0
        /\ live' = live \ {e} /\ crtHeap' = crtHeap \ {-e.addr}
        /\ UNCHANGED <<th, status>>
     \/ /\ ~IsInCustomPool(e.addr) /\ e.addr > 0 /\ status' = "corrupt"
        /\ UNCHANGED <<th, live, crtHeap>>
  /\ UNCHANGED <<memory, deleted>>

\* Found: CustomMalloc(size).  Not found: the C library's realloc is handed a
\* pointer into the arena.
ReallocFound(t) ==
  /\ At(t, "r_walk") /\ WalkEnds(t)
  /\ Unlock
  /\ IF th[t].blk # 0 THEN EnterMalloc(t, th[t].req) /\ UNCHANGED status
     ELSE status' = "corrupt" /\ UNCHANGED <<th, live, crtHeap>>
  /\ UNCHANGED <<arena, head, freeList, onFree, nblocks, mem, deleted>>

-----------------------------------------------------------------------------
\* DebugMemoryUsage: the walk under the lock, then the log line.
UsageCall(t) ==
  /\ MayCall(t) /\ t \in Reporters /\ Lock(t)
  /\ th' = [th EXCEPT ![t].pc = "u_walk", ![t].blk = head]
  /\ UNCHANGED <<arena, head, freeList, onFree, nblocks, mem, client>>

UsageStep(t) ==
  LET b == mem[th[t].blk] IN
  /\ At(t, "u_walk") /\ th[t].blk # 0
  /\ th' = [th EXCEPT ![t].blk = b.next,
              ![t].usedMemory = IF b.used THEN (@ + b.size) % SizeMod ELSE @,
              ![t].freeMemory = IF b.used THEN @ ELSE (@ + b.size) % SizeMod]
  /\ UNCHANGED <<memory, client>>

UsageUnlock(t) ==
  /\ At(t, "u_walk") /\ th[t].blk = 0
  /\ Unlock /\ th' = [th EXCEPT ![t].pc = "u_log"]
  /\ UNCHANGED <<arena, head, freeList, onFree, nblocks, mem, client>>

UsageLog(t) ==
  At(t, "u_log") /\ th' = [th EXCEPT ![t] = Idle] /\ UNCHANGED <<memory, client>>

\* CleanupMemoryPool, when no other call is running ...
CleanupCall(t) ==
  /\ t \in Closers /\ pool # 0 /\ \A u \in Threads : At(u, "idle")
  /\ Lock(t) /\ th' = [th EXCEPT ![t].pc = "c_walk", ![t].blk = head]
  /\ UNCHANGED <<arena, head, freeList, onFree, nblocks, mem, client>>

CleanupDelete(t) ==
  /\ At(t, "c_walk") /\ th[t].blk # 0
  /\ deleted' = deleted \cup {th[t].blk}
  /\ th' = [th EXCEPT ![t].blk = mem[th[t].blk].next]
  /\ UNCHANGED <<memory, live, crtHeap, status>>

\* ... VirtualFree and the final stores.  `initialized' is not reset: a client
\* that came back would be served from a null pool, so it must not.
CleanupEnd(t) ==
  /\ At(t, "c_walk") /\ th[t].blk = 0
  /\ pool' = 0 /\ offset' = 0 /\ head' = 0 /\ freeList' = 0 /\ Unlock
  /\ th' = [th EXCEPT ![t] = Idle] /\ status' = "closed"
  /\ UNCHANGED <<initialized, refused, onFree, nblocks, mem, live, crtHeap, deleted>>

-----------------------------------------------------------------------------
Call(t) ==
  \/ \E s \in Requests : MallocCall(t, s)
  \/ \E ns \in CallocArgs : CallocCall(t, ns[1], ns[2])
  \/ \E e \in live : FreeCall(t, e)
  \/ \E b \in onFree : DoubleFreeCall(t, b)
  \/ \E e \in live, s \in Requests : ReallocCall(t, e, s)
  \/ UsageCall(t)
  \/ CleanupCall(t)

Step(t) ==
  \/ InitPool(t) \/ InitStores(t)
  \/ PopLoad(t) \/ PopReadNext(t) \/ PopCAS(t)
  \/ MallocTake(t) \/ MallocAdd(t) \/ MallocLink(t)
  \/ WalkLock(t) \/ WalkOn(t)
  \/ FreeFound(t) \/ FreeClear(t) \/ PushLoad(t) \/ PushLink(t) \/ PushCAS(t)
  \/ ReallocFound(t)
  \/ UsageStep(t) \/ UsageUnlock(t) \/ UsageLog(t)
  \/ CleanupDelete(t) \/ CleanupEnd(t)

\* The process has exited, crashed, or given the pool back.
Stopped == status # "run" /\ UNCHANGED vars

Next == (\E t \in Threads : Call(t) \/ Step(t)) \/ Stopped

Spec     == Init /\ [][Next]_vars
\* The operating system's scheduler runs every thread that can run.
FairSpec == Spec /\ \A t \in Threads : WF_vars(Step(t))
=============================================================================

--------------------------- MODULE PoolProperties ---------------------------
(***************************************************************************)
(* What the custom memory pool promises: see PoolAllocator.                *)
(***************************************************************************)
EXTENDS PoolAllocator

Running == status = "run"

Labels == {"idle", "m_init", "m_setup", "m_pop", "m_next", "m_cas", "m_take",
           "m_add", "m_link", "f_lock", "f_walk", "f_clear", "f_push", "f_link",
           "f_cas", "r_lock", "r_walk", "u_walk", "u_log", "c_walk"}
Links   == 0 .. MaxBlocks                 \* MemoryBlock*
Sizes   == 0 .. SizeMod - 1               \* size_t
Extents == [addr : Int \ {0}, size : Sizes \ {0}]
Locals  == [pc : Labels, req : Sizes, ptr : Int, blk : Links, lnk : Links,
            off : Sizes, res : Int, usedMemory : Sizes, freeMemory : Sizes]

\* The blocks a chain of `next' pointers visits from h on, in the memory m: the
\* least set that has h and, with a block, the block it links to.
Follows(m, h, S) == /\ h # 0 => h \in S
                    /\ \A b \in S : m[b].next # 0 => m[b].next \in S
ChainIn(m, h)    == {b \in Blocks : \A S \in SUBSET Blocks : Follows(m, h, S) => b \in S}
Chain(h)         == ChainIn(mem, h)

\* The bytes of the blocks whose memory the clients own.
Owned(b)   == \E e \in live : e.addr = mem[b].address
OwnedSizes == [b \in Blocks |-> IF Owned(b) THEN mem[b].size ELSE 0]
Totals(w)  == LET sum[n \in 0 .. MaxBlocks] == IF n = 0 THEN 0 ELSE sum[n - 1] + w[n]
              IN  sum
LiveBytes  == Totals(OwnedSizes)[nblocks]

InPool(e) == e.addr > 0
PoolHeap  == {e \in live : InPool(e)}
Apart(e, g) == e.addr + e.size <= g.addr \/ g.addr + g.size <= e.addr
\* The block a pop has taken or a free is about to push.
InHand(b) == \E t \in Threads :
  th[t].pc \in {"m_take", "f_clear", "f_push", "f_link", "f_cas"} /\ th[t].blk = b

-----------------------------------------------------------------------------
\* Types.  A client is never handed nullptr as an extent, nor one of no bytes.
TypeOK ==
  /\ pool \in {0, PoolBase} /\ initialized \in BOOLEAN /\ offset \in Sizes
  /\ head \in Links /\ freeList \in Links /\ onFree \subseteq Blocks
  /\ headMutex \in Threads \cup {NoThread} /\ nblocks \in Links
  /\ mem \in [Blocks -> [size : Nat, used : BOOLEAN, address : Nat, next : Links]]
  /\ th \in [Threads -> Locals]
  /\ live \subseteq Extents /\ crtHeap \subseteq 1 .. MaxCrt /\ deleted \subseteq Blocks
  /\ status \in {"run", "exited", "corrupt", "closed", "wrapped"}
  /\ refused \in Nat

\* CustomMalloc never hands out memory that overlaps what another client still
\* owns: not through the bump offset, not through a reused block, not while
\* pushes and pops of the free list race, not for the two blocks of a realloc.
NoOverlap == Running => \A e, g \in PoolHeap : e # g => Apart(e, g)

\* A block on the free list is unused, nobody owns its memory, no call is about
\* to hand it out or to push it again, and the chain goes on inside the list.
FreeListSafe == Running => \A b \in onFree :
  /\ ~mem[b].used /\ ~InHand(b)
  /\ \A e \in live : e.addr # mem[b].address
  /\ mem[b].next \in onFree \cup {0}

\* The chain from freeList visits exactly the blocks pushed and not popped: no
\* race of PushFreeBlock and PopFreeBlock loses a block or brings one back.
FreeListExact == Running => Chain(freeList) = onFree

\* PushFreeBlock links a block before it publishes it: while a block stays on
\* the free list its link does not change, which PopFreeBlock's exchange of a
\* link it read earlier depends on.
FreeLinkStable ==
  [][\A b \in onFree \cap onFree' : mem'[b].next = mem[b].next]_vars

\* CustomFree hands the C library's free only what malloc returned.
NoCorruption == status # "corrupt"

\* Once there is a pool, CustomFree of a C-heap block gives it back: blocks leak
\* only when they are freed before the first pooled request.
CrtLeaked == {c \in crtHeap : \A e \in live : e.addr # -c}
CrtLeakOnlyBeforePool ==
  [][Running /\ pool # 0 => CrtLeaked' \subseteq CrtLeaked]_vars

\* With no frees, every extent handed out can be found from head by CustomFree.
AllocatedReachable == Running =>
  \A e \in PoolHeap : \E b \in Chain(head) : mem[b].address = e.addr

\* One thread at a time: although frees rewrite the links of the head list, the
\* list runs from newer blocks to older ones, so that no walk meets a block twice.
HeadOrder == Running => \A b \in Chain(head) : mem[b].next < b

\* CleanupMemoryPool reads and deletes each MemoryBlock at most once.
CleanupDeletesOnce == \A t \in Threads :
  At(t, "c_walk") => th[t].blk \notin deleted

\* One thread at a time, DebugMemoryUsage does not report more than there is.
UsageNeverTooHigh == \A t \in Threads : At(t, "u_log") =>
  /\ th[t].usedMemory <= LiveBytes
  /\ th[t].usedMemory + th[t].freeMemory <= TotalPoolSize

\* One thread at a time, DebugMemoryUsage's "Used" is the memory in use.
UsageExact == \A t \in Threads : At(t, "u_log") => th[t].usedMemory = LiveBytes

\* A request refused at the limit stays in offset.  The sum in the limit check
\* wraps, and CustomMalloc hands out memory beyond the arena, no sooner than the
\* refused requests alone can have filled size_t above TOTAL_POOL_SIZE.
BiggestBid == AlignedSize(TotalPoolSize \div 3)
WrapTakesRefusals ==
  status = "wrapped" => TotalPoolSize + (refused + 1) * BiggestBid >= SizeMod

\* CustomMalloc, CustomFree and CustomRealloc implement the abstract heap.
Heap == INSTANCE AbstractHeap WITH
          Lo <- PoolBase, Hi <- PoolBase + TotalPoolSize, heap <- PoolHeap
ImplementsHeap == Heap!Spec

-----------------------------------------------------------------------------
Walks(t)    == th[t].pc \in {"f_walk", "r_walk", "u_walk", "c_walk"}
InMalloc(t) == th[t].pc \in {"m_init", "m_setup", "m_pop", "m_next", "m_cas",
                             "m_take", "m_add", "m_link"}

\* The inductive invariant behind the safety properties above, for one thread
\* that pops.  The parts: the blocks tile the arena below offset ...
BlocksTile ==
  /\ \A b \in 1 .. nblocks :
       /\ pool = PoolBase /\ initialized
       /\ mem[b].address >= PoolBase /\ mem[b].size > 0
       /\ mem[b].address + mem[b].size <= PoolBase + offset
       /\ mem[b].address + mem[b].size <= PoolBase + TotalPoolSize
  /\ \A b \in Blocks : b > nblocks => mem[b].address = 0
  /\ \A b, c \in 1 .. nblocks : b < c =>
       mem[b].address + mem[b].size <= mem[c].address

\* ... the free list is a list: closed, without sharing, nothing before its top ...
FreeListShape ==
  /\ onFree \subseteq 1 .. nblocks
  /\ freeList \in onFree \cup {0}
  /\ \A b \in onFree : /\ ~mem[b].used
                       /\ mem[b].next \in onFree \cup {0}
                       /\ mem[b].next # 0 => mem[b].next # freeList
  /\ \A b, c \in onFree : mem[b].next = mem[c].next => b = c \/ mem[b].next = 0

\* ... a client owns used blocks, each once ...
OwnersExclusive ==
  /\ \A e \in PoolHeap : \E b \in 1 .. nblocks :
       mem[b].address = e.addr /\ e.size <= mem[b].size /\ mem[b].used
  /\ \A e, g \in PoolHeap : e.addr = g.addr => e = g

\* ... a CustomMalloc in progress has what it needs ...
MallocSound(t) ==
  LET l == th[t] IN
  /\ InMalloc(t) => t \in Allocators /\ Pooled(l.req)
  /\ l.pc = "m_setup" => ~initialized /\ pool = PoolBase
  /\ l.pc \in {"m_pop", "m_next", "m_cas", "m_take", "m_add", "m_link"} =>
       initialized /\ pool = PoolBase
  /\ l.pc \in {"m_next", "m_cas"} => l.blk \in onFree
  /\ l.pc = "m_cas" => l.lnk = mem[l.blk].next
  /\ l.pc = "m_take" => /\ l.blk \in (1 .. nblocks) \ onFree /\ ~mem[l.blk].used
                        /\ \A u \in Threads : th[u].ptr # mem[l.blk].address
  /\ l.pc = "m_link" =>
       /\ l.off + AlignedSize(l.req) <= offset
       /\ l.off + AlignedSize(l.req) <= TotalPoolSize
       /\ \A b \in 1 .. nblocks : mem[b].address + mem[b].size <= PoolBase + l.off

\* ... a CustomFree in progress holds a block nobody else does ...
FreeSound(t) ==
  LET l == th[t] IN
  /\ l.pc \in {"f_lock", "f_walk", "f_clear", "f_push", "f_link", "f_cas"} =>
       /\ \E b \in 1 .. nblocks : mem[b].address = l.ptr
       /\ \A e \in PoolHeap : e.addr # l.ptr
  /\ l.pc \in {"f_lock", "f_walk"} => \E b \in 1 .. nblocks :
       mem[b].address = l.ptr /\ (mem[b].used \/ (b \in onFree /\ t \in Allocators))
  /\ l.pc \in {"f_clear", "f_push", "f_link", "f_cas"} =>
       l.blk \in 1 .. nblocks /\ mem[l.blk].address = l.ptr
  /\ l.pc = "f_clear" => mem[l.blk].used
  /\ l.pc \in {"f_push", "f_link", "f_cas"} => ~mem[l.blk].used /\ l.blk \notin onFree
  /\ l.pc = "f_cas" => mem[l.blk].next = l.lnk

\* ... and a CustomRealloc in progress still owns its argument.
ReallocSound(t) ==
  LET l == th[t] IN
  /\ l.pc \in {"idle", "u_walk", "u_log", "c_walk"} => l.ptr = 0
  /\ l.pc \in {"r_lock", "r_walk"} =>
       /\ t \in Allocators /\ l.ptr # 0
       /\ Pooled(l.req) => initialized
  /\ (InMalloc(t) /\ l.ptr # 0) \/ l.pc \in {"r_lock", "r_walk"} =>
       \E e \in PoolHeap : e.addr = l.ptr

ArgumentsDistinct == \A t, u \in Threads :
  t # u /\ th[t].ptr # 0 => th[t].ptr # th[u].ptr
Startup ==
  /\ ~initialized => nblocks = 0 /\ onFree = {} /\ offset = 0
  /\ initialized => pool = PoolBase

CallSound(t) == MallocSound(t) /\ FreeSound(t) /\ ReallocSound(t)

IndInv == Running =>
  /\ BlocksTile /\ FreeListShape /\ OwnersExclusive /\ ArgumentsDistinct /\ Startup
  /\ \A t \in Threads : CallSound(t)

\* For any threads at all: every link is nullptr or a block made, whoever reads
\* it and whenever, and a CustomMalloc in progress has an arena to work in.
LinkSound(t) ==
  LET l == th[t] IN
  /\ l.blk \in 0 .. nblocks /\ l.lnk \in 0 .. nblocks /\ l.ptr \in Nat
  /\ InMalloc(t) => Pooled(l.req)
  /\ InMalloc(t) /\ l.pc # "m_init" => pool = PoolBase
  /\ l.pc \in {"m_next", "m_cas", "m_take", "f_clear", "f_push", "f_link", "f_cas"} =>
       l.blk # 0

LinksMade == Running =>
  /\ head \in 0 .. nblocks /\ freeList \in 0 .. nblocks /\ onFree \subseteq 1 .. nblocks
  /\ \A b \in 1 .. nblocks : mem[b].next \in 0 .. nblocks /\ mem[b].address # 0
  /\ initialized => pool = PoolBase
  /\ \A t \in Threads : LinkSound(t)

\* For any threads at all: the bump offset hands out each byte of the arena
\* once, and is beyond the arena by what was refused, at most.
Memory(b)   == [addr |-> mem[b].address, size |-> mem[b].size]
Reserved(t) == [addr |-> PoolBase + th[t].off, size |-> AlignedSize(th[t].req)]
Below(e, limit) == e.addr >= PoolBase /\ e.size > 0 /\ e.addr + e.size <= PoolBase + limit
Linking     == {t \in Threads : th[t].pc = "m_link"}

RefusalsCarry == offset <= TotalPoolSize + refused * BiggestBid
Places ==
  /\ \A b \in 1 .. nblocks : Below(Memory(b), offset) /\ Below(Memory(b), TotalPoolSize)
  /\ \A t \in Linking : Below(Reserved(t), offset) /\ Below(Reserved(t), TotalPoolSize)
  /\ \A b, c \in 1 .. nblocks : b # c => Apart(Memory(b), Memory(c))
  /\ \A t, u \in Linking : t # u => Apart(Reserved(t), Reserved(u))
  /\ \A b \in 1 .. nblocks, t \in Linking : Apart(Memory(b), Reserved(t))
FirstCall ==
  /\ ~initialized => /\ nblocks = 0 /\ offset = 0
                     /\ \A t \in Threads : InMalloc(t) =>
                          t = Main /\ th[t].pc \in {"m_init", "m_setup"}
  /\ initialized => \A t \in Threads : th[t].pc # "m_setup"
OwnersMade == \A e \in PoolHeap : \E b \in 1 .. nblocks : mem[b].address = e.addr
ArenaInv == Running => Places /\ FirstCall /\ OwnersMade
WrapInv  == (Running => RefusalsCarry) /\ WrapTakesRefusals

\* With no frees: the chain from head has every block, and a client owns each once.
LoaderInv == Running =>
  /\ onFree = {} /\ freeList = 0
  /\ \A t \in Threads :
       /\ th[t].ptr = 0
       /\ th[t].pc \in {"idle", "m_init", "m_setup", "m_pop", "m_add", "m_link", "u_walk",
                       "u_log", "c_walk"}
  /\ 1 .. nblocks \subseteq Chain(head)
  /\ \A e \in PoolHeap : \E b \in 1 .. nblocks :
       mem[b].address = e.addr /\ e.size <= mem[b].size
  /\ \A e, g \in PoolHeap : e.addr = g.addr => e = g

\* One thread at a time: the chain from head descends, without passing over a
\* block that it reaches later, through the blocks in use to those on the free
\* list; so a walk finds every block there is to find ...
HeadDescends ==
  /\ \A b \in Chain(head) : mem[b].next < b /\ b <= head
  /\ \A b, c \in Chain(head) : c < b => c <= mem[b].next
  /\ onFree \subseteq Chain(head)
  /\ \A b \in onFree : b <= freeList
  /\ \A b \in Chain(head) \ onFree, c \in onFree : c < b

\* ... a push is about to put its block where it belongs in that order ...
PushOrdered(t) ==
  LET l == th[t] IN
  /\ l.pc \in {"f_clear", "f_push", "f_link", "f_cas"} => l.blk \in Chain(head)
  /\ l.pc \in {"f_link", "f_cas"} => l.lnk = freeList
  /\ l.pc = "f_cas" => \A b \in Chain(head) \ onFree : l.blk <= b

\* ... a walk is on the chain, and a cleanup has the blocks it deleted behind it ...
WalkOrdered(t) ==
  /\ Walks(t) => th[t].blk \in Chain(head) \cup {0}
  /\ \A b \in deleted : th[t].pc = "c_walk" /\ th[t].blk < b

\* ... a used block on the chain is a client's, or a CustomFree will find it ...
UsedFound(b, t) ==
  /\ th[t].pc \in {"f_lock", "f_walk", "f_clear"} /\ mem[b].address = th[t].ptr
  /\ th[t].pc = "f_walk" => b <= th[t].blk
OwnersFound(t) == \A b \in Chain(head) : mem[b].used => Owned(b) \/ UsedFound(b, t)

\* ... and DebugMemoryUsage has counted blocks above the one it is at.
UpTo(b) == IF b = 0 THEN 0 ELSE mem[b].address + mem[b].size - PoolBase
CountSound(t) ==
  LET l == th[t] IN
  /\ l.pc \notin {"u_walk", "u_log"} => l.usedMemory = 0 /\ l.freeMemory = 0
  /\ l.pc = "u_walk" =>
       /\ l.usedMemory + Totals(OwnedSizes)[l.blk] <= LiveBytes
       /\ l.usedMemory + l.freeMemory + UpTo(l.blk) <= TotalPoolSize
  /\ l.pc = "u_log" => /\ l.usedMemory <= LiveBytes
                       /\ l.usedMemory + l.freeMemory <= TotalPoolSize

SequentialInv == Running =>
  /\ HeadDescends
  /\ \A t \in Threads : PushOrdered(t) /\ WalkOrdered(t) /\ OwnersFound(t) /\ CountSound(t)

\* What the alignment of the extents rests on: offset moves from one boundary
\* to another, and a block begins where it was.
OnBoundary(x) == x % Alignment = 0
BoundaryInv == Running =>
  /\ OnBoundary(offset)
  /\ \A b \in 1 .. nblocks : OnBoundary(mem[b].address)
  /\ \A t \in Threads : th[t].pc = "m_link" => OnBoundary(th[t].off)

-----------------------------------------------------------------------------
\* CustomMalloc returns: although the pop retries whenever a free got in between
\* and drops every block that is too small, it cannot be made to retry forever.
MallocReturns == \A t \in Threads : InMalloc(t) ~> ~InMalloc(t) \/ ~Running

\* A walk over the head list ends, and gives headMutex back, although pushes
\* rewrite the links under it.
WalkReturns == \A t \in Threads : Walks(t) ~> ~Walks(t) \/ ~Running
=============================================================================

--------------------------- MODULE BumpProperties ---------------------------
(***************************************************************************)
(* What MemoryPool.dll promises the game: see BumpPool.                    *)
(***************************************************************************)
EXTENDS BumpPool

Running == status = "run"
Heaps   == {"pool", "msvcrt", "ucrtbase"}
Addrs   == CrtAddrs \cup PoolBase .. PoolBase + PoolSize
Labels  == Hooking \cup {"idle", "enter", "test", "take", "bump"}

\* Types; g_used never passes the end of the arena.
TypeOK ==
  /\ g_pool \in {0, PoolBase} /\ g_used \in 0 .. PoolSize
  /\ g_lock \in Threads \cup {NoThread} /\ g_inited \in BOOLEAN
  /\ s_orig \in {"none", "msvcrt", "ucrtbase"}
  /\ iat \in [Imports -> [malloc : {"crt", "my"}, free : {"crt", "my"}]]
  /\ th \in [Threads -> [pc : Labels, lib : Imports \cup {"none"}, sz : Nat]]
  /\ live \subseteq [addr : Addrs, size : Nat, heap : Heaps, lib : Imports]
  /\ crt \subseteq [addr : CrtAddrs, heap : Heaps]
  /\ status \in {"run", "corrupt", "closed"}

PoolHeap == {[addr |-> e.addr, size |-> e.size] : e \in {q \in live : q.heap = "pool"}}
Apart(e, g) == e.addr + e.size <= g.addr \/ g.addr + g.size <= e.addr

\* Two threads in MyMalloc are never given bytes of the arena in common.
NoOverlap == \A e, g \in PoolHeap : e # g => Apart(e, g)

\* MyMalloc and MyFree implement the abstract heap, without its alignment:
\* MyMalloc aligns nothing.
Heap == INSTANCE AbstractHeap WITH
          Lo <- PoolBase, Hi <- PoolBase + PoolSize, Alignment <- 1, heap <- PoolHeap
ImplementsHeap == Heap!Spec

\* No C library's free is handed what it did not give: not a block of the
\* arena, not a block from before the hooks that another library gave.  The
\* game imports one C library, the one whose functions the hooks fall back on,
\* and asks for at least one byte: no bytes at the very end of a full arena are
\* an address that MyFree takes for the C library's.
OneLibrary == g_inited /\ s_orig # "none" => Imports \subseteq {s_orig}
NoForeignFree == OneLibrary => status # "corrupt"

\* While there is an arena, MyFree ignores its blocks and no others: what the
\* game frees of a C library's memory goes back to that library, whether it was
\* asked for before the hooks or after the arena was used up.
IgnoresOnlyPool == \A b \in crt : \E e \in live : e.addr = b.addr
NoLeak == Running /\ g_pool # 0 => IgnoresOnlyPool

-----------------------------------------------------------------------------
\* The parts of the inductive invariant.
InCall   == {"enter", "test", "take", "bump"}
Holding  == InCall \ {"enter"}
FreeStep == [msvcrt |-> "h_msvcrt_free", ucrtbase |-> "h_ucrtbase_free"]

LockHolder == \A t \in Threads : th[t].pc \in Holding => g_lock = t

HookedAlone == \A t \in Threads :
  /\ th[t].pc \in Hooking => t = Loader /\ g_inited
  /\ th[Loader].pc \in Hooking => t = Loader \/ th[t].pc = "idle"

CallsHooked == \A t \in Threads : th[t].pc \in InCall =>
  th[t].sz \in Requests /\ th[t].lib \in Imports /\ iat[th[t].lib].malloc = "my"

RoomTaken == \A t \in Threads : th[t].pc \in {"take", "bump"} =>
  g_pool = PoolBase /\ g_used + th[t].sz <= PoolSize

\* The extents lie below g_used, or end where g_used is about to move to.
ArenaFilled == \A e \in PoolHeap :
  /\ PoolBase <= e.addr
  /\ \/ e.addr + e.size <= PoolBase + g_used
     \/ \E t \in Threads : /\ th[t].pc = "bump"
                           /\ e = [addr |-> PoolBase + g_used, size |-> th[t].sz]

HooksPaired == \A m \in Imports :
  /\ iat[m].malloc # iat[m].free => th[Loader].pc = FreeStep[m]
  /\ th[Loader].pc = FreeStep[m] => iat[m].malloc = "my"
  /\ ~g_inited \/ th[Loader].pc \in {"h_pool", "h_orig"} =>
       iat[m].malloc = "crt" /\ iat[m].free = "crt"

BlocksKnown == \A e \in live :
  /\ e.heap \in {e.lib, s_orig, "pool"}
  /\ iat[e.lib].malloc = "crt" => e.heap = e.lib
  /\ e.heap # "pool" => e.addr \in CrtAddrs
  /\ e.heap = "pool" => e.size \in Requests /\ (g_pool = PoolBase \/ ~Running)

\* Whoever is in MyMalloc past the lock is alone there and has the room it
\* tested for; the arena fills without a gap for two; both imports of a library
\* are hooked or neither is, and of every block it is known whose it is.
BumpInv == /\ LockHolder /\ HookedAlone /\ CallsHooked /\ RoomTaken
           /\ ArenaFilled /\ NoOverlap /\ HooksPaired /\ BlocksKnown

\* What NoLeak rests on: once the originals are looked for a game that imports a
\* library has them, and nothing leaks while there is, or may yet be, an arena.
OrigFound ==
  g_inited /\ th[Loader].pc \notin {"h_pool", "h_orig"} => s_orig # "none" \/ Imports = {}
NothingLost ==
  Running /\ (g_pool # 0 \/ ~g_inited \/ th[Loader].pc = "h_pool") => IgnoresOnlyPool
LeakInv == OrigFound /\ NothingLost
=============================================================================

# Verification of the Overdrive performance patches for Dawn of War: Soulstorm

TLA+ modules, TLC configurations and TLAPS proofs kept beside the code in `src/`. The
repository has no README, no documentation and no tests; the code, its comments, its log
lines and its message boxes are all that says what it should do.

`tlc -config MCPool_threads.cfg MCPool` (and so on, one line per `.cfg`) repeats a run;
`tlapm PoolProofs.tla` repeats the proofs of a module. `PROJECT.json` lists runs, the
mutants that show each property can fail, the lines each definition stands for, hazards
and theorems.

| | modules | runs | theorems |
|---|---|---|---|
| custom memory pool | `AbstractHeap`, `PoolAllocator`, `PoolProperties`, `MCPool` | 5 | `PoolProofs`, `PoolHeapProofs`, `PoolListProofs` |
| `MemoryPool.dll` | `BumpPool`, `BumpProperties`, `MCBump` | 2 | `BumpProofs` |
| programs that rewrite `Soulstorm.exe` | `PePatch`, `PeProperties`, `MCPe` | 2 | `PeProofs` |
| sessions of the overdrive program | `PatcherSession`, `SessionProperties`, `MCSession` | 2 | `SessionProofs` |
| Direct3D 9 over Vulkan | `VulkanD3D9`, `VulkanProperties`, `MCVulkan` | 1 | `VulkanProofs`, `VulkanHandleProofs` |

## 1. Inventory

Short names of files: *Overdrive* is `src/Redone/Overdrive exe.cpp`, *Console*
`src/Console version of redone/ConsoleVersion.cpp`, *Injector*
`src/SoulStormPatcherInjector/SoulStormPatcherInjector.cpp`, *Bump*
`src/MemoryPoolDLL/dllmain.cpp`, *Vulkan* `src/GDI HOOKING DLL/dllmain.cpp`.

**A. Custom memory pool** (Overdrive 196-365). State: an arena from `VirtualAlloc`, an atomic
bump `offset`, the list of all blocks (`head`, under `headMutex`), the lock-free list of freed
blocks (`freeList`), and in every `MemoryBlock` one `next` that both lists share. Operations:
the exported `CustomMalloc`, `CustomFree`, `CustomRealloc`, `CustomCalloc`,
`CleanupMemoryPool`, `DebugMemoryUsage`. Hard: pushes rewrite `next` without the lock that
walks hold; the ABA window between the read of `next` and the exchange in `PopFreeBlock`; a
plain `initialized` flag; `used` tested under the lock and cleared after it; an offset that a
refused request never gives back. Correct means: memory handed out twice never overlaps,
frees lose nothing and hand nothing out, calls return, reports do not exceed what there is.

**B. Patch session** (Overdrive 70-188, 367-630; `src/Redone/DllUtils.cpp`). State: the
process's place in `WinMain`, its rights, the DLL handle, its copies of the headers, its own
memory. Operations: elevation and relaunch, the file dialog, the registry, `loadDll`,
`EnableLAA`, `InjectInjsec`, `RunPatch`, `PatchMultiplayerLobby`. It shares `Soulstorm.exe`
with C, D and J, and with any other instance of itself. Hard: two instances with stale copies
of the headers, a failure between protection, write and restore, a result nobody returns, a
kill anywhere. Correct means: nothing is touched before rights and DLL are there, one start is
one patcher, the patch touches only the place it means.

**C. Console program** (Console 27-68 registry, 78-98 helpers, 139-550 `PatchSoulstormExe`,
558-589 memory test, 591-639 `main`). State: the file, section by section, import descriptors,
the entry point. Hard: about ten writes in an order that a kill, a full disk or a second run
exposes. Correct means: code that leads to the game from the entry point at every moment,
sections apart, a file the loader takes when a run is over.

**D. Injector** (Injector 22-192 `PatchSoulstorm`, 195-217 `main`). Adds a section with a TLS
callback that loads `MemoryPool.dll`, then points the TLS directory at it. Same hazards as C,
and `clear()` in the middle makes a stream that has failed good again.

**E. MemoryPool.dll** (Bump). State: arena, `g_used`, a lock, the import slots of two C
libraries, the original functions. Operations: `HookAllocators` at load, `MyMalloc`,
`MyFree`, the detach. Hard: blocks from before the hooks freed after them, a refused arena, a
full arena, threads in `MyMalloc`. Correct means: no overlap, no block to a stranger's `free`,
no leak of the C library's blocks.

**F. Direct3D 9 over Vulkan** (Vulkan, 1223 lines). Two COM classes. `SDL_Vulkan_D3D9` (the
parent) owns the window, the Vulkan instance, device, swapchain and the one command buffer;
`SDL_Vulkan_D3D9Device` owns two semaphores, a fence, a pipeline and the buffers clients create.
Each has a reference count changed by interlocked operations. Operations: the constructors,
which throw when a creation is refused; the destructors; `AddRef`, `Release`, `QueryInterface`,
`GetDirect3D`; buffers and textures; `BeginScene`, the draws, `EndScene`, `Present`, `Reset`.
Hard: a device keeps a bare pointer to its parent and does not count it (377); a constructor
that throws loses what it has made; three creations nobody checks (381-386); the order of two
destructors (225, 490) against what was made from what; objects destroyed before the queue has
used them (1059, 1104); the fence, created signaled (385), waited for after the submission that
it belongs to; the null image index of acquire and present (801). Nothing in the repository
instantiates the classes, and `CreateDevice` is declared (355) but never defined: they are
modelled as the COM clients they are written for would use them. Correct means: counts exact,
each object deleted once and by one thread, nothing used after its owner, nothing left behind,
no wait without an answer.

**G. GDI hook and render queue** (`GDIHookFunctions.cpp`, `ThreadSafeQueue.h`,
`SDLThread.cpp` in `src/GDI HOOKING DLL`). Hooks push draw calls to a queue under a lock, a
thread runs an SDL loop; nothing pops. `GDIHookFunctions.cpp` is in no project and holds
markdown fences.

**H. Import table hooking** (`IATHooking.cpp` 5-51). A walk over the import descriptors of a
module; entries imported by ordinal are read as names (39).

**I. Resolution configuration** (`src/Redone/Resolution stuff.cpp`, `Resolution attempt.cpp`).
Reads `Local.ini`, truncates it and writes it again.

**J. ZeroPEChecksum** (`src/Redone/ZeroPEChecksum.cpp` 7-50). Clears the checksum and the debug
directory of the file; called by no program, modelled as a fourth tool.

**K. Lobby patcher** (`src/PatchLobby.cpp/PatchLobby.cpp.cpp` 9-75): patches its own process
(16) at the fixed address 0x007D1496: it queries the region, makes all of it writable, writes two
NOPs and restores the protection. When either call fails, not only the protection as its comment
says (55), it writes a jump to five fresh bytes that nothing fills (60-66) and reports success.
`src/Redone/PatchLobby.cpp` is empty.

**L. Debug log, stubs, build products** (`DebugLogger.cpp`, `SDLCompat.cpp`,
`Console version/Program.cs`, object files, build logs): no state the rest depends on.

Interaction: A is exported by the program that contains B and used by whoever imports it; B, C,
D and J rewrite one file; D makes the game load E; E and H hook the game's imports; F and G sit
in the DLL that B loads.

## 2. How the modules follow the code

**`PoolAllocator`** has the globals of A as variables and one record per thread with its
program counter and locals. A step makes at most one access to memory another thread may write
at that moment, so the interleavings of steps are the interleavings of the code: x86 loads and
stores of an aligned word are indivisible, and each unsynchronised read of `next` or `used`
gets the value before or after a concurrent write. `PopLoad`, `PopReadNext`, `PopCAS` are
lines 258, 259 and 260; a failed exchange reloads (`PopReload`); `MallocTake`, `MallocAdd`,
`MallocLink` are the rest of `CustomMalloc`; `FreeCall`, `WalkLock`, `WalkOn`, `FreeFound`,
`FreeClear`, `PushLink`, `PushCAS` are `CustomFree`. `ReallocCall` frees and asks anew as the
code does, `CallocCall` multiplies modulo the width of `size_t`. `live`, `onFree` and `refused`
are ghosts: what the clients own, what has been pushed and not popped, how many requests the limit
check has refused. A refused request stays in `offset`, as in the code; the `fetch_add` that
passes the width of `size_t` ends the run (`status = "wrapped"`), because what the limit check
then lets through lies beyond the arena.

**`AbstractHeap`** is the abstract specification: extents appear apart from all others, in the
range, aligned, and disappear when their owner gives them back. `PoolProperties!ImplementsHeap`
and `BumpProperties!ImplementsHeap` instantiate it.

**`BumpPool`** is E: the loader thread hooks step by step (arena, originals, then `malloc` and
`free` of each library in turn), then threads call `MyMalloc` (`Enter`, `Test`, `Bump`, `Leave`
around the lock) and `MyFree`, and the C libraries answer from `crt`. The walk of `HookIAT`
over the import table is abstracted to its result.

**`PePatch`** has the file (`disk`: headers, section table, import list, the pieces of data,
its end) and one program at a time with its own copy of the headers. `Program` lists the writes
of each tool in the order of the source; `Start` is all that is read and computed before the
first; a step writes what one seek, write or close flushes. A program may be killed between any
two steps, the disk may fill up, and the four programs follow each other in any order.

**`PatcherSession`** is B: processes in a row of places of `WinMain`, the shared file reduced to
the flag and the headers added, and for each process its own memory as regions with protections
and bytes. The search is the pure operator `FindPatchAddress`; `Protect`, `Write`, `Restore`
are the three calls of `PatchMultiplayerLobby`, each of which may fail. The headers are read,
and written, in one step; the pieces are in `PePatch`. A relaunch is two steps, `RelaunchAsAdmin`
(`ShellExecuteEx`, 386) and `RelaunchExit` (`ExitProcess`, 389): in between, the old and the new
process of one start exist side by side.

**`VulkanD3D9`** is F. Its actors are the clients' pointers: each refers to at most one object,
and any two may be used by different threads. `Release` is two steps, the decrement with its
result in a local (`count`) and the test of that local, so that any number of releases overlap.
Constructors and destructors walk tables (`ParentParts`, `DeviceParts`, `ParentStages`,
`DeviceStages`) that list what is created and destroyed in the order of the source; between any
two entries other threads act, and any checked creation may be refused (`Throw`). `frame` is a
device's scene, its fence and its submissions: `EndScene`, `EndWait`, `EndReset` are the
submission, the wait and the reset, and `Complete` is the GPU. The two semaphores are in `frame`
too (`imaged`, `rendered`): `BeginScene` drops the result of the acquire (801), which may fail and
leave `imaged` unsignaled, `EndScene` that of the submission (827), which may be refused and leave
a fence that was reset without anything to signal it (`Refuse`, with the ghost `refused`). Undefined behaviour sets `fault`
and ends the run: what follows it is not claimed, and what leads to it is what the properties
about `fault` speak of. `early` and `abandoned` are ghosts: the parent's count reached zero while
it had a device; a handle that no variable keeps.

Each `...Properties` module states the properties; a mutant is an operator with the comment
"Mutant" next to the definition it replaces, and no specification uses it.

## 3. Assumptions about the surroundings

The guards of the calls state the client's obligations, as the code leaves them to the caller.

- *Pool*: a client frees and resizes what it owns; one thread makes the first pooled request
  (`Main`: `initialized` is a plain flag); `CleanupMemoryPool` runs alone; a double free comes
  only from the thread that could pop. Nothing is claimed of what follows a `fetch_add` that wraps,
  nor of a client that catches `std::bad_alloc` (288): the run ends there. The lock, the read
  of `head` and its store are one step of `MallocLink`, as everybody else who reads `head` takes
  the same lock; `DebugMemoryUsage` reads `used` and `next` of a block in one step, and its
  properties are claimed for one thread only. **One thread pops**: with two, the exchange of `PopFreeBlock` can succeed on a
  block that was popped, reused and pushed again, with an old link. Runs with several popping
  threads are made only where no free happens (`pool_loaders`).
- *MemoryPool.dll*: loaded before the game has other threads; a block is freed through the
  library it was asked from; requests do not wrap (`RequestsAssumption`); `NoForeignFree`
  further assumes one C library and requests of at least one byte. `HookIAT` is there by its
  result: both imports of a library are found, by name; imports by ordinal and API-set names are
  left out, and so are `realloc` and `calloc`, which stay the C library's and do not know the arena.
- *File*: one patch program at a time in `PePatch`; a full disk fails only writes that extend
  the file, and the stream then stays bad until `clear()`. The injector's writes after `clear()`
  (186) lie inside the file and so do not fail.
- *Session*: an overwriting write of the headers succeeds, every other call may fail; "runas"
  gives an elevated process or is refused; a process may be killed anywhere; the constant
  `PATCH_SIGNATURE` lies in readable memory of the process (`LayoutAssumption`: it is part of
  the program); a region is what `VirtualQuery` reports, so its protection is one value.
- *Direct3D*: `AddRef`, `Release` and `QueryInterface` may be called by any thread at any time,
  all other methods of a device by one thread at a time, `EndScene` after `BeginScene` and draws
  only in a scene, as Direct3D asks. The GPU completes the submissions of a queue in order.
  Submitting with a signaled fence, resetting a fence that a submission is to signal, and acquiring
  with a semaphore still signaled are invalid use of Vulkan: each may end in a fault, or be taken as
  drivers without validation take it (the signaled fence stays signaled or the submission
  signals it again; the reset fence is signaled later or not). A wait for a semaphore
  that nothing will signal, and a submission without its command buffer, are faults. Not
  modelled: a lost device, `vkWaitForFences` and `Present` refused, `std::bad_alloc` between the
  two `push_back`s of a buffer (713, 714), and how many images the swapchain has; an acquire that
  waits (801) is a `BeginScene` that has not happened yet.

## 4. Runs

| run | question | states |
|---|---|---|
| `pool_threads` | one allocating and freeing thread, one more freeing: is the free list exact through every race, do the parts of `IndInv` hold, is the heap implemented | 2,104,842 |
| `pool_loaders` | two allocating threads that never free, with reports: do first requests and links keep every extent apart and reachable, and when can `offset` wrap | 168,888 |
| `pool_sequential` | all six functions in one thread: order of the head list, cleanup, report bounds, leaks | 2,665,180 |
| `pool_progress` | do `CustomMalloc` and the walks return, with two threads freeing | 88,431 |
| `pool_usage` | violation: is the report exact | small |
| `bump_threads` | the DLL before, during and after hooking, two threads | 14,564 |
| `bump_ignored` | violation: does `MyFree` ignore only pool blocks | 105 |
| `image_tools` | up to four runs of four tools, killed anywhere, full disk: does the file stay usable | 803,058 |
| `image_full` | violation: does success mean patched | small |
| `session_sessions` | three processes, up to three sessions on one file, killed anywhere | 579,585 |
| `session_claim` | violation: does the last box tell the truth | small |
| `vulkan_clients` | three pointers to a parent and a device, any threads: are counts and deletions right, does nothing outlive its owner, is every wait answered whose submission was accepted | 1,100,785 |

What the passing runs show beyond types:

- *Pool.* `FreeListSafe`, `FreeListExact` and the abstract heap (`ImplementsHeap`, which has
  `NoOverlap` in it) survive every interleaving of pops, pushes and locked walks when one thread
  pops, although `next` is shared and rewritten unlocked. `FreeLinkStable` is why: a link is
  written before its block is published and not again while it is on the list. With one thread,
  `HeadOrder` shows that links only ever lead to older blocks, which is why its walks end and
  `CleanupMemoryPool` deletes each block once, even though the head list loses blocks.
  `WrapTakesRefusals`: the `fetch_add` that wraps, after which the limit check passes for memory
  beyond the arena, takes as many refused requests as fill `size_t` above `TOTAL_POOL_SIZE`: at
  least two where `size_t` has 32 bits.
- *MemoryPool.dll.* `NoForeignFree` and `NoLeak` hold across the hooking, the full arena and the
  refused one.
- *File.* `EntryChainWhole`: at every moment, even between two writes, the entry point is the
  game's own or whole code that leads to it. This is the chain of entry points only: in the
  middle of a run the loader may refuse the file before it enters anything, as a section is
  declared and its data not yet there, and `Loadable` says when it does not; `SectionsApart`; `OnlyShortRunsDangle`: a descriptor without data comes only from a
  killed or short run; `LoadsAfterRun`: a complete run repairs what an injector or overdrive
  run left half done.
- *Sessions.* `LaaSticks`: sessions that overlap can lose each other's section, never the flag
  (the theorem `OnlyStaleCopiesDropHolds` adds: and only when a copy is out of date);
  `OnePatcherPerStart`: however the old and the new process of a relaunch overlap, no two processes
  of one start get past it; `OnlyReadyPatches`; `PatchExact`: the search passes over no place where
  the signature is, only the first one it meets is changed, and the box about it tells the truth.
- *Direct3D.* `LifetimeSafe`: counts equal the pointers there are, and one thread deletes each
  object, through any overlap of releases. `ParentLostOnlyEarly`: although a device does not
  count its parent, it loses it only when a client let go of its last pointer to the parent
  first; then `GetDirect3D` may even revive a count of zero. `OwnersLast` and `NothingLeft`:
  the destructors' order fits what was made from what, and leaves only textures, buffers that
  got no memory, and what a constructor that threw had made. `FrameLag`: the signaled fence
  makes `EndScene` wait for the scene before, one frame late and never more; `WaitAnswered`: it
  waits for a fence that nothing will signal only when the submission of this very scene was
  refused. That wait then has no end, since 827 drops the result: the property bounds the
  hang to its one cause.

**Bounds.** Pool: a unit of the arena stands for the alignment (4 of 16 bytes), the arena holds
four units and `size_t` is about twice the arena (28 or 32 bytes), as 2^32 is twice 2 GiB. Requests 3
and 5 are the least and largest pooled ones, 0, 1 and 6 go to the C heap; with three or four
blocks there are blocks too small to reuse, a list of several blocks and a refusal. The double
free and the ABA mutants show up within these bounds. File: the game's own section ends off both
alignments so that rounding matters; four runs let one program follow two killed ones; rooms of
four entries make the tables overflow exactly at the bound the property excludes. Bump: an arena
of five bytes with requests 2, 3 and 6 is filled exactly, left with a rest, or refused; the C
library has an address below `POOL_SIZE` and one above the arena. Sessions: three processes are
three sessions, or one that was handed over and another; the two layouts put the signature
across the end of a region, behind a guard page, twice in one region and last in a region.
Processes are interchangeable, and the run uses their symmetry. Direct3D: three pointers let two
releases of one object overlap while a third takes a reference, with a parent and a device
between them; one buffer number at a time suffices, as the destructor treats all alike; a second
device adds only the shared command buffer, whose use ends the run. Pointers are symmetric.

**Deadlock** is checked in every run except those of the sessions, where all processes may have
ended, and of Direct3D, where everything may have been released or a fault has ended the run.

**Fairness.** Only `pool_progress` needs it: weak fairness of every thread's next step. The
operating system schedules every runnable thread; no fairness of the mutex is assumed. A walk
of one thread may be passed by any number of others, and the two liveness properties are about
a call and a walk that are already under way.

## 5. Findings

1. `pool_usage` (Overdrive 364): `DebugMemoryUsage` logs "Used" and "Free", but sums the blocks
   that can still be reached from `head`. After a free has rewritten `next`, older blocks are
   not, and the report is too low.
2. `bump_ignored` (Bump 50): `MyFree`'s comment says "if in our pool, ignore"; when
   `VirtualAlloc` has refused the arena, `g_pool` is null and every block of the C library below
   1.5 GB is ignored.
3. `image_full` (Console 545): "Patch succeeded!" (614) after a full disk: no write is checked,
   and the entry point still is the game's.
4. `session_claim` (Overdrive 504): "Multiplayer lobby JNZ patched" (599) although
   `PatchMultiplayerLobby` has returned after a refused call; `RunPatch` returns nothing.

## 6. Proofs

All theorems hold for every value of the constants that the `ASSUME`s of the modules admit, so
for any number of threads or processes.

Three things are assumed of the pool's threads, each in the theorems that need it: **`SinglePopper`**
(any two members of `Allocators` are equal; any number may free), **`NoFrees`** (`Freers` is empty;
any number may allocate), **`OneThread`** (any two threads are equal). They are the three ways in
which the runs instantiate it. The other theorems are about any threads at all.

**`PoolProofs`**. `TypeCorrect` is about any threads: `TypeOK`, and with it `LinksMade`, that every
link anybody holds is null or leads to a block that was made, without which no read of a block has
a type. Under `SinglePopper`: `InvariantHolds` (`IndInv`), `NoOverlapHolds`, `FreeListSafeHolds`,
`FreeLinkStableHolds`, and `Inductive`, which combines types and invariant.
`NoOverlap` is not inductive: that a popped block is nobody's needs to know that the free list
is a list (`FreeListShape`: closed, no two blocks with one successor), that a link read before
the exchange is still the block's link (`MallocSound`), that a block about to be pushed is held by one call
(`FreeSound`, `ArgumentsDistinct`), and that blocks tile the arena below `offset` (`BlocksTile`).
The step proof has one lemma per action. `AlignedSizeBounds` and `AlignedSizeMonotone` are the
arithmetic of the rounding. All of it is about the run up to a `fetch_add` that wraps.

**`PoolHeapProofs`**. For any threads: `ArenaHolds` (`ArenaInv`), `BoundaryHolds` (`BoundaryInv`),
`CrtLeakHolds`, and `NoCorruptionHolds` when nobody calls `CustomRealloc`, which hands the C library
a block that has fallen off the head list. `ArenaInv` says why the bump offset is sound however
calls race, until a `fetch_add` wraps: `Places`, the blocks made and the places reserved but not yet
blocks lie apart, below `offset` and in the arena; `FirstCall`, nobody else is in `CustomMalloc`
before `initialized`; `OwnersMade`, an extent of the arena begins where a block does. `WrapTakesRefusalsHolds` says how far
off the wrap is: `offset` is beyond the arena by no more than the refused requests, each no larger
than the largest pooled one (`RefusalsCarry`). Under
`SinglePopper`: `HeapImplemented`, the pool implements `AbstractHeap`. That an
extent is aligned needs `BoundaryInv`: `offset` only moves by rounded sizes, and what a call has
reserved begins where it was (`SumOnBoundary` is the arithmetic). That it is apart from the
others is `BlocksTile` with `OwnersExclusive` (`TakeStep`, `LinkStep`).

**`PoolListProofs`** is about the two lists that share `next`. `Chain(h)` is the least set of blocks
that has `h` and is closed under the links, so that a fact about every block of a chain is proved
by showing a set closed (`ChainLeast`), and no induction along the list is needed.
- Under `SinglePopper`, `FreeListExactHolds`: what a pop takes off the chain is exactly its top,
  because the links on the free list end and no two of them meet, and a push puts its block before
  a chain that does not visit it (`ChainPush`).
- Under `OneThread`, `SequentialHolds` (`SequentialInv`), and from it `HeadOrderHolds`, `WalksDescend`,
  `CleanupDeletesOnceHolds`, `UsageNeverTooHighHolds`. `HeadOrder` is not inductive: a free
  makes a block of the head list point to the top of the free list, which leads to an older
  block only because the head list runs through all blocks in use, newest first, before it comes to
  those on the free list (`HeadDescends`), so that a push cuts off blocks between two used ones
  but never turns back. Cleanup has deleted only what lies above the block it is at
  (`WalkOrdered`); a report has counted no more than the bytes above it (`CountSound`), and a
  used block on the chain is owned or about to be found by the free in progress (`OwnersFound`).
  The sum of the owned bytes is a recursive function; that it exists, and that it is monotone, is
  shown by the least number for which it would fail (`LeastNumber`, `TotalsSum`,
  `TotalsMonotone`), not by an induction operator.
- Under `NoFrees`, `LoadersHold` (`LoaderInv`), and from it, with `ArenaInv`, `AllocatedReachableHolds`,
  `LoadersApart` (`NoOverlap`) and `LoadersImplementHeap`: each insertion under the lock puts its
  block before all others, and each client owns the memory of a block of its own.

**`BumpProofs`**: `TypeCorrect`, `InvariantHolds` (`BumpInv`), `NoOverlapHolds`,
`NoForeignFreeHolds` (when no request is empty), `NoLeakHolds`, and `HeapImplemented`: the DLL
implements `AbstractHeap`. `BumpInv` says who holds the lock, that the room tested for is still there, that
extents lie below `g_used` but for the one being taken, that imports are hooked in pairs, and
of every block whose heap it is from. `NoLeak` needs also that the originals are found before
the first import is hooked (`OrigFound`) and that nothing was lost before the arena (`NothingLost`).

**`SessionProofs`**: `SessionInductive` (`SessionInv`), and from it the properties of
`session_sessions`, `SearchSucceeds` and `OnlyStaleCopiesDrop`: `SessionTypeCorrect`, `OnePatcherPerStartHolds`, `SearchSucceedsHolds`,
`PatchExactHolds`, `LaaSticksHolds`, `OnlyStaleCopiesDropHolds`, `OnlyReadyPatchesHolds`.
`SessionInv` gives each process what it must have at its place: rights and DLL (`Equipped`),
a copy of the headers that has the flag before the second write and is no longer than the table
(`HeadersInv`), the place found and what has become of it (`MemoryInv`), and a start that is not
absent (`OriginInv`). `LeastMember` and `FirstPlaceFound` show, from the well-ordering of the
naturals, that `FindPatchAddress` returns the first place of the signature.

**`PeProofs`**, for any alignments, any sizes of the tables and any number of runs: `PeInvHolds`
(`PeInv`), and from it every property of `image_tools`: `TypesHold`, `SectionsStayApart`,
`EntryChainStaysWhole`, `OnlyShortRunsLeaveDangling`, `TlsStaysSound`, `LoadsAfterEveryRun`. None of
them is inductive: that a new section is apart from the others needs the layout of the table
(`TableInv`: each section starts where the one before ends, rounded up), and that the header a
run writes is the one it computed needs to know what each program has at each place (`RunInv`).
That the code jumps to older code needs that nothing was written to a new section before
(`PiecesInv`), that there is room needs the count of entries by runs (`CountInv`), and what is
dangling or lost at the end needs what is pending meanwhile (`DanglesInv`, `TlsInv`). The proof
has one lemma for each kind of write (`DataStep`, `HeadersStep`, `SectionStep`, `MissedStep`),
and the writes of the four programs are instances of these. `AlignBounds` and `AlignAdds` are the
arithmetic of the rounding.

**`VulkanProofs`**, for any number of pointers and devices: `Safety` (`VulkanInv`), and from it
`TypeCorrect`, `LifetimesHold`, `ParentLossExplained`, `FenceLags`, `WaitsAnswered`. `VulkanInv`
adds to these that a call under way is made through a pointer that stays (`CallInv`), that the
parent has a pointer as long as it has a device, until `early` (`ParentKept`), and how many
submissions each place of a scene allows (`FrameInv`). Counting rests on the finite-set theorems
about adding and removing a pointer (`CountPointers`). **`VulkanHandleProofs`** adds who keeps
each handle (`HandleInv`) and which parts of the parent exist at each place of its constructor
and destructor (`PartsInv`), and proves `NothingLeftHolds` and `OwnersLastHolds`.

**Only model-checked.** Liveness: `MallocReturns` and `WalkReturns`, as fairness and `ENABLED` are
out of the prover's reach; `WalksDescend` is the measure behind `WalkReturns` for one thread, and
with several nothing decreases at each step. Every safety and action property that a passing run
checks is stated by a theorem, for the threads that run has: the runs of `HeadOrder`,
`CleanupDeletesOnce` and `UsageNeverTooHigh` are sequential, and they are claimed for nothing
else. For several threads that pop while others free there is no claim about the free list, with or
without proof, as `PopFreeBlock` then breaks it (section 3); what is left is what holds for any
threads: types, links, the arena, its boundaries and the C heap. No module declares a `RECURSIVE`
operator.

## 7. Not modelled, and why

- **G, GDI hook and render queue**: `GDIHookFunctions.cpp` is in no project and does not compile
  (lines 1 and 69 are markdown fences); the queue it names is defined nowhere. The queue class locks
  in every method, `SDLThread` sleeps in a loop until a flag nobody clears.
- **H, import table hooking**: one loop over the descriptors of a module, called by nothing; the
  walk that is used, `HookIAT` of `MemoryPool.dll`, is in `BumpPool` by its result.
- **I, resolution**: in no project, called by nothing; reads, truncates and writes one text file.
- **K, lobby patcher**: a straight line of calls in a process of its own that shares nothing with
  the rest; the patch of the overdrive program, with the same calls, is in `PatcherSession`.
- **L**: logging and stubs have no behaviour to model.
- Within F: the many methods that return a constant or an error, and those that only record a
  command into the command buffer (`Clear`, viewport, scissor, streams, indices, the plain draws),
  change nothing the model keeps; which pixels a draw produces is not asked.

Within the modelled parts: wording of logs and boxes (but for the claims the findings are about),
the registry and memory test of the console program (input and output only), the injector's
lookup of `LoadLibraryA` in its own address space, the outer exception handlers of `WinMain`,
`PatchMultiplayerLobbylog` and the second `FindPatchAddress`, which nothing calls.

## 8. Plan

1. *Done*: `PoolAllocator` with `AbstractHeap`, `PePatch`, `BumpPool`, `PatcherSession`,
   `VulkanD3D9`; proofs for all five.
2. *Done*: theorems for every safety and action property of the passing runs, the pool's
   auxiliary invariants for any threads (`LinksMade`, `ArenaInv`, `BoundaryInv`, `WrapInv`) included.
3. Models that could follow: a composition of sessions with the console program and the injector
   on one file, and two devices that share the parent's command buffer.

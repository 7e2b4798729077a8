------------------------------ MODULE BumpPool ------------------------------
(***************************************************************************)
(* MemoryPool.dll ("src/MemoryPoolDLL/dllmain.cpp"): when the game loads   *)
(* it, HookAllocators reserves an arena and redirects the game's imports   *)
(* of malloc and free to MyMalloc and MyFree.  MyMalloc hands out the      *)
(* arena from its start under g_lock, and the C library's memory when the  *)
(* arena is used up; MyFree drops what lies in the arena.                  *)
(*                                                                         *)
(* The game's blocks may come from before the hooks.  Contract: the DLL is *)
(* loaded while no other thread of the game runs (MayCall), a block is     *)
(* freed through the imports of the C library it was asked from, and       *)
(* detaching ends the process.                                             *)
(***************************************************************************)
EXTENDS Integers

CONSTANTS Threads,      \* the game's threads
          Loader,       \* the thread that loads the DLL
          NoThread,     \* g_lock is free
          Loaded,       \* the C libraries in the process
          Imports,      \* those whose malloc and free the game imports
          CrtAddrs,     \* bound: addresses where a C library finds memory
          Requests,     \* byte counts the game asks for
          PoolSize,     \* POOL_SIZE
          PoolBase,     \* what VirtualAlloc returns
          MayRefuse,    \* whether VirtualAlloc may return NULL
          SizeMod       \* 2^32: size_t is 0 .. SizeMod - 1

ASSUME BumpAssumption ==
  /\ {PoolSize, PoolBase, SizeMod} \subseteq Nat \ {0}
  /\ Requests \subseteq 0 .. SizeMod - 1
  /\ CrtAddrs \subseteq Nat \ ({0} \cup PoolBase .. PoolBase + PoolSize - 1)
  /\ Imports \subseteq Loaded /\ Loaded \subseteq {"msvcrt", "ucrtbase"}
  /\ Loader \in Threads /\ NoThread \notin Threads
  /\ MayRefuse \in BOOLEAN

\* The game asks for no more than keeps g_used + sz inside size_t.
ASSUME RequestsAssumption == \A sz \in Requests : PoolSize + sz < SizeMod

VARIABLES
  g_pool, g_used, g_lock, g_inited,
  s_orig,    \* the C library whose malloc and free s_origMalloc and s_origFree are
  iat,       \* the game's imports: what malloc and free of a library lead to
  th,        \* per thread: program counter and arguments
  live,      \* ghost: what the game owns, and from which heap
  crt,       \* the C libraries' blocks in use
  status     \* "run", "corrupt" or "closed"

pool == <<g_pool, g_used, g_lock>>
hook == <<g_inited, s_orig, iat>>
vars == <<pool, hook, th, live, crt, status>>

Idle == [pc |-> "idle", lib |-> "none", sz |-> 0]
Init ==
  /\ g_pool = 0 /\ g_used = 0 /\ g_lock = NoThread /\ g_inited = FALSE
  /\ s_orig = "none" /\ iat = [m \in Imports |-> [malloc |-> "crt", free |-> "crt"]]
  /\ th = [t \in Threads |-> Idle]
  /\ live = {} /\ crt = {} /\ status = "run"

-----------------------------------------------------------------------------
At(t, label)   == status = "run" /\ th[t].pc = label
Goto(t, label) == th' = [th EXCEPT ![t].pc = label]

\* HookAllocators, step by step.  A C library has the functions when it is loaded.
Hooking == {"h_pool", "h_orig", "h_msvcrt_malloc", "h_msvcrt_free",
            "h_ucrtbase_malloc", "h_ucrtbase_free"}
Alone == \A t \in Threads : th[t].pc \notin Hooking

HookAllocators ==
  /\ At(Loader, "idle") /\ \A t \in Threads : At(t, "idle")
  /\ ~g_inited /\ g_inited' = TRUE
  /\ Goto(Loader, "h_pool")
  /\ UNCHANGED <<pool, s_orig, iat, live, crt, status>>

ReservePool ==
  /\ At(Loader, "h_pool") /\ Goto(Loader, "h_orig")
  /\ g_pool' \in {PoolBase} \cup (IF MayRefuse THEN {0} ELSE {})
  /\ UNCHANGED <<g_used, g_lock, hook, live, crt, status>>

FindOriginals ==
  /\ At(Loader, "h_orig") /\ Goto(Loader, "h_msvcrt_malloc")
  /\ s_orig' = IF "msvcrt" \in Loaded THEN "msvcrt"
               ELSE IF "ucrtbase" \in Loaded THEN "ucrtbase" ELSE "none"
  /\ UNCHANGED <<pool, g_inited, iat, live, crt, status>>

\* HookIAT changes nothing when the game does not import the library.
HookIAT(lib, fn, label, next) ==
  /\ At(Loader, label) /\ Goto(Loader, next)
  /\ iat' = IF lib \in Imports THEN [iat EXCEPT ![lib][fn] = "my"] ELSE iat
  /\ UNCHANGED <<pool, g_inited, s_orig, live, crt, status>>

\* Mutant: the loop over the imports is left after the first.
HookMallocOnly ==
  \/ HookIAT("msvcrt", "malloc", "h_msvcrt_malloc", "h_ucrtbase_malloc")
  \/ HookIAT("ucrtbase", "malloc", "h_ucrtbase_malloc", "idle")
HookImports ==
  \/ HookIAT("msvcrt", "malloc", "h_msvcrt_malloc", "h_msvcrt_free")
  \/ HookIAT("msvcrt", "free", "h_msvcrt_free", "h_ucrtbase_malloc")
  \/ HookIAT("ucrtbase", "malloc", "h_ucrtbase_malloc", "h_ucrtbase_free")
  \/ HookIAT("ucrtbase", "free", "h_ucrtbase_free", "idle")

-----------------------------------------------------------------------------
Owned(addr, sz, heap, lib) == [addr |-> addr, size |-> sz, heap |-> heap, lib |-> lib]

\* malloc of a C library: a block at a free address, or NULL.
CrtMalloc(lib, heap, sz) ==
  \/ /\ heap # "none"
     /\ \E a \in CrtAddrs : /\ \A b \in crt : b.addr # a
                            /\ crt' = crt \cup {[addr |-> a, heap |-> heap]}
                            /\ live' = live \cup {Owned(a, sz, heap, lib)}
  \/ UNCHANGED <<crt, live>>

\* The game calls malloc through its import from lib.
MayCall(t) == At(t, "idle") /\ Alone
MallocCall(t, lib, sz) ==
  /\ MayCall(t)
  /\ \/ /\ iat[lib].malloc = "crt" /\ CrtMalloc(lib, lib, sz)
        /\ UNCHANGED th
     \/ /\ iat[lib].malloc = "my"
        /\ th' = [th EXCEPT ![t] = [pc |-> "enter", lib |-> lib, sz |-> sz]]
        /\ UNCHANGED <<crt, live>>
  /\ UNCHANGED <<pool, hook, status>>

\* MyMalloc: the lock, the test, the C library's malloc or the bump.
Enter(t)     == At(t, "enter") /\ Goto(t, "test") /\ g_lock = NoThread /\ g_lock' = t
EnterMyMalloc(t) ==
  Enter(t) /\ UNCHANGED <<g_pool, g_used, hook, live, crt, status>>

ExhaustedLate(sz) == g_pool = 0 \/ g_used > PoolSize   \* mutant
Exhausted(sz)     == g_pool = 0 \/ (g_used + sz) % SizeMod > PoolSize
TestMyMalloc(t) ==
  /\ At(t, "test")
  /\ IF Exhausted(th[t].sz)
       THEN /\ CrtMalloc(th[t].lib, s_orig, th[t].sz)
            /\ th' = [th EXCEPT ![t] = Idle] /\ g_lock' = NoThread
       ELSE Goto(t, "take") /\ UNCHANGED <<crt, live, g_lock>>
  /\ UNCHANGED <<g_pool, g_used, hook, status>>

BumpMyMalloc(t) ==
  /\ At(t, "take")
  /\ live' = live \cup {Owned(g_pool + g_used, th[t].sz, "pool", th[t].lib)}
  /\ Goto(t, "bump")
  /\ UNCHANGED <<pool, hook, crt, status>>

LeaveMyMalloc(t) ==
  /\ At(t, "bump") /\ th' = [th EXCEPT ![t] = Idle]
  /\ g_used' = (g_used + th[t].sz) % SizeMod /\ g_lock' = NoThread
  /\ UNCHANGED <<g_pool, hook, live, crt, status>>

-----------------------------------------------------------------------------
\* free of a C library: only what that library gave may be freed there.
CrtFree(heap, e) ==
  IF e.heap = heap
    THEN crt' = {b \in crt : b.addr # e.addr} /\ UNCHANGED status
    ELSE status' = "corrupt" /\ UNCHANGED crt

\* Mutants: the arena's first block is outside; everything below is inside.
InPoolBelow(p) == p < g_pool + PoolSize
InPoolOpen(p) == p > g_pool /\ p < g_pool + PoolSize
InPool(p)     == p >= g_pool /\ p < g_pool + PoolSize
MyFree(e) ==
  \/ (InPool(e.addr) \/ s_orig = "none") /\ UNCHANGED <<crt, status>>
  \/ ~InPool(e.addr) /\ s_orig # "none" /\ CrtFree(s_orig, e)

FreeCall(t, e) ==
  /\ MayCall(t) /\ live' = live \ {e}
  /\ \/ iat[e.lib].free = "crt" /\ CrtFree(e.lib, e)
     \/ iat[e.lib].free = "my" /\ MyFree(e)
  /\ UNCHANGED <<pool, hook, th>>

\* DLL_PROCESS_DETACH, at the end of the process.
Detach ==
  /\ g_inited /\ \A t \in Threads : At(t, "idle")
  /\ g_pool' = 0 /\ status' = "closed"
  /\ UNCHANGED <<g_used, g_lock, hook, th, live, crt>>

Stopped == status # "run" /\ UNCHANGED vars

Step(t) == EnterMyMalloc(t) \/ TestMyMalloc(t) \/ BumpMyMalloc(t) \/ LeaveMyMalloc(t)
Next ==
  \/ HookAllocators \/ ReservePool \/ FindOriginals \/ HookImports
  \/ \E t \in Threads :
       \/ \E lib \in Imports, sz \in Requests : MallocCall(t, lib, sz)
       \/ \E e \in live : FreeCall(t, e)
       \/ Step(t)
  \/ Detach
  \/ Stopped

Spec == Init /\ [][Next]_vars
=============================================================================

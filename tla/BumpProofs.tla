----------------------------- MODULE BumpProofs -----------------------------
(***************************************************************************)
(* MemoryPool.dll is safe for any number of threads, any requests and any  *)
(* arena: its types, its invariant, that its extents never overlap, that   *)
(* no C library's free is handed a stranger's block, that it implements    *)
(* the abstract heap, and that it loses no block of the C libraries.       *)
(***************************************************************************)
EXTENDS BumpProperties, TLAPS

LEMMA ImportNames ==
  ASSUME NEW m \in Imports
  PROVE  /\ m \in {"msvcrt", "ucrtbase"} /\ m \in Heaps \ {"pool"}
         /\ FreeStep[m] \in {"h_msvcrt_free", "h_ucrtbase_free"}
<1>1. m \in {"msvcrt", "ucrtbase"} BY BumpAssumption
<1>2. CASE m = "msvcrt" BY <1>2 DEF Heaps, FreeStep
<1>3. CASE m = "ucrtbase" BY <1>3 DEF Heaps, FreeStep
<1> QED BY <1>1, <1>2, <1>3

LEMMA AddrsNat == Addrs \subseteq Nat
<1>1. CrtAddrs \subseteq Nat /\ PoolBase \in Nat /\ PoolSize \in Nat BY BumpAssumption
<1>2. PoolBase .. PoolBase + PoolSize \subseteq Nat BY <1>1
<1> QED BY <1>1, <1>2 DEF Addrs

LEMMA IdleLocals == Idle \in [pc : Labels, lib : Imports \cup {"none"}, sz : Nat]
BY DEF Idle, Labels

\* A sum of g_used and a request never wraps.
LEMMA SumFits ==
  ASSUME TypeOK, NEW sz \in Requests
  PROVE  /\ sz \in Nat /\ g_used + sz \in Nat /\ (g_used + sz) % SizeMod = g_used + sz
         /\ g_used \in Nat /\ PoolSize \in Nat /\ PoolBase \in Nat \ {0}
<1>1. sz \in Nat /\ SizeMod \in Nat \ {0} /\ PoolSize \in Nat /\ PoolBase \in Nat \ {0}
  BY BumpAssumption
<1>2. PoolSize + sz < SizeMod BY RequestsAssumption
<1>3. g_used \in 0 .. PoolSize BY DEF TypeOK
<1>4. g_used + sz \in 0 .. SizeMod - 1 BY <1>1, <1>2, <1>3
<1>5. (g_used + sz) % SizeMod = g_used + sz BY <1>1, <1>4
<1> QED BY <1>1, <1>3, <1>4, <1>5

\* What a C library's malloc may change.
LEMMA CrtMallocEffect ==
  ASSUME TypeOK, NEW lib \in Imports, NEW heap \in (Heaps \ {"pool"}) \cup {"none"}, NEW sz \in Nat,
         CrtMalloc(lib, heap, sz)
  PROVE  /\ crt' \subseteq [addr : CrtAddrs, heap : Heaps]
         /\ \/ live' = live
            \/ heap # "none" /\ \E a \in CrtAddrs : live' = live \cup {Owned(a, sz, heap, lib)}
BY DEF CrtMalloc, TypeOK

-----------------------------------------------------------------------------
(* Types and invariant, action by action. *)

LEMMA InitInv == Init => TypeOK /\ BumpInv
<1> SUFFICES ASSUME Init PROVE TypeOK /\ BumpInv OBVIOUS
<1>1. TypeOK
  <2>1. g_pool \in {0, PoolBase} /\ g_used \in 0 .. PoolSize
    BY BumpAssumption DEF Init
  <2>2. th \in [Threads -> [pc : Labels, lib : Imports \cup {"none"}, sz : Nat]]
    BY IdleLocals DEF Init
  <2>3. iat \in [Imports -> [malloc : {"crt", "my"}, free : {"crt", "my"}]] BY DEF Init
  <2> QED BY <2>1, <2>2, <2>3 DEF Init, TypeOK
<1>2. \A t \in Threads : th[t].pc = "idle" BY DEF Init, Idle
<1>3. LockHolder /\ HookedAlone /\ CallsHooked /\ RoomTaken
  BY <1>2, BumpAssumption DEF LockHolder, HookedAlone, CallsHooked, RoomTaken, Holding, InCall,
     Hooking
<1>4. ArenaFilled /\ NoOverlap /\ BlocksKnown
  BY DEF Init, ArenaFilled, NoOverlap, BlocksKnown, PoolHeap
<1>5. HooksPaired
  <2>1. \A m \in Imports : th[Loader].pc # FreeStep[m]
    BY <1>2, BumpAssumption, ImportNames
  <2> QED BY <2>1 DEF Init, HooksPaired
<1> QED BY <1>1, <1>3, <1>4, <1>5 DEF BumpInv

\* A step that leaves the arena, the hooks and the blocks alone.
LEMMA HookAllocatorsInv ==
  ASSUME TypeOK, BumpInv, HookAllocators
  PROVE  TypeOK' /\ BumpInv'
<1>1. Loader \in Threads BY BumpAssumption
<1>2. /\ \A t \in Threads : th[t].pc = "idle"
      /\ th' = [th EXCEPT ![Loader].pc = "h_pool"] /\ ~g_inited /\ g_inited' = TRUE
  BY DEF HookAllocators, At, Goto
<1>3. UNCHANGED <<g_pool, g_used, g_lock, s_orig, iat, live, crt, status>>
  BY DEF HookAllocators, pool
<1>4. TypeOK' BY <1>1, <1>2, <1>3, SMTT(30) DEF TypeOK, Labels, Hooking
<1>5. \A t \in Threads : th'[t].pc = IF t = Loader THEN "h_pool" ELSE "idle"
  BY <1>1, <1>2 DEF TypeOK
<1>6. LockHolder' /\ CallsHooked' /\ RoomTaken'
  BY <1>5 DEF LockHolder, CallsHooked, RoomTaken, Holding, InCall
<1>7. HookedAlone' BY <1>1, <1>2, <1>5 DEF HookedAlone, Hooking
<1>8. PoolHeap' = PoolHeap /\ NoOverlap'
  BY <1>3 DEF PoolHeap, NoOverlap, Apart, BumpInv
<1>9. ArenaFilled' BY <1>2, <1>3, <1>5, <1>8 DEF ArenaFilled, BumpInv
<1>10. HooksPaired'
  <2> SUFFICES ASSUME NEW m \in Imports
               PROVE  iat[m].malloc = "crt" /\ iat[m].free = "crt" /\ th'[Loader].pc # FreeStep[m]
    BY <1>3 DEF HooksPaired
  <2>1. th'[Loader].pc # FreeStep[m] BY <1>1, <1>5, ImportNames
  <2> QED BY <1>2, <2>1 DEF HooksPaired, BumpInv
<1>11. BlocksKnown' BY <1>3 DEF BlocksKnown, BumpInv, Running
<1> QED BY <1>4, <1>6, <1>7, <1>8, <1>9, <1>10, <1>11 DEF BumpInv

\* While HookAllocators runs nobody is in MyMalloc: a step of it that leaves the
\* arena's blocks alone keeps what is said of MyMalloc.
LEMMA HookStepInv ==
  ASSUME TypeOK, BumpInv, th[Loader].pc \in Hooking,
         NEW next \in Hooking \cup {"idle"}, th' = [th EXCEPT ![Loader].pc = next],
         UNCHANGED <<g_inited, g_used, live>>
  PROVE  /\ th' \in [Threads -> [pc : Labels, lib : Imports \cup {"none"}, sz : Nat]]
         /\ th'[Loader].pc = next
         /\ LockHolder' /\ HookedAlone' /\ CallsHooked' /\ RoomTaken'
         /\ ArenaFilled' /\ NoOverlap'
<1>1. Loader \in Threads BY BumpAssumption
<1>2. th' \in [Threads -> [pc : Labels, lib : Imports \cup {"none"}, sz : Nat]]
  BY <1>1 DEF TypeOK, Labels
<1>3. \A t \in Threads : th'[t].pc = IF t = Loader THEN next ELSE "idle"
  BY <1>1 DEF TypeOK, BumpInv, HookedAlone
<1>4. \A t \in Threads : th'[t].pc \notin InCall
  BY <1>3 DEF InCall, Hooking
<1>5. LockHolder' /\ CallsHooked' /\ RoomTaken'
  BY <1>4 DEF LockHolder, CallsHooked, RoomTaken, Holding, InCall
<1>6. HookedAlone'
  <2>1. g_inited BY <1>1 DEF BumpInv, HookedAlone
  <2> QED BY <1>1, <1>3, <2>1 DEF HookedAlone, Hooking
<1>7. PoolHeap' = PoolHeap /\ NoOverlap'
  BY DEF PoolHeap, NoOverlap, Apart, BumpInv
<1>8. ArenaFilled'
  <2>1. \A t \in Threads : th[t].pc # "bump"
    BY <1>1 DEF BumpInv, HookedAlone, Hooking
  <2> QED BY <1>7, <2>1 DEF ArenaFilled, BumpInv
<1> QED BY <1>1, <1>2, <1>3, <1>5, <1>6, <1>7, <1>8

LEMMA ReservePoolInv ==
  ASSUME TypeOK, BumpInv, ReservePool
  PROVE  TypeOK' /\ BumpInv'
<1>1. /\ th[Loader].pc = "h_pool" /\ th' = [th EXCEPT ![Loader].pc = "h_orig"]
      /\ g_pool' \in {0, PoolBase} /\ UNCHANGED <<g_used, g_lock, hook, live, crt, status>>
  BY DEF ReservePool, At, Goto
<1>2. /\ th' \in [Threads -> [pc : Labels, lib : Imports \cup {"none"}, sz : Nat]]
      /\ th'[Loader].pc = "h_orig"
      /\ LockHolder' /\ HookedAlone' /\ CallsHooked' /\ RoomTaken' /\ ArenaFilled' /\ NoOverlap'
  BY <1>1, HookStepInv DEF Hooking, hook
<1>3. TypeOK' BY <1>1, <1>2 DEF TypeOK, hook
<1>4. \A m \in Imports : iat[m].malloc = "crt" /\ iat[m].free = "crt"
  BY <1>1 DEF BumpInv, HooksPaired
<1>5. HooksPaired'
  BY <1>1, <1>2, <1>4, ImportNames DEF HooksPaired, hook
<1>6. BlocksKnown'
  <2>1. \A e \in live : e.lib \in Imports BY DEF TypeOK
  <2>2. \A e \in live : e.heap = e.lib /\ e.heap # "pool"
    BY <1>4, <2>1, ImportNames DEF BumpInv, BlocksKnown
  <2> QED BY <1>1, <2>2 DEF BumpInv, BlocksKnown, hook
<1> QED BY <1>2, <1>3, <1>5, <1>6 DEF BumpInv

LEMMA FindOriginalsInv ==
  ASSUME TypeOK, BumpInv, FindOriginals
  PROVE  TypeOK' /\ BumpInv'
<1>1. /\ th[Loader].pc = "h_orig" /\ th' = [th EXCEPT ![Loader].pc = "h_msvcrt_malloc"]
      /\ s_orig' \in {"none", "msvcrt", "ucrtbase"}
      /\ UNCHANGED <<g_pool, g_used, g_lock, g_inited, iat, live, crt, status>>
  BY DEF FindOriginals, At, Goto, pool
<1>2. /\ th' \in [Threads -> [pc : Labels, lib : Imports \cup {"none"}, sz : Nat]]
      /\ th'[Loader].pc = "h_msvcrt_malloc"
      /\ LockHolder' /\ HookedAlone' /\ CallsHooked' /\ RoomTaken' /\ ArenaFilled' /\ NoOverlap'
  BY <1>1, HookStepInv DEF Hooking
<1>3. TypeOK' BY <1>1, <1>2 DEF TypeOK
<1>4. \A m \in Imports : iat[m].malloc = "crt" /\ iat[m].free = "crt"
  BY <1>1 DEF BumpInv, HooksPaired
<1>5. HooksPaired' BY <1>1, <1>2, <1>4, ImportNames DEF HooksPaired
<1>6. BlocksKnown'
  <2>1. \A e \in live : e.lib \in Imports BY DEF TypeOK
  <2>2. \A e \in live : e.heap = e.lib /\ e.heap # "pool"
    BY <1>4, <2>1, ImportNames DEF BumpInv, BlocksKnown
  <2> QED BY <1>1, <2>2 DEF BumpInv, BlocksKnown
<1> QED BY <1>2, <1>3, <1>5, <1>6 DEF BumpInv

\* What the four calls of HookIAT have in common.
LEMMA HookIATInv ==
  ASSUME TypeOK, BumpInv, NEW lib \in {"msvcrt", "ucrtbase"}, NEW fn \in {"malloc", "free"},
         NEW label \in Hooking, NEW next \in Hooking \cup {"idle"},
         HookIAT(lib, fn, label, next), HooksPaired'
  PROVE  TypeOK' /\ BumpInv'
<1>1. /\ th[Loader].pc = label /\ th' = [th EXCEPT ![Loader].pc = next]
      /\ UNCHANGED <<g_pool, g_used, g_lock, g_inited, s_orig, live, crt, status>>
  BY DEF HookIAT, At, Goto, pool
<1>2. /\ th' \in [Threads -> [pc : Labels, lib : Imports \cup {"none"}, sz : Nat]]
      /\ LockHolder' /\ HookedAlone' /\ CallsHooked' /\ RoomTaken' /\ ArenaFilled' /\ NoOverlap'
  BY <1>1, HookStepInv
<1>3. iat' \in [Imports -> [malloc : {"crt", "my"}, free : {"crt", "my"}]]
  <2>1. CASE lib \notin Imports BY <2>1 DEF HookIAT, TypeOK
  <2>2. CASE lib \in Imports /\ fn = "malloc"
    BY <2>2 DEF HookIAT, TypeOK
  <2>3. CASE lib \in Imports /\ fn = "free"
    BY <2>3 DEF HookIAT, TypeOK
  <2> QED BY <2>1, <2>2, <2>3
<1>4. TypeOK' BY <1>1, <1>2, <1>3 DEF TypeOK
<1>5. \A m \in Imports : iat'[m].malloc = "crt" => iat[m].malloc = "crt"
  <2>1. CASE lib \notin Imports BY <2>1 DEF HookIAT, TypeOK
  <2>2. CASE lib \in Imports /\ fn = "malloc"
    BY <2>2 DEF HookIAT, TypeOK
  <2>3. CASE lib \in Imports /\ fn = "free"
    BY <2>3 DEF HookIAT, TypeOK
  <2> QED BY <2>1, <2>2, <2>3
<1>6. BlocksKnown'
  <2>1. \A e \in live : e.lib \in Imports BY DEF TypeOK
  <2> QED BY <1>1, <1>5, <2>1 DEF BumpInv, BlocksKnown, Running
<1> QED BY <1>2, <1>4, <1>6 DEF BumpInv

LEMMA HookImportsInv ==
  ASSUME TypeOK, BumpInv, HookImports
  PROVE  TypeOK' /\ BumpInv'
<1>1. Loader \in Threads BY BumpAssumption
<1> USE DEF Hooking
<1>2. ASSUME th[Loader].pc \in Hooking PROVE g_inited
  BY <1>1, <1>2 DEF BumpInv, HookedAlone
<1>3. ASSUME NEW lib \in {"msvcrt", "ucrtbase"}, NEW next \in Hooking \cup {"idle"},
             NEW label \in Hooking, HookIAT(lib, "malloc", label, next),
             next = FreeStep[lib],
             label = IF lib = "msvcrt" THEN "h_msvcrt_malloc" ELSE "h_ucrtbase_malloc"
      PROVE  HooksPaired'
  <2>1. /\ th[Loader].pc = label /\ th' = [th EXCEPT ![Loader].pc = next]
        /\ UNCHANGED g_inited
    BY <1>3 DEF HookIAT, At, Goto
  <2>2. th'[Loader].pc = next BY <1>1, <2>1 DEF TypeOK
  <2>3. \A m \in Imports : th[Loader].pc # FreeStep[m]
    BY <1>3, <2>1, ImportNames
  <2>4. g_inited' BY <1>2, <1>3, <2>1
  <2>5. next \notin {"h_pool", "h_orig"} BY <1>3 DEF FreeStep
  <2>6. SUFFICES ASSUME NEW m \in Imports
                 PROVE  /\ iat'[m].malloc # iat'[m].free => th'[Loader].pc = FreeStep[m]
                        /\ th'[Loader].pc = FreeStep[m] => iat'[m].malloc = "my"
    BY <2>2, <2>4, <2>5 DEF HooksPaired
  <2>7. CASE m = lib
    <3>1. iat'[m].malloc = "my" BY <1>3, <2>7 DEF HookIAT, TypeOK
    <3> QED BY <1>3, <2>2, <2>7, <3>1
  <2>8. CASE m # lib
    <3>1. iat'[m] = iat[m] BY <1>3, <2>8 DEF HookIAT, TypeOK
    <3>2. iat[m].malloc = iat[m].free BY <2>3 DEF BumpInv, HooksPaired
    <3>3. FreeStep[m] # FreeStep[lib] BY <1>3, <2>8, ImportNames DEF FreeStep
    <3> QED BY <1>3, <2>2, <3>1, <3>2, <3>3
  <2> QED BY <2>7, <2>8
<1>4. ASSUME NEW lib \in {"msvcrt", "ucrtbase"}, NEW next \in Hooking \cup {"idle"},
             NEW label \in Hooking, HookIAT(lib, "free", label, next),
             label = FreeStep[lib], next \in {"h_ucrtbase_malloc", "idle"}
      PROVE  HooksPaired'
  <2>1. /\ th[Loader].pc = label /\ th' = [th EXCEPT ![Loader].pc = next]
        /\ UNCHANGED g_inited
    BY <1>4 DEF HookIAT, At, Goto
  <2>2. th'[Loader].pc = next BY <1>1, <2>1 DEF TypeOK
  <2>3. \A m \in Imports : next # FreeStep[m] BY <1>4, ImportNames
  <2>4. g_inited' BY <1>2, <1>4, <2>1
  <2>5. next \notin {"h_pool", "h_orig"} BY <1>4
  <2>6. SUFFICES ASSUME NEW m \in Imports PROVE iat'[m].malloc = iat'[m].free
    BY <2>2, <2>3, <2>4, <2>5 DEF HooksPaired
  <2>7. CASE m = lib
    <3>1. iat[m].malloc = "my" BY <1>4, <2>1, <2>7 DEF BumpInv, HooksPaired
    <3> QED BY <1>4, <2>7, <3>1 DEF HookIAT, TypeOK
  <2>8. CASE m # lib
    <3>1. iat'[m] = iat[m] BY <1>4, <2>8 DEF HookIAT, TypeOK
    <3>2. FreeStep[m] # FreeStep[lib] BY <1>4, <2>8, ImportNames DEF FreeStep
    <3>3. iat[m].malloc = iat[m].free BY <1>4, <2>1, <3>2 DEF BumpInv, HooksPaired
    <3> QED BY <3>1, <3>3
  <2> QED BY <2>7, <2>8
<1>5. CASE HookIAT("msvcrt", "malloc", "h_msvcrt_malloc", "h_msvcrt_free")
  <2>1. HooksPaired' BY <1>3, <1>5 DEF FreeStep
  <2> QED BY <1>5, <2>1, HookIATInv
<1>6. CASE HookIAT("msvcrt", "free", "h_msvcrt_free", "h_ucrtbase_malloc")
  <2>1. HooksPaired' BY <1>4, <1>6 DEF FreeStep
  <2> QED BY <1>6, <2>1, HookIATInv
<1>7. CASE HookIAT("ucrtbase", "malloc", "h_ucrtbase_malloc", "h_ucrtbase_free")
  <2>1. HooksPaired' BY <1>3, <1>7 DEF FreeStep
  <2> QED BY <1>7, <2>1, HookIATInv
<1>8. CASE HookIAT("ucrtbase", "free", "h_ucrtbase_free", "idle")
  <2>1. HooksPaired' BY <1>4, <1>8 DEF FreeStep
  <2> QED BY <1>8, <2>1, HookIATInv
<1> QED BY <1>5, <1>6, <1>7, <1>8 DEF HookImports

-----------------------------------------------------------------------------
\* A thread that is in MyMalloc is not inside HookAllocators, and nobody is.
LEMMA CallsAlone ==
  ASSUME TypeOK, BumpInv, NEW t \in Threads, th[t].pc \in InCall
  PROVE  Alone
<1>1. Loader \in Threads BY BumpAssumption
<1>2. th[t].pc \notin Hooking \cup {"idle"} BY DEF InCall, Hooking
<1>3. th[Loader].pc \notin Hooking BY <1>1, <1>2 DEF BumpInv, HookedAlone
<1> QED BY <1>1, <1>3 DEF Alone, BumpInv, HookedAlone

\* A step of one thread while nobody is inside HookAllocators keeps what is said
\* of the hooks.
LEMMA CallStepInv ==
  ASSUME TypeOK, BumpInv, Alone, NEW t \in Threads,
         NEW loc \in [pc : InCall \cup {"idle"}, lib : Imports \cup {"none"}, sz : Nat],
         th' = [th EXCEPT ![t] = loc],
         UNCHANGED <<g_inited, iat>>
  PROVE  /\ th' \in [Threads -> [pc : Labels, lib : Imports \cup {"none"}, sz : Nat]]
         /\ \A u \in Threads : th'[u] = IF u = t THEN loc ELSE th[u]
         /\ HookedAlone' /\ HooksPaired'
<1>1. Loader \in Threads BY BumpAssumption
<1>2. th' \in [Threads -> [pc : Labels, lib : Imports \cup {"none"}, sz : Nat]]
  BY DEF TypeOK, Labels, InCall
<1>3. \A u \in Threads : th'[u] = IF u = t THEN loc ELSE th[u] BY DEF TypeOK
<1>4. \A u \in Threads : th[u].pc \notin Hooking /\ th'[u].pc \notin Hooking
  BY <1>3 DEF Alone, InCall, Hooking
<1>5. HookedAlone' BY <1>1, <1>4 DEF HookedAlone
<1>6. HooksPaired'
  <2>1. \A m \in Imports : th[Loader].pc # FreeStep[m] /\ th'[Loader].pc # FreeStep[m]
    BY <1>1, <1>4, ImportNames DEF Hooking
  <2>2. th'[Loader].pc \notin {"h_pool", "h_orig"} BY <1>1, <1>4 DEF Hooking
  <2> QED BY <2>1, <2>2 DEF BumpInv, HooksPaired
<1> QED BY <1>2, <1>3, <1>5, <1>6

\* A C library's block does not touch the arena, and it is known whose it is.
LEMMA CrtMallocInv ==
  ASSUME TypeOK, BumpInv, NEW lib \in Imports, NEW heap \in {lib, s_orig}, NEW sz \in Nat,
         CrtMalloc(lib, heap, sz), iat[lib].malloc = "crt" => heap = lib,
         UNCHANGED <<g_pool, s_orig, iat, status>>
  PROVE  /\ live' \subseteq [addr : Addrs, size : Nat, heap : Heaps, lib : Imports]
         /\ crt' \subseteq [addr : CrtAddrs, heap : Heaps]
         /\ PoolHeap' = PoolHeap /\ BlocksKnown'
<1>1. heap \in (Heaps \ {"pool"}) \cup {"none"}
  <2>1. lib \in Heaps \ {"pool"} BY ImportNames
  <2>2. s_orig \in {"none", "msvcrt", "ucrtbase"} BY DEF TypeOK
  <2> QED BY <2>1, <2>2 DEF Heaps
<1>2. crt' \subseteq [addr : CrtAddrs, heap : Heaps] BY <1>1, CrtMallocEffect
<1>3. CASE live' = live
  <2>1. PoolHeap' = PoolHeap BY <1>3 DEF PoolHeap
  <2>2. BlocksKnown' BY <1>3 DEF BumpInv, BlocksKnown, Running
  <2> QED BY <1>2, <1>3, <2>1, <2>2 DEF TypeOK
<1>4. ASSUME heap # "none", NEW a \in CrtAddrs, live' = live \cup {Owned(a, sz, heap, lib)}
      PROVE  /\ live' \subseteq [addr : Addrs, size : Nat, heap : Heaps, lib : Imports]
             /\ PoolHeap' = PoolHeap /\ BlocksKnown'
  <2> DEFINE e == Owned(a, sz, heap, lib)
  <2>1. e.addr = a /\ e.size = sz /\ e.heap = heap /\ e.lib = lib BY DEF Owned
  <2>2. e \in [addr : Addrs, size : Nat, heap : Heaps, lib : Imports]
    BY <1>1, <1>4 DEF Owned, Addrs
  <2>3. live' \subseteq [addr : Addrs, size : Nat, heap : Heaps, lib : Imports]
    BY <1>4, <2>2 DEF TypeOK
  <2> HIDE DEF e
  <2>4. heap # "pool" BY <1>1
  <2>5. live' = live \cup {e} BY <1>4 DEF e
  <2>6. PoolHeap' = PoolHeap
    <3>1. {q \in live' : q.heap = "pool"} = {q \in live : q.heap = "pool"}
      BY <2>1, <2>4, <2>5
    <3> QED BY <3>1 DEF PoolHeap
  <2>7. BlocksKnown'
    <3>1. ASSUME NEW q \in live
          PROVE  /\ q.heap \in {q.lib, s_orig', "pool"}
                 /\ iat'[q.lib].malloc = "crt" => q.heap = q.lib
                 /\ q.heap # "pool" => q.addr \in CrtAddrs
                 /\ q.heap = "pool" => q.size \in Requests /\ (g_pool' = PoolBase \/ ~Running')
      BY <3>1 DEF BumpInv, BlocksKnown, Running
    <3>2. /\ e.heap \in {e.lib, s_orig', "pool"}
          /\ iat'[e.lib].malloc = "crt" => e.heap = e.lib
          /\ e.heap # "pool" /\ e.addr \in CrtAddrs
      BY <2>1, <2>4, <1>4
    <3> QED BY <2>5, <3>1, <3>2 DEF BlocksKnown
  <2> QED BY <2>3, <2>6, <2>7
<1> QED BY <1>1, <1>2, <1>3, <1>4, CrtMallocEffect

\* NoOverlap and ArenaFilled depend on the extents, g_used and who is at the bump.
LEMMA ArenaUnmoved ==
  ASSUME BumpInv, PoolHeap' = PoolHeap, g_used' = g_used,
         \A u \in Threads : th[u].pc = "bump" => th'[u] = th[u]
  PROVE  NoOverlap' /\ ArenaFilled'
<1>1. NoOverlap' BY DEF NoOverlap, Apart, BumpInv
<1>2. ArenaFilled' BY DEF ArenaFilled, BumpInv
<1> QED BY <1>1, <1>2

LEMMA MallocCallInv ==
  ASSUME TypeOK, BumpInv, NEW t \in Threads, NEW lib \in Imports, NEW sz \in Requests,
         MallocCall(t, lib, sz)
  PROVE  TypeOK' /\ BumpInv'
<1>1. /\ th[t].pc = "idle" /\ Alone
      /\ UNCHANGED <<g_pool, g_used, g_lock, g_inited, s_orig, iat, status>>
  BY DEF MallocCall, MayCall, At, pool, hook
<1>2. sz \in Nat BY BumpAssumption
<1>3. CASE iat[lib].malloc = "crt" /\ CrtMalloc(lib, lib, sz) /\ UNCHANGED th
  <2>1. /\ live' \subseteq [addr : Addrs, size : Nat, heap : Heaps, lib : Imports]
        /\ crt' \subseteq [addr : CrtAddrs, heap : Heaps]
        /\ PoolHeap' = PoolHeap /\ BlocksKnown'
    BY <1>1, <1>2, <1>3, CrtMallocInv
  <2>2. TypeOK' BY <1>1, <1>3, <2>1 DEF TypeOK
  <2>3. NoOverlap' /\ ArenaFilled' BY <1>1, <1>3, <2>1, ArenaUnmoved
  <2>4. LockHolder' /\ HookedAlone' /\ CallsHooked' /\ RoomTaken' /\ HooksPaired'
    BY <1>1, <1>3 DEF BumpInv, LockHolder, HookedAlone, CallsHooked, RoomTaken, HooksPaired
  <2> QED BY <2>1, <2>2, <2>3, <2>4 DEF BumpInv
<1>4. CASE /\ iat[lib].malloc = "my" /\ UNCHANGED <<crt, live>>
           /\ th' = [th EXCEPT ![t] = [pc |-> "enter", lib |-> lib, sz |-> sz]]
  <2> DEFINE loc == [pc |-> "enter", lib |-> lib, sz |-> sz]
  <2>1. loc \in [pc : InCall \cup {"idle"}, lib : Imports \cup {"none"}, sz : Nat]
    BY <1>2 DEF InCall
  <2>2. /\ th' \in [Threads -> [pc : Labels, lib : Imports \cup {"none"}, sz : Nat]]
        /\ \A u \in Threads : th'[u] = IF u = t THEN loc ELSE th[u]
        /\ HookedAlone' /\ HooksPaired'
    BY <1>1, <1>4, <2>1, CallStepInv
  <2>3. TypeOK' BY <1>1, <1>4, <2>2 DEF TypeOK
  <2>4. LockHolder' BY <1>1, <2>2 DEF BumpInv, LockHolder, Holding, InCall
  <2>5. CallsHooked' BY <1>1, <1>4, <2>2 DEF BumpInv, CallsHooked
  <2>6. RoomTaken' BY <1>1, <2>2 DEF BumpInv, RoomTaken
  <2>7. NoOverlap' /\ ArenaFilled'
    <3>1. PoolHeap' = PoolHeap BY <1>4 DEF PoolHeap
    <3> QED BY <1>1, <2>2, <3>1, ArenaUnmoved
  <2>8. BlocksKnown' BY <1>1, <1>4 DEF BumpInv, BlocksKnown, Running
  <2> QED BY <2>2, <2>3, <2>4, <2>5, <2>6, <2>7, <2>8 DEF BumpInv
<1> QED BY <1>3, <1>4 DEF MallocCall

\* Nobody else is past the lock while it is free, or while t is past it.
LEMMA OthersOutside ==
  ASSUME BumpInv, NEW t \in Threads, g_lock = NoThread \/ th[t].pc \in Holding,
         NEW u \in Threads, u # t
  PROVE  th[u].pc \notin Holding
BY BumpAssumption DEF BumpInv, LockHolder

LEMMA EnterMyMallocInv ==
  ASSUME TypeOK, BumpInv, NEW t \in Threads, EnterMyMalloc(t)
  PROVE  TypeOK' /\ BumpInv'
<1> DEFINE loc == [th[t] EXCEPT !.pc = "test"]
<1>1. /\ th[t].pc = "enter" /\ g_lock = NoThread /\ g_lock' = t
      /\ UNCHANGED <<g_pool, g_used, g_inited, s_orig, iat, live, crt, status>>
  BY DEF EnterMyMalloc, Enter, At, hook
<1>2. th' = [th EXCEPT ![t] = loc] BY DEF EnterMyMalloc, Enter, Goto, TypeOK
<1>3. /\ loc \in [pc : InCall \cup {"idle"}, lib : Imports \cup {"none"}, sz : Nat]
      /\ loc.pc = "test" /\ loc.lib = th[t].lib /\ loc.sz = th[t].sz
  BY DEF TypeOK, InCall
<1>4. Alone BY <1>1, CallsAlone DEF InCall
<1> HIDE DEF loc
<1>5. /\ th' \in [Threads -> [pc : Labels, lib : Imports \cup {"none"}, sz : Nat]]
      /\ \A u \in Threads : th'[u] = IF u = t THEN loc ELSE th[u]
      /\ HookedAlone' /\ HooksPaired'
  BY <1>1, <1>2, <1>3, <1>4, CallStepInv
<1>6. TypeOK' BY <1>1, <1>5 DEF TypeOK
<1>7. LockHolder' BY <1>1, <1>5, OthersOutside DEF LockHolder
<1>8. CallsHooked' BY <1>1, <1>3, <1>5 DEF BumpInv, CallsHooked, InCall
<1>9. RoomTaken' BY <1>1, <1>3, <1>5 DEF BumpInv, RoomTaken
<1>10. NoOverlap' /\ ArenaFilled'
  <2>1. PoolHeap' = PoolHeap BY <1>1 DEF PoolHeap
  <2> QED BY <1>1, <1>5, <2>1, ArenaUnmoved
<1>11. BlocksKnown' BY <1>1 DEF BumpInv, BlocksKnown, Running
<1> QED BY <1>5, <1>6, <1>7, <1>8, <1>9, <1>10, <1>11 DEF BumpInv

LEMMA TestMyMallocInv ==
  ASSUME TypeOK, BumpInv, NEW t \in Threads, TestMyMalloc(t)
  PROVE  TypeOK' /\ BumpInv'
<1> DEFINE sz == th[t].sz  lib == th[t].lib
<1>1. th[t].pc = "test" /\ UNCHANGED <<g_pool, g_used, g_inited, s_orig, iat, status>>
  BY DEF TestMyMalloc, At, hook
<1>2. sz \in Requests /\ lib \in Imports /\ iat[lib].malloc = "my"
  BY <1>1 DEF BumpInv, CallsHooked, InCall
<1>3. Alone BY <1>1, CallsAlone DEF InCall
<1>4. \A u \in Threads : u # t => th[u].pc \notin Holding
  BY <1>1, OthersOutside DEF Holding, InCall
<1>5. CASE /\ CrtMalloc(lib, s_orig, sz) /\ th' = [th EXCEPT ![t] = Idle]
           /\ g_lock' = NoThread
  <2>1. Idle \in [pc : InCall \cup {"idle"}, lib : Imports \cup {"none"}, sz : Nat]
        /\ Idle.pc = "idle"
    BY DEF Idle
  <2>2. /\ th' \in [Threads -> [pc : Labels, lib : Imports \cup {"none"}, sz : Nat]]
        /\ \A u \in Threads : th'[u] = IF u = t THEN Idle ELSE th[u]
        /\ HookedAlone' /\ HooksPaired'
    BY <1>1, <1>3, <1>5, <2>1, CallStepInv
  <2>3. /\ live' \subseteq [addr : Addrs, size : Nat, heap : Heaps, lib : Imports]
        /\ crt' \subseteq [addr : CrtAddrs, heap : Heaps]
        /\ PoolHeap' = PoolHeap /\ BlocksKnown'
    <3>1. sz \in Nat BY <1>2, SumFits
    <3> HIDE DEF sz, lib
    <3> QED BY <1>1, <1>2, <1>5, <3>1, CrtMallocInv
  <2>4. TypeOK' BY <1>1, <1>5, <2>2, <2>3 DEF TypeOK
  <2>5. LockHolder' /\ RoomTaken'
    BY <1>4, <2>1, <2>2 DEF LockHolder, RoomTaken, Holding, InCall
  <2>6. CallsHooked' BY <1>1, <2>1, <2>2 DEF BumpInv, CallsHooked, InCall
  <2>7. NoOverlap' /\ ArenaFilled' BY <1>1, <2>2, <2>3, ArenaUnmoved
  <2> QED BY <2>2, <2>3, <2>4, <2>5, <2>6, <2>7 DEF BumpInv
<1>6. CASE ~Exhausted(sz) /\ Goto(t, "take") /\ UNCHANGED <<crt, live, g_lock>>
  <2> DEFINE loc == [th[t] EXCEPT !.pc = "take"]
  <2>1. th' = [th EXCEPT ![t] = loc] BY <1>6 DEF Goto, TypeOK
  <2>2. /\ loc \in [pc : InCall \cup {"idle"}, lib : Imports \cup {"none"}, sz : Nat]
        /\ loc.pc = "take" /\ loc.lib = lib /\ loc.sz = sz
    BY DEF TypeOK, InCall
  <2> HIDE DEF loc
  <2>3. /\ th' \in [Threads -> [pc : Labels, lib : Imports \cup {"none"}, sz : Nat]]
        /\ \A u \in Threads : th'[u] = IF u = t THEN loc ELSE th[u]
        /\ HookedAlone' /\ HooksPaired'
    BY <1>1, <1>3, <2>1, <2>2, CallStepInv
  <2>4. TypeOK' BY <1>1, <1>6, <2>3 DEF TypeOK
  <2>5. LockHolder' BY <1>1, <1>6, <2>3 DEF BumpInv, LockHolder, Holding, InCall
  <2>6. CallsHooked' BY <1>1, <1>2, <2>2, <2>3 DEF BumpInv, CallsHooked
  <2>7. g_pool = PoolBase /\ g_used + sz <= PoolSize
    <3>1. g_pool # 0 /\ ~((g_used + sz) % SizeMod > PoolSize) BY <1>6 DEF Exhausted
    <3>2. (g_used + sz) % SizeMod = g_used + sz /\ g_used + sz \in Nat /\ PoolSize \in Nat
      BY <1>2, SumFits
    <3>3. g_pool = PoolBase BY <3>1 DEF TypeOK
    <3> QED BY <3>1, <3>2, <3>3
  <2>8. RoomTaken'
    BY <1>1, <1>4, <2>2, <2>3, <2>7 DEF RoomTaken, Holding, InCall
  <2>9. NoOverlap' /\ ArenaFilled'
    <3>1. PoolHeap' = PoolHeap BY <1>6 DEF PoolHeap
    <3> QED BY <1>1, <2>3, <3>1, ArenaUnmoved
  <2>10. BlocksKnown' BY <1>1, <1>6 DEF BumpInv, BlocksKnown, Running
  <2> QED BY <2>3, <2>4, <2>5, <2>6, <2>8, <2>9, <2>10 DEF BumpInv
<1> QED BY <1>5, <1>6 DEF TestMyMalloc

\* While t is about to take its bytes, every extent ends below them.
LEMMA FilledBelow ==
  ASSUME TypeOK, BumpInv, NEW t \in Threads, th[t].pc = "take"
  PROVE  \A e \in PoolHeap : PoolBase <= e.addr /\ e.addr + e.size <= PoolBase + g_used
<1>1. \A u \in Threads : th[u].pc # "bump"
  BY OthersOutside DEF Holding, InCall
<1> QED BY <1>1 DEF BumpInv, ArenaFilled

\* The bytes taken are a fresh extent of the abstract heap.
LEMMA TakenFresh ==
  ASSUME TypeOK, BumpInv, NEW t \in Threads, BumpMyMalloc(t)
  PROVE  LET e == [addr |-> PoolBase + g_used, size |-> th[t].sz] IN
         /\ live' = live \cup {Owned(e.addr, e.size, "pool", th[t].lib)}
         /\ PoolHeap' = PoolHeap \cup {e}
         /\ e.addr \in Nat /\ e.size \in Nat /\ th[t].sz \in Requests /\ g_pool = PoolBase
         /\ e.addr >= PoolBase /\ e.addr + e.size <= PoolBase + PoolSize
         /\ \A g \in PoolHeap : g.addr + g.size <= e.addr
<1> DEFINE e == [addr |-> PoolBase + g_used, size |-> th[t].sz]
           q == Owned(e.addr, e.size, "pool", th[t].lib)
<1>1. th[t].pc = "take" BY DEF BumpMyMalloc, At
<1>2. g_pool = PoolBase /\ g_used + th[t].sz <= PoolSize BY <1>1 DEF BumpInv, RoomTaken
<1>3. th[t].sz \in Requests BY <1>1 DEF BumpInv, CallsHooked, InCall
<1>4. /\ th[t].sz \in Nat /\ g_used \in Nat /\ PoolSize \in Nat /\ PoolBase \in Nat
  BY <1>3, SumFits
<1>5. live' = live \cup {q} BY <1>2 DEF BumpMyMalloc
<1>6. PoolHeap' = PoolHeap \cup {e}
  <2>1. q.heap = "pool" /\ q.addr = e.addr /\ q.size = e.size BY DEF Owned
  <2> HIDE DEF q
  <2>2. {p \in live' : p.heap = "pool"} = {p \in live : p.heap = "pool"} \cup {q}
    BY <1>5, <2>1
  <2>3. [addr |-> q.addr, size |-> q.size] = e BY <2>1
  <2> HIDE DEF e
  <2> QED BY <2>2, <2>3 DEF PoolHeap
<1>7. \A g \in PoolHeap : g.addr + g.size <= e.addr BY <1>1, FilledBelow
<1> QED BY <1>2, <1>3, <1>4, <1>5, <1>6, <1>7

LEMMA BumpMyMallocInv ==
  ASSUME TypeOK, BumpInv, NEW t \in Threads, BumpMyMalloc(t)
  PROVE  TypeOK' /\ BumpInv'
<1> DEFINE loc == [th[t] EXCEPT !.pc = "bump"]
           e == [addr |-> PoolBase + g_used, size |-> th[t].sz]
           q == Owned(e.addr, e.size, "pool", th[t].lib)
<1>1. /\ th[t].pc = "take"
      /\ UNCHANGED <<g_pool, g_used, g_lock, g_inited, s_orig, iat, crt, status>>
  BY DEF BumpMyMalloc, At, pool, hook
<1>2. th' = [th EXCEPT ![t] = loc] BY DEF BumpMyMalloc, Goto, TypeOK
<1>3. /\ loc \in [pc : InCall \cup {"idle"}, lib : Imports \cup {"none"}, sz : Nat]
      /\ loc.pc = "bump" /\ loc.lib = th[t].lib /\ loc.sz = th[t].sz
  BY DEF TypeOK, InCall
<1>4. Alone BY <1>1, CallsAlone DEF InCall
<1>5. /\ live' = live \cup {q} /\ PoolHeap' = PoolHeap \cup {e}
      /\ e.addr \in Nat /\ e.size \in Nat /\ th[t].sz \in Requests /\ g_pool = PoolBase
      /\ e.addr >= PoolBase /\ e.addr + e.size <= PoolBase + PoolSize
      /\ \A g \in PoolHeap : g.addr + g.size <= e.addr
  BY TakenFresh
<1>6. e.addr = PoolBase + g_used /\ e.size = th[t].sz OBVIOUS
<1>7. /\ q.addr = e.addr /\ q.size = e.size /\ q.heap = "pool" /\ q.lib = th[t].lib
      /\ th[t].lib \in Imports /\ iat[th[t].lib].malloc = "my"
  BY <1>1 DEF Owned, BumpInv, CallsHooked, InCall
<1>8. e.addr \in PoolBase .. PoolBase + PoolSize
  BY <1>5, BumpAssumption
<1>9. q \in [addr : Addrs, size : Nat, heap : Heaps, lib : Imports]
  BY <1>5, <1>7, <1>8 DEF Owned, Addrs, Heaps
<1> HIDE DEF loc, e, q
<1>10. /\ th' \in [Threads -> [pc : Labels, lib : Imports \cup {"none"}, sz : Nat]]
       /\ \A u \in Threads : th'[u] = IF u = t THEN loc ELSE th[u]
       /\ HookedAlone' /\ HooksPaired'
  BY <1>1, <1>2, <1>3, <1>4, CallStepInv
<1>11. TypeOK' BY <1>1, <1>5, <1>9, <1>10 DEF TypeOK
<1>12. LockHolder' BY <1>1, <1>10 DEF BumpInv, LockHolder, Holding, InCall
<1>13. CallsHooked' BY <1>1, <1>3, <1>5, <1>7, <1>10 DEF BumpInv, CallsHooked
<1>14. RoomTaken' BY <1>1, <1>3, <1>10 DEF BumpInv, RoomTaken
<1>15. NoOverlap'
  <2> SUFFICES ASSUME NEW x \in PoolHeap', NEW y \in PoolHeap', x # y PROVE Apart(x, y)
    BY DEF NoOverlap, Apart
  <2>1. CASE x \in PoolHeap /\ y \in PoolHeap BY <2>1 DEF BumpInv, NoOverlap
  <2>2. CASE x = e /\ y \in PoolHeap BY <1>5, <2>2 DEF Apart
  <2>3. CASE y = e /\ x \in PoolHeap BY <1>5, <2>3 DEF Apart
  <2> QED BY <1>5, <2>1, <2>2, <2>3
<1>16. ArenaFilled'
  <2> SUFFICES ASSUME NEW x \in PoolHeap'
               PROVE  /\ PoolBase <= x.addr
                      /\ \/ x.addr + x.size <= PoolBase + g_used
                         \/ \E u \in Threads :
                              /\ th'[u].pc = "bump"
                              /\ x = [addr |-> PoolBase + g_used, size |-> th'[u].sz]
    BY <1>1 DEF ArenaFilled
  <2>1. CASE x \in PoolHeap BY <1>1, <2>1, FilledBelow
  <2>2. CASE x = e
    <3>1. x = [addr |-> PoolBase + g_used, size |-> th'[t].sz]
      BY <1>3, <1>10, <2>2 DEF e
    <3> QED BY <1>3, <1>5, <1>10, <2>2, <3>1
  <2> QED BY <1>5, <2>1, <2>2
<1>17. BlocksKnown'
  <2>1. ASSUME NEW p \in live
        PROVE  /\ p.heap \in {p.lib, s_orig', "pool"}
               /\ iat'[p.lib].malloc = "crt" => p.heap = p.lib
               /\ p.heap # "pool" => p.addr \in CrtAddrs
               /\ p.heap = "pool" => p.size \in Requests /\ (g_pool' = PoolBase \/ ~Running')
    BY <1>1, <2>1 DEF BumpInv, BlocksKnown, Running
  <2>2. /\ q.heap = "pool" /\ q.size \in Requests /\ g_pool' = PoolBase
        /\ iat'[q.lib].malloc # "crt"
    BY <1>1, <1>5, <1>6, <1>7
  <2> QED BY <1>5, <2>1, <2>2 DEF BlocksKnown
<1> QED BY <1>10, <1>11, <1>12, <1>13, <1>14, <1>15, <1>16, <1>17 DEF BumpInv

LEMMA LeaveMyMallocInv ==
  ASSUME TypeOK, BumpInv, NEW t \in Threads, LeaveMyMalloc(t)
  PROVE  TypeOK' /\ BumpInv'
<1>1. /\ th[t].pc = "bump" /\ th' = [th EXCEPT ![t] = Idle]
      /\ g_used' = (g_used + th[t].sz) % SizeMod /\ g_lock' = NoThread
      /\ UNCHANGED <<g_pool, g_inited, s_orig, iat, live, crt, status>>
  BY DEF LeaveMyMalloc, At, hook
<1>2. th[t].sz \in Requests BY <1>1 DEF BumpInv, CallsHooked, InCall
<1>3. g_used + th[t].sz <= PoolSize BY <1>1 DEF BumpInv, RoomTaken
<1>4. /\ g_used' = g_used + th[t].sz /\ g_used \in Nat /\ th[t].sz \in Nat
      /\ PoolSize \in Nat /\ PoolBase \in Nat
  BY <1>1, <1>2, SumFits
<1>5. Alone BY <1>1, CallsAlone DEF InCall
<1>6. \A u \in Threads : u # t => th[u].pc \notin Holding
  BY <1>1, OthersOutside DEF Holding, InCall
<1>7. /\ Idle \in [pc : InCall \cup {"idle"}, lib : Imports \cup {"none"}, sz : Nat]
      /\ Idle.pc = "idle"
  BY DEF Idle
<1>8. /\ th' \in [Threads -> [pc : Labels, lib : Imports \cup {"none"}, sz : Nat]]
      /\ \A u \in Threads : th'[u] = IF u = t THEN Idle ELSE th[u]
      /\ HookedAlone' /\ HooksPaired'
  BY <1>1, <1>5, <1>7, CallStepInv
<1>9. TypeOK'
  <2>1. g_used' \in 0 .. PoolSize BY <1>3, <1>4
  <2> QED BY <1>1, <1>8, <2>1 DEF TypeOK
<1>10. LockHolder' /\ RoomTaken'
  BY <1>6, <1>7, <1>8 DEF LockHolder, RoomTaken, Holding, InCall
<1>11. CallsHooked' BY <1>1, <1>7, <1>8 DEF BumpInv, CallsHooked, InCall
<1>12. PoolHeap' = PoolHeap /\ NoOverlap'
  BY <1>1 DEF PoolHeap, NoOverlap, Apart, BumpInv
<1>13. ArenaFilled'
  <2> SUFFICES ASSUME NEW e \in PoolHeap
               PROVE  PoolBase <= e.addr /\ e.addr + e.size <= PoolBase + g_used'
    BY <1>12 DEF ArenaFilled
  <2>1. PoolBase <= e.addr BY DEF BumpInv, ArenaFilled
  <2>2. e.addr \in Nat /\ e.size \in Nat
    <3>1. PICK p \in live : e = [addr |-> p.addr, size |-> p.size] /\ p.heap = "pool"
      BY DEF PoolHeap
    <3>2. p.addr \in Addrs /\ p.size \in Nat BY DEF TypeOK
    <3> QED BY <3>1, <3>2, AddrsNat
  <2>3. CASE e.addr + e.size <= PoolBase + g_used BY <1>4, <2>1, <2>2, <2>3
  <2>4. CASE e = [addr |-> PoolBase + g_used, size |-> th[t].sz]
    BY <1>4, <2>1, <2>4
  <2>5. \A u \in Threads : th[u].pc = "bump" => u = t
    BY <1>6 DEF Holding, InCall
  <2> QED BY <2>1, <2>3, <2>4, <2>5 DEF BumpInv, ArenaFilled
<1>14. BlocksKnown' BY <1>1 DEF BumpInv, BlocksKnown, Running
<1> QED BY <1>8, <1>9, <1>10, <1>11, <1>12, <1>13, <1>14 DEF BumpInv

\* MyFree and the C library's free give back at most one extent.
LEMMA FreeCallEffect ==
  ASSUME TypeOK, NEW t \in Threads, NEW e \in live, FreeCall(t, e)
  PROVE  /\ live' = live \ {e} /\ crt' \subseteq crt /\ status' \in {status, "corrupt"}
         /\ th[t].pc = "idle" /\ Alone /\ Running
         /\ UNCHANGED <<g_pool, g_used, g_lock, g_inited, s_orig, iat, th>>
         /\ PoolHeap' = PoolHeap \/ PoolHeap' = PoolHeap \ {[addr |-> e.addr, size |-> e.size]}
<1> DEFINE x == [addr |-> e.addr, size |-> e.size]
<1>1. live' = live \ {e} BY DEF FreeCall
<1>2. crt' \subseteq crt /\ status' \in {status, "corrupt"}
  BY DEF FreeCall, MyFree, CrtFree
<1>3. PoolHeap' \subseteq PoolHeap BY <1>1 DEF PoolHeap
<1>4. PoolHeap \ {x} \subseteq PoolHeap' BY <1>1 DEF PoolHeap
<1> HIDE DEF x
<1>5. PoolHeap' = PoolHeap \/ PoolHeap' = PoolHeap \ {x} BY <1>3, <1>4
<1> QED BY <1>1, <1>2, <1>5 DEF x, FreeCall, MayCall, At, Running, pool, hook

LEMMA FreeCallInv ==
  ASSUME TypeOK, BumpInv, NEW t \in Threads, NEW e \in live, FreeCall(t, e)
  PROVE  TypeOK' /\ BumpInv'
<1>1. /\ live' = live \ {e} /\ crt' \subseteq crt /\ status' \in {status, "corrupt"}
      /\ Running
      /\ UNCHANGED <<g_pool, g_used, g_lock, g_inited, s_orig, iat, th>>
      /\ PoolHeap' \subseteq PoolHeap
  BY FreeCallEffect
<1>2. TypeOK' BY <1>1 DEF TypeOK
<1>3. LockHolder' /\ HookedAlone' /\ CallsHooked' /\ RoomTaken' /\ HooksPaired'
  BY <1>1 DEF BumpInv, LockHolder, HookedAlone, CallsHooked, RoomTaken, HooksPaired
<1>4. NoOverlap' BY <1>1 DEF BumpInv, NoOverlap, Apart
<1>5. ArenaFilled' BY <1>1 DEF BumpInv, ArenaFilled
<1>6. BlocksKnown'
  <2> SUFFICES ASSUME NEW p \in live
               PROVE  /\ p.heap \in {p.lib, s_orig, "pool"}
                      /\ iat[p.lib].malloc = "crt" => p.heap = p.lib
                      /\ p.heap # "pool" => p.addr \in CrtAddrs
                      /\ p.heap = "pool" => p.size \in Requests /\ g_pool = PoolBase
    BY <1>1 DEF BlocksKnown
  <2> QED BY <1>1 DEF BumpInv, BlocksKnown
<1> QED BY <1>2, <1>3, <1>4, <1>5, <1>6 DEF BumpInv

LEMMA DetachInv ==
  ASSUME TypeOK, BumpInv, Detach
  PROVE  TypeOK' /\ BumpInv'
<1>1. /\ \A t \in Threads : th[t].pc = "idle"
      /\ g_pool' = 0 /\ status' = "closed"
      /\ UNCHANGED <<g_used, g_lock, g_inited, s_orig, iat, th, live, crt>>
  BY DEF Detach, At, hook
<1>2. TypeOK' BY <1>1 DEF TypeOK
<1>3. LockHolder' /\ HookedAlone' /\ CallsHooked' /\ HooksPaired'
  BY <1>1 DEF BumpInv, LockHolder, HookedAlone, CallsHooked, HooksPaired
<1>4. RoomTaken' BY <1>1 DEF RoomTaken
<1>5. PoolHeap' = PoolHeap BY <1>1 DEF PoolHeap
<1>6. NoOverlap' /\ ArenaFilled' BY <1>1, <1>5, ArenaUnmoved
<1>7. BlocksKnown' BY <1>1 DEF BumpInv, BlocksKnown, Running
<1> QED BY <1>2, <1>3, <1>4, <1>6, <1>7 DEF BumpInv

LEMMA NextInv ==
  ASSUME TypeOK, BumpInv, [Next]_vars
  PROVE  TypeOK' /\ BumpInv'
<1>1. CASE UNCHANGED vars
  <2>1. UNCHANGED <<g_pool, g_used, g_lock, g_inited, s_orig, iat, th, live, crt, status>>
    BY <1>1 DEF vars, pool, hook
  <2>2. TypeOK' BY <2>1 DEF TypeOK
  <2>3. PoolHeap' = PoolHeap BY <2>1 DEF PoolHeap
  <2>4. NoOverlap' /\ ArenaFilled' BY <2>1, <2>3, ArenaUnmoved
  <2>5. LockHolder' /\ HookedAlone' /\ CallsHooked' /\ RoomTaken' /\ HooksPaired' /\ BlocksKnown'
    BY <2>1 DEF BumpInv, LockHolder, HookedAlone, CallsHooked, RoomTaken, HooksPaired,
                BlocksKnown, Running
  <2> QED BY <2>2, <2>4, <2>5 DEF BumpInv
<1>2. CASE HookAllocators BY <1>2, HookAllocatorsInv
<1>3. CASE ReservePool BY <1>3, ReservePoolInv
<1>4. CASE FindOriginals BY <1>4, FindOriginalsInv
<1>5. CASE HookImports BY <1>5, HookImportsInv
<1>6. ASSUME NEW t \in Threads, NEW lib \in Imports, NEW sz \in Requests, MallocCall(t, lib, sz)
      PROVE  TypeOK' /\ BumpInv'
  BY <1>6, MallocCallInv
<1>7. ASSUME NEW t \in Threads, NEW e \in live, FreeCall(t, e) PROVE TypeOK' /\ BumpInv'
  BY <1>7, FreeCallInv
<1>8. ASSUME NEW t \in Threads, EnterMyMalloc(t) PROVE TypeOK' /\ BumpInv'
  BY <1>8, EnterMyMallocInv
<1>9. ASSUME NEW t \in Threads, TestMyMalloc(t) PROVE TypeOK' /\ BumpInv'
  BY <1>9, TestMyMallocInv
<1>10. ASSUME NEW t \in Threads, BumpMyMalloc(t) PROVE TypeOK' /\ BumpInv'
  BY <1>10, BumpMyMallocInv
<1>11. ASSUME NEW t \in Threads, LeaveMyMalloc(t) PROVE TypeOK' /\ BumpInv'
  BY <1>11, LeaveMyMallocInv
<1>12. CASE Detach BY <1>12, DetachInv
<1>13. CASE Stopped BY <1>1, <1>13 DEF Stopped
<1> QED BY <1>1, <1>2, <1>3, <1>4, <1>5, <1>6, <1>7, <1>8, <1>9, <1>10, <1>11, <1>12, <1>13
        DEF Next, Step

-----------------------------------------------------------------------------
\* The types and the invariant of MemoryPool.dll hold in every reachable state.
THEOREM Inductive == Spec => [](TypeOK /\ BumpInv)
<1>1. Init => TypeOK /\ BumpInv BY InitInv
<1>2. TypeOK /\ BumpInv /\ [Next]_vars => (TypeOK /\ BumpInv)' BY NextInv
<1> QED BY <1>1, <1>2, PTL DEF Spec

\* Every variable of MemoryPool.dll keeps its type; g_used never passes the end
\* of the arena.
THEOREM TypeCorrect == Spec => []TypeOK
BY Inductive, PTL

\* Mutual exclusion in MyMalloc, room for what is taken, hooks in pairs, and
\* blocks whose heap is known.
THEOREM InvariantHolds == Spec => []BumpInv
BY Inductive, PTL

\* MyMalloc never hands two owners the same byte of the arena.
THEOREM NoOverlapHolds == Spec => []NoOverlap
<1>1. BumpInv => NoOverlap BY DEF BumpInv
<1> QED BY <1>1, Inductive, PTL

\* MyMalloc and MyFree implement the abstract heap: each step is one of its
\* steps or leaves the extents alone.
THEOREM HeapImplemented == Spec => ImplementsHeap
<1>1. Init => Heap!Init BY DEF Init, Heap!Init, PoolHeap
<1>2. TypeOK /\ BumpInv /\ [Next]_vars => [Heap!Next]_PoolHeap
  <2> SUFFICES ASSUME TypeOK, BumpInv, [Next]_vars, PoolHeap' # PoolHeap
               PROVE  Heap!Next
    OBVIOUS
  <2>1. ASSUME live' = live PROVE FALSE BY <2>1 DEF PoolHeap
  <2>2. ASSUME NEW lib \in Imports, NEW heap \in {lib, s_orig}, NEW sz \in Nat,
               CrtMalloc(lib, heap, sz), iat[lib].malloc = "crt" => heap = lib,
               UNCHANGED <<g_pool, s_orig, iat, status>>
        PROVE  FALSE
    BY <2>2, CrtMallocInv
  <2>3. ASSUME NEW t \in Threads, NEW lib \in Imports, NEW sz \in Requests,
               MallocCall(t, lib, sz)
        PROVE  FALSE
    <3>1. sz \in Nat BY SumFits
    <3>2. CrtMalloc(lib, lib, sz) BY <2>1, <2>3 DEF MallocCall
    <3> QED BY <2>2, <2>3, <3>1, <3>2 DEF MallocCall, pool, hook
  <2>4. ASSUME NEW t \in Threads, TestMyMalloc(t) PROVE FALSE
    <3>1. CrtMalloc(th[t].lib, s_orig, th[t].sz) BY <2>1, <2>4 DEF TestMyMalloc
    <3>2. /\ th[t].sz \in Requests /\ th[t].lib \in Imports
          /\ iat[th[t].lib].malloc = "my"
      BY <2>4 DEF TestMyMalloc, At, BumpInv, CallsHooked, InCall
    <3>3. th[t].sz \in Nat BY <3>2, SumFits
    <3> QED BY <2>2, <2>4, <3>1, <3>2, <3>3 DEF TestMyMalloc, hook
  <2>5. ASSUME NEW t \in Threads, BumpMyMalloc(t) PROVE Heap!Next
    <3> DEFINE e == [addr |-> PoolBase + g_used, size |-> th[t].sz]
    <3>1. /\ PoolHeap' = PoolHeap \cup {e}
          /\ e.addr \in Nat /\ e.size \in Nat
          /\ e.addr >= PoolBase /\ e.addr + e.size <= PoolBase + PoolSize
          /\ \A g \in PoolHeap : g.addr + g.size <= e.addr
      BY <2>5, TakenFresh
    <3> HIDE DEF e
    <3>2. e \in PoolHeap' \ PoolHeap BY <3>1
    <3>3. Heap!Fresh(e) BY <3>1 DEF Heap!Fresh, Heap!Apart
    <3> QED BY <3>1, <3>2, <3>3 DEF Heap!Next, Heap!Obtain
  <2>6. ASSUME NEW t \in Threads, NEW e \in live, FreeCall(t, e) PROVE Heap!Next
    <3> DEFINE x == [addr |-> e.addr, size |-> e.size]
    <3>1. PoolHeap' = PoolHeap \ {x} BY <2>6, FreeCallEffect
    <3> HIDE DEF x
    <3>2. x \in PoolHeap BY <3>1
    <3> QED BY <3>1, <3>2 DEF Heap!Next, Heap!Release
  <2>7. CASE \/ HookAllocators \/ ReservePool \/ FindOriginals \/ HookImports
             \/ Detach \/ Stopped \/ UNCHANGED vars
    BY <2>1, <2>7 DEF HookAllocators, ReservePool, FindOriginals, HookImports, HookIAT,
                      Detach, Stopped, vars
  <2>8. ASSUME NEW t \in Threads, EnterMyMalloc(t) \/ LeaveMyMalloc(t) PROVE FALSE
    BY <2>1, <2>8 DEF EnterMyMalloc, LeaveMyMalloc
  <2> QED BY <2>3, <2>4, <2>5, <2>6, <2>7, <2>8 DEF Next, Step
<1> QED BY <1>1, <1>2, Inductive, PTL DEF Spec, ImplementsHeap, Heap!Spec

\* When every request has a byte, no C library's free is handed a block that it
\* did not give, before, while or after the hooks are set.
THEOREM NoForeignFreeHolds ==
  ASSUME 0 \notin Requests
  PROVE  Spec => []NoForeignFree
<1>1. Init => NoForeignFree BY DEF Init, NoForeignFree
<1>2. TypeOK /\ BumpInv /\ NoForeignFree /\ [Next]_vars => NoForeignFree'
  <2> SUFFICES ASSUME TypeOK, BumpInv, NoForeignFree, [Next]_vars, OneLibrary',
                      status' = "corrupt"
               PROVE  FALSE
    BY DEF NoForeignFree
  <2>1. ASSUME NEW t \in Threads, NEW e \in live, FreeCall(t, e) PROVE FALSE
    <3>1. /\ Alone /\ Running /\ UNCHANGED <<g_inited, s_orig>>
      BY <2>1, FreeCallEffect
    <3>2. Loader \in Threads /\ e.lib \in Imports BY BumpAssumption DEF TypeOK
    <3>3. iat[e.lib].malloc = iat[e.lib].free
      BY <3>1, <3>2, ImportNames DEF Alone, Hooking, BumpInv, HooksPaired
    <3>4. CASE iat[e.lib].free = "crt" /\ CrtFree(e.lib, e)
      <4>1. e.heap = e.lib BY <3>3, <3>4 DEF BumpInv, BlocksKnown
      <4> QED BY <3>1, <3>4, <4>1 DEF CrtFree, Running
    <3>5. CASE iat[e.lib].free = "my" /\ MyFree(e)
      <4>1. ~InPool(e.addr) /\ s_orig # "none" /\ CrtFree(s_orig, e)
        BY <3>1, <3>5 DEF MyFree, Running
      <4>2. g_inited BY <3>2, <3>5 DEF BumpInv, HooksPaired, TypeOK
      <4>3. e.lib = s_orig BY <3>1, <3>2, <4>1, <4>2 DEF OneLibrary
      <4>4. e.heap = "pool"
        BY <3>1, <4>1, <4>3 DEF CrtFree, Running, BumpInv, BlocksKnown
      <4>5. g_pool = PoolBase /\ e.size \in Requests
        BY <3>1, <4>4 DEF BumpInv, BlocksKnown
      <4>6. /\ e.size \in Nat /\ e.size # 0 /\ e.addr \in Nat
            /\ PoolBase \in Nat /\ PoolSize \in Nat /\ g_used \in 0 .. PoolSize
        BY <4>5, SumFits, AddrsNat DEF TypeOK
      <4>7. PoolBase <= e.addr /\ e.addr + e.size <= PoolBase + PoolSize
        <5> DEFINE x == [addr |-> e.addr, size |-> e.size]
        <5>1. x \in PoolHeap BY <4>4 DEF PoolHeap
        <5>2. PoolBase <= x.addr BY <5>1 DEF BumpInv, ArenaFilled
        <5>3. CASE x.addr + x.size <= PoolBase + g_used BY <4>6, <5>2, <5>3
        <5>4. CASE \E u \in Threads : /\ th[u].pc = "bump"
                                      /\ x = [addr |-> PoolBase + g_used, size |-> th[u].sz]
          <6>1. PICK u \in Threads : /\ th[u].pc = "bump"
                                     /\ x = [addr |-> PoolBase + g_used, size |-> th[u].sz]
            BY <5>4
          <6>2. g_used + th[u].sz <= PoolSize BY <6>1 DEF BumpInv, RoomTaken
          <6>3. e.addr = PoolBase + g_used /\ e.size = th[u].sz BY <6>1
          <6> QED BY <4>6, <6>2, <6>3
        <5> QED BY <5>1, <5>2, <5>3, <5>4 DEF BumpInv, ArenaFilled
      <4> QED BY <4>1, <4>5, <4>6, <4>7 DEF InPool
    <3> QED BY <2>1, <3>4, <3>5 DEF FreeCall
  <2>2. CASE UNCHANGED <<g_inited, s_orig, status>>
    BY <2>2 DEF NoForeignFree, OneLibrary
  <2>3. ASSUME NEW t \in Threads, NEW lib \in Imports, NEW sz \in Requests,
               MallocCall(t, lib, sz)
        PROVE  FALSE
    BY <2>2, <2>3 DEF MallocCall, hook
  <2>4. ASSUME NEW t \in Threads, Step(t) PROVE FALSE
    BY <2>2, <2>4 DEF Step, EnterMyMalloc, TestMyMalloc, BumpMyMalloc, LeaveMyMalloc, hook
  <2>5. CASE HookAllocators \/ FindOriginals \/ Detach
    BY <2>5 DEF HookAllocators, FindOriginals, Detach, At
  <2>6. CASE ReservePool \/ HookImports
    BY <2>2, <2>6 DEF ReservePool, HookImports, HookIAT, hook
  <2>7. CASE Stopped \/ UNCHANGED vars
    BY <2>2, <2>7 DEF Stopped, vars, hook
  <2> QED BY <2>1, <2>3, <2>4, <2>5, <2>6, <2>7 DEF Next
<1> QED BY <1>1, <1>2, Inductive, PTL DEF Spec
-----------------------------------------------------------------------------
(* What is freed of a C library's memory goes back to it. *)

\* While nobody is inside HookAllocators the Loader is past the search for the
\* originals, or has not begun.
LEMMA LoaderPast ==
  ASSUME Alone
  PROVE  th[Loader].pc \notin {"h_pool", "h_orig"}
BY BumpAssumption DEF Alone, Hooking

\* The originals are found before the first import is hooked and stay found.
LEMMA OrigFoundStep ==
  ASSUME TypeOK, BumpInv, OrigFound, [Next]_vars
  PROVE  OrigFound'
<1>1. Loader \in Threads BY BumpAssumption
<1>2. ASSUME UNCHANGED <<g_inited, s_orig>>, Alone \/ UNCHANGED th[Loader] PROVE OrigFound'
  BY <1>2, LoaderPast DEF OrigFound
<1>3. CASE HookAllocators
  <2>1. th' = [th EXCEPT ![Loader].pc = "h_pool"] BY <1>3 DEF HookAllocators, Goto
  <2>2. th'[Loader].pc = "h_pool" BY <1>1, <2>1 DEF TypeOK
  <2> QED BY <2>2 DEF OrigFound
<1>4. CASE ReservePool
  <2>1. th' = [th EXCEPT ![Loader].pc = "h_orig"] BY <1>4 DEF ReservePool, Goto
  <2>2. th'[Loader].pc = "h_orig" BY <1>1, <2>1 DEF TypeOK
  <2> QED BY <2>2 DEF OrigFound
<1>5. CASE FindOriginals
  <2>1. s_orig' # "none" \/ Imports = {}
    BY <1>5, BumpAssumption DEF FindOriginals
  <2> QED BY <2>1 DEF OrigFound
<1>6. CASE HookImports
  <2>1. UNCHANGED <<g_inited, s_orig>> BY <1>6 DEF HookImports, HookIAT
  <2>2. th[Loader].pc \notin {"h_pool", "h_orig"} BY <1>6 DEF HookImports, HookIAT, At
  <2>3. th[Loader].pc \in Hooking BY <1>6 DEF HookImports, HookIAT, At, Hooking
  <2>4. g_inited BY <1>1, <2>3 DEF BumpInv, HookedAlone
  <2> QED BY <2>1, <2>2, <2>4 DEF OrigFound
<1>7. ASSUME NEW t \in Threads, NEW lib \in Imports, NEW sz \in Requests, MallocCall(t, lib, sz)
      PROVE  OrigFound'
  BY <1>2, <1>7 DEF MallocCall, MayCall, hook
<1>8. ASSUME NEW t \in Threads, NEW e \in live, FreeCall(t, e) PROVE OrigFound'
  BY <1>2, <1>8 DEF FreeCall, MayCall, hook
<1>9. ASSUME NEW t \in Threads, Step(t) PROVE OrigFound'
  <2>1. th[t].pc \in InCall
    BY <1>9 DEF Step, EnterMyMalloc, Enter, TestMyMalloc, BumpMyMalloc, LeaveMyMalloc, At, InCall
  <2>2. UNCHANGED <<g_inited, s_orig>>
    BY <1>9 DEF Step, EnterMyMalloc, TestMyMalloc, BumpMyMalloc, LeaveMyMalloc, hook
  <2> QED BY <1>2, <2>1, <2>2, CallsAlone
<1>10. CASE Detach \/ Stopped \/ UNCHANGED vars
  BY <1>2, <1>10 DEF Detach, Stopped, vars, hook
<1> QED BY <1>3, <1>4, <1>5, <1>6, <1>7, <1>8, <1>9, <1>10 DEF Next

\* A block that a C library hands out is the game's.
LEMMA CrtMallocKept ==
  ASSUME NEW lib, NEW heap, NEW sz, CrtMalloc(lib, heap, sz), IgnoresOnlyPool
  PROVE  IgnoresOnlyPool'
<1>1. CASE UNCHANGED <<crt, live>> BY <1>1 DEF IgnoresOnlyPool
<1>2. ASSUME NEW a \in CrtAddrs, crt' = crt \cup {[addr |-> a, heap |-> heap]},
             live' = live \cup {Owned(a, sz, heap, lib)}
      PROVE  IgnoresOnlyPool'
  <2>1. Owned(a, sz, heap, lib).addr = a BY DEF Owned
  <2> QED BY <1>2, <2>1 DEF IgnoresOnlyPool
<1> QED BY <1>1, <1>2 DEF CrtMalloc

\* The address of a C library's block is not in the arena.
LEMMA CrtOutside ==
  ASSUME TypeOK, g_pool # 0, NEW b \in crt
  PROVE  ~InPool(b.addr)
<1>1. b.addr \in CrtAddrs /\ g_pool = PoolBase BY DEF TypeOK
<1>2. /\ b.addr \in Nat /\ PoolBase \in Nat /\ PoolSize \in Nat
      /\ b.addr \notin PoolBase .. PoolBase + PoolSize - 1
  BY <1>1, BumpAssumption
<1> QED BY <1>1, <1>2 DEF InPool

\* free returns a C library's block, or the block is the arena's.
LEMMA FreeCallKept ==
  ASSUME TypeOK, BumpInv, LeakInv, NEW t \in Threads, NEW e \in live, FreeCall(t, e)
  PROVE  NothingLost'
<1>1. /\ live' = live \ {e} /\ Alone /\ Running
      /\ UNCHANGED <<g_pool, g_inited, th>>
  BY FreeCallEffect
<1>2. th[Loader].pc # "h_pool" BY <1>1, LoaderPast
<1> SUFFICES ASSUME status' = "run", g_pool # 0 \/ ~g_inited
             PROVE  IgnoresOnlyPool'
  BY <1>1, <1>2 DEF NothingLost, Running
<1>3. IgnoresOnlyPool BY <1>1 DEF LeakInv, NothingLost
<1>4. ASSUME crt' \subseteq crt, \A b \in crt' : b.addr # e.addr PROVE IgnoresOnlyPool'
  <2> SUFFICES ASSUME NEW b \in crt' PROVE \E q \in live' : q.addr = b.addr
    BY DEF IgnoresOnlyPool
  <2>1. PICK q \in live : q.addr = b.addr BY <1>3, <1>4 DEF IgnoresOnlyPool
  <2>2. q \in live' BY <1>1, <1>4, <2>1
  <2> QED BY <2>1, <2>2
<1>5. ASSUME NEW heap, CrtFree(heap, e) PROVE IgnoresOnlyPool'
  <2>1. crt' = {b \in crt : b.addr # e.addr} BY <1>5 DEF CrtFree
  <2> QED BY <1>4, <2>1
<1>6. CASE iat[e.lib].free = "my" /\ MyFree(e)
  <2>1. e.lib \in Imports BY DEF TypeOK
  <2>2. g_inited BY <1>6, <2>1 DEF BumpInv, HooksPaired
  <2>3. s_orig # "none" BY <1>1, <2>1, <2>2, LoaderPast DEF LeakInv, OrigFound
  <2>4. CASE InPool(e.addr) /\ UNCHANGED crt
    <3>1. g_pool # 0 BY <2>2
    <3>2. \A b \in crt : b.addr # e.addr BY <2>4, <3>1, CrtOutside
    <3> QED BY <1>4, <2>4, <3>2
  <2> QED BY <1>5, <1>6, <2>3, <2>4 DEF MyFree
<1> QED BY <1>5, <1>6 DEF FreeCall

LEMMA NothingLostStep ==
  ASSUME TypeOK, BumpInv, LeakInv, [Next]_vars
  PROVE  NothingLost'
<1>1. Loader \in Threads BY BumpAssumption
<1>2. ASSUME UNCHANGED <<g_pool, g_inited, live, crt, status>>, Alone \/ UNCHANGED th,
             th'[Loader].pc # "h_pool" \/ UNCHANGED th
      PROVE  NothingLost'
  BY <1>2 DEF LeakInv, NothingLost, IgnoresOnlyPool, Running
<1>3. CASE HookAllocators
  <2>1. ~g_inited /\ UNCHANGED <<live, crt, status>> BY <1>3 DEF HookAllocators
  <2> QED BY <2>1 DEF LeakInv, NothingLost, IgnoresOnlyPool, Running
<1>4. CASE ReservePool
  <2>1. th[Loader].pc = "h_pool" /\ UNCHANGED <<live, crt, status>> BY <1>4 DEF ReservePool, At
  <2> QED BY <2>1 DEF LeakInv, NothingLost, IgnoresOnlyPool, Running
<1>5. CASE FindOriginals \/ HookImports
  <2>1. /\ UNCHANGED <<g_pool, g_inited, live, crt, status>>
        /\ \E next : next # "h_pool" /\ th' = [th EXCEPT ![Loader].pc = next]
    BY <1>5 DEF FindOriginals, HookImports, HookIAT, Goto, pool
  <2>2. th'[Loader].pc # "h_pool" BY <1>1, <2>1 DEF TypeOK
  <2> QED BY <2>1, <2>2 DEF LeakInv, NothingLost, IgnoresOnlyPool, Running
<1>6. ASSUME NEW t \in Threads, NEW lib \in Imports, NEW sz \in Requests, MallocCall(t, lib, sz)
      PROVE  NothingLost'
  <2>1. /\ Alone /\ UNCHANGED <<g_pool, g_inited, status>>
        /\ UNCHANGED <<crt, live>> \/ CrtMalloc(lib, lib, sz)
    BY <1>6 DEF MallocCall, MayCall, pool, hook
  <2>2. th'[Loader].pc # "h_pool"
    <3>1. CASE UNCHANGED th BY <2>1, <3>1, LoaderPast
    <3>2. CASE th' = [th EXCEPT ![t] = [pc |-> "enter", lib |-> lib, sz |-> sz]]
      BY <1>1, <2>1, <3>2, LoaderPast DEF TypeOK
    <3> QED BY <1>6, <3>1, <3>2 DEF MallocCall
  <2>3. IgnoresOnlyPool => IgnoresOnlyPool' BY <2>1, CrtMallocKept DEF IgnoresOnlyPool
  <2> QED BY <2>1, <2>2, <2>3 DEF LeakInv, NothingLost, Running
<1>7. ASSUME NEW t \in Threads, NEW e \in live, FreeCall(t, e) PROVE NothingLost'
  BY <1>7, FreeCallKept
<1>8. ASSUME NEW t \in Threads, Step(t) PROVE NothingLost'
  <2>1. /\ UNCHANGED <<g_pool, g_inited, status>>
        /\ \/ UNCHANGED crt /\ live \subseteq live'
           \/ CrtMalloc(th[t].lib, s_orig, th[t].sz)
    BY <1>8 DEF Step, EnterMyMalloc, TestMyMalloc, BumpMyMalloc, LeaveMyMalloc, pool, hook
  <2>2. \E loc : loc.pc # "h_pool" /\ th' = [th EXCEPT ![t] = loc]
    <3>1. ASSUME NEW label, label # "h_pool", Goto(t, label)
          PROVE  \E loc : loc.pc # "h_pool" /\ th' = [th EXCEPT ![t] = loc]
      <4> DEFINE loc == [th[t] EXCEPT !.pc = label]
      <4>1. loc.pc = label /\ th' = [th EXCEPT ![t] = loc] BY <3>1 DEF Goto, TypeOK
      <4> QED BY <3>1, <4>1
    <3>2. CASE th' = [th EXCEPT ![t] = Idle] BY <3>2 DEF Idle
    <3> QED BY <1>8, <3>1, <3>2
            DEF Step, EnterMyMalloc, Enter, TestMyMalloc, BumpMyMalloc, LeaveMyMalloc
  <2>3. th[t].pc \in InCall
    BY <1>8 DEF Step, EnterMyMalloc, Enter, TestMyMalloc, BumpMyMalloc, LeaveMyMalloc, At, InCall
  <2>4. th[Loader].pc # "h_pool" BY <2>3, CallsAlone, LoaderPast
  <2>5. th'[Loader].pc # "h_pool" BY <1>1, <2>2, <2>4 DEF TypeOK
  <2>6. IgnoresOnlyPool => IgnoresOnlyPool' BY <2>1, CrtMallocKept DEF IgnoresOnlyPool
  <2> QED BY <2>1, <2>5, <2>6 DEF LeakInv, NothingLost, Running
<1>9. CASE Detach BY <1>9 DEF Detach, NothingLost, Running
<1>10. CASE Stopped \/ UNCHANGED vars
  BY <1>2, <1>10 DEF Stopped, vars, pool, hook
<1> QED BY <1>3, <1>4, <1>5, <1>6, <1>7, <1>8, <1>9, <1>10 DEF Next

\* While there is an arena, every block the C libraries have in use is one the
\* game still owns: MyFree loses none of them.
THEOREM NoLeakHolds == Spec => []NoLeak
<1>1. Init => LeakInv
  BY BumpAssumption DEF Init, LeakInv, OrigFound, NothingLost, IgnoresOnlyPool
<1>2. TypeOK /\ BumpInv /\ LeakInv /\ [Next]_vars => LeakInv'
  BY OrigFoundStep, NothingLostStep DEF LeakInv
<1>3. LeakInv => NoLeak BY DEF LeakInv, NothingLost, NoLeak
<1> QED BY <1>1, <1>2, <1>3, Inductive, PTL DEF Spec
=============================================================================

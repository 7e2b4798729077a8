--------------------------- MODULE SessionProofs ---------------------------
(***************************************************************************)
(* Proofs about PatcherSession, for any number of processes and any memory *)
(* in which the program's own constant can be read.                        *)
(*                                                                         *)
(* The inductive invariant SessionInv says of each process, by the place   *)
(* where it is, what it must have: the rights and the DLL (Equipped), a    *)
(* copy of the headers with the flag and no longer than the table in the   *)
(* file (HeadersInv), the memory it started with, changed at one place     *)
(* only (MemoryInv); and of each start by the user that the process that   *)
(* got it is not absent any more (OriginInv).                              *)
(***************************************************************************)
EXTENDS SessionProperties, WellFoundedInduction, SequenceTheorems, TLAPS

Early    == {"absent", "started", "relaunch", "exit"}
Patching == {"laa", "laa write", "inject", "inject write", "search", "protect",
             "write", "restore", "report"}

Equipped(q) ==
  /\ q.pc \notin Early \cup {"ended"} => q.elevated
  /\ q.pc \in Patching => q.hooked

MemoryInv(q) ==
  /\ "no patch address" \notin q.told
  /\ q.pc # "absent" => q.layout \in Layouts
  /\ q.pc \in {"protect", "write", "restore"} =>
       /\ FirstPlace(q.layout, q.patchAddr.region, q.patchAddr.at)
       /\ "lobby patched" \notin q.told
  /\ q.pc \in {"write", "restore"} =>
       /\ SameElsewhere(q.memory, q.layout, q.patchAddr.region, q.patchAddr.at)
       /\ q.oldProtect = q.layout[q.patchAddr.region].prot
  /\ q.pc = "restore" => Overwritten(q.memory, q.patchAddr.region, q.patchAddr.at)
  /\ q.pc \notin {"write", "restore", "report", "ended"} => Untouched(q)
  /\ \/ Untouched(q)
     \/ \E r \in DOMAIN q.layout : \E i \in 1 .. Len(q.layout[r].bytes) : PatchedAt(q, r, i)

CopyInv(q) == q.nth.nsec = Len(q.nth.table)
Good(q) == q \in Processes /\ Equipped(q) /\ MemoryInv(q) /\ CopyInv(q)

HeadersInv(q, headers) ==
  /\ q.nth.nsec <= Len(headers.table)
  /\ q.pc \in {"inject", "inject write"} => headers.laa
  /\ q.pc = "inject write" => q.nth.laa

ImageInv  == image \in Images /\ image.nsec <= Len(image.table)
OriginInv == \A p \in Procs : Running(p) => ~At(proc[p].origin, "absent")

SessionInv ==
  /\ ImageInv
  /\ proc \in [Procs -> Processes]
  /\ \A p \in Procs : Good(proc[p]) /\ HeadersInv(proc[p], image)
  /\ OriginInv
  /\ OnePatcherPerStart

-----------------------------------------------------------------------------
(***************************************************************************)
(* The search                                                              *)
(***************************************************************************)

\* Least returns the least member of a set of naturals.
LEMMA LeastMember ==
  ASSUME NEW S, S \subseteq Nat, S # {}
  PROVE  Least(S) \in S /\ \A j \in S : Least(S) <= j
<1> DEFINE Less == OpToRel(<, Nat)
<1>1. Less = {ss \in Nat \X Nat : ss[1] < ss[2]}
  BY DEF OpToRel
<1>2. IsWellFoundedOn(Less, Nat)
  BY NatLessThanWellFounded
<1> HIDE DEF Less
<1>3. PICK x \in S : \A y \in S : ~ (<<y, x>> \in Less)
  BY <1>2, WFMin, Zenon
<1>4. ASSUME NEW y \in S
      PROVE  x <= y
  <2>1. SUFFICES ASSUME y < x PROVE FALSE
    OBVIOUS
  <2>2. <<y, x>> \in Nat \X Nat /\ <<y, x>>[1] < <<y, x>>[2]
    BY <2>1
  <2>3. <<y, x>> \in Less
    <3> DEFINE pair == <<y, x>>
    <3>1. pair \in Nat \X Nat /\ pair[1] < pair[2]
      BY <2>2
    <3> HIDE DEF pair
    <3>2. pair \in Less
      BY <1>1, <3>1
    <3> QED BY <3>2 DEF pair
  <2> QED BY <1>3, <2>3
<1> QED BY <1>4 DEF Least

\* FindPatchAddress returns the first place of the signature that can be read.
LEMMA FirstPlaceFound ==
  ASSUME NEW regions \in Regions, Hits(regions) # {}
  PROVE  LET a == FindPatchAddress(regions) IN
         a \in [region : Nat, at : Nat] /\ FirstPlace(regions, a.region, a.at)
<1> DEFINE r == Least(Hits(regions))
           i == Least(Matches(regions[r].bytes))
<1>1. Hits(regions) \subseteq Nat
  BY DEF Hits, Regions
<1>2. r \in Hits(regions) /\ \A s \in Hits(regions) : r <= s
  BY <1>1, LeastMember
<1>3. r \in DOMAIN regions /\ Readable(regions[r]) /\ Matches(regions[r].bytes) # {}
  BY <1>2 DEF Hits
<1>4. i \in Matches(regions[r].bytes) /\ \A j \in Matches(regions[r].bytes) : i <= j
  <2>1. Matches(regions[r].bytes) \subseteq Nat
    BY DEF Matches
  <2> QED BY <1>3, <2>1, LeastMember
<1>5. \A s, j : Place(regions, s, j) => s \in Hits(regions) /\ j \in Matches(regions[s].bytes)
  BY DEF Place, Hits, Matches
<1>6. Place(regions, r, i)
  BY <1>3, <1>4 DEF Place, Matches
<1>7. r \in Nat /\ i \in Nat
  BY <1>1, <1>2, <1>4 DEF Matches
<1>8. ASSUME NEW s \in 1 .. r, NEW j \in 1 .. Len(regions[s].bytes), Place(regions, s, j)
      PROVE  s = r /\ i <= j
  <2>1. s = r
    BY <1>2, <1>5, <1>7, <1>8
  <2> QED BY <2>1, <1>4, <1>5, <1>8
<1>9. FirstPlace(regions, r, i)
  BY <1>6, <1>8 DEF FirstPlace
<1> QED BY <1>7, <1>9 DEF FindPatchAddress

\* In every memory the program can have, the search finds something.
LEMMA AlwaysHit == ASSUME NEW regions \in Layouts
                   PROVE  Hits(regions) # {}
BY LayoutAssumption DEF Hits, Matches

LEMMA LayoutsAreRegions == Layouts \subseteq Regions
BY LayoutAssumption DEF Regions

-----------------------------------------------------------------------------
(***************************************************************************)
(* One process at a time                                                   *)
(***************************************************************************)

\* A process that only goes on, or takes a new copy of the headers, is as good
\* as before, when it has what its new place asks for.
LEMMA GoodMove ==
  ASSUME NEW q, Good(q), NEW pc \in Labels \ {"absent", "protect", "write", "restore"},
         q.pc \notin {"absent", "write", "restore"},
         q.pc \in {"report", "ended"} => pc \in {"report", "ended"},
         NEW hooked \in BOOLEAN, NEW nth \in Images, nth.nsec = Len(nth.table),
         pc \notin Early \cup {"ended"} => q.elevated,
         pc \in Patching => hooked
  PROVE  Good([q EXCEPT !.pc = pc, !.hooked = hooked, !.nth = nth])
<1> DEFINE n == [q EXCEPT !.pc = pc, !.hooked = hooked, !.nth = nth]
<1> USE DEF Good
<1>1. n \in Processes
  BY DEF Processes
<1>2. /\ n.pc = pc /\ n.hooked = hooked /\ n.nth = nth /\ n.elevated = q.elevated
      /\ n.layout = q.layout /\ n.memory = q.memory /\ n.told = q.told
  BY DEF Processes
<1>3. Equipped(n) /\ CopyInv(n)
  BY <1>2 DEF Equipped, CopyInv
<1>4. MemoryInv(n)
  BY <1>2 DEF MemoryInv, Untouched, PatchedAt
<1> QED BY <1>1, <1>3, <1>4

\* The end of a process, wherever it was.
LEMMA GoodEnd ==
  ASSUME NEW q, Good(q), q.pc # "absent", NEW boxes \in SUBSET Boxes,
         boxes \cap {"lobby patched", "no patch address"} = {}
  PROVE  Good([q EXCEPT !.pc = "ended", !.hooked = FALSE, !.told = @ \cup boxes])
<1> DEFINE n == [q EXCEPT !.pc = "ended", !.hooked = FALSE, !.told = @ \cup boxes]
<1> USE DEF Good
<1>1. n \in Processes
  BY DEF Processes, Labels
<1>2. /\ n.pc = "ended" /\ n.nth = q.nth /\ n.layout = q.layout /\ n.memory = q.memory
      /\ n.told = q.told \cup boxes
  BY DEF Processes
<1>3. Equipped(n) /\ CopyInv(n)
  BY <1>2 DEF Equipped, CopyInv, Patching, Early
<1>4. MemoryInv(n)
  BY <1>2 DEF MemoryInv, Untouched, PatchedAt
<1> QED BY <1>1, <1>3, <1>4

\* A new process.
LEMMA GoodStart ==
  ASSUME NEW elevated \in BOOLEAN, NEW origin \in Procs, NEW regions \in Layouts
  PROVE  LET n == Started(elevated, origin, regions) IN
         Good(n) /\ n.pc = "started" /\ n.origin = origin
<1> DEFINE n == Started(elevated, origin, regions)
<1>1. /\ n.pc = "started" /\ n.elevated = elevated /\ n.origin = origin
      /\ n.layout = regions /\ n.memory = regions /\ n.told = {}
      /\ n.nth = [laa |-> FALSE, nsec |-> 0, table |-> <<>>]
  BY DEF Started, Process
<1>2. n \in Processes
  <2>1. [laa |-> FALSE, nsec |-> 0, table |-> <<>>] \in Images
    BY DEF Images
  <2>2. regions \in Regions /\ {} \in SUBSET Boxes
    BY LayoutsAreRegions
  <2>3. "started" \in Labels /\ "free" \in Protections
        /\ [region |-> 0, at |-> 0] \in [region : Nat, at : Nat]
    BY DEF Labels, Protections
  <2> DEFINE nth == [laa |-> FALSE, nsec |-> 0, table |-> <<>>]
             a == [region |-> 0, at |-> 0]
             A == [region : Nat, at : Nat]
             B == SUBSET Boxes
             none == {}
  <2>4. nth \in Images /\ a \in A /\ none \in B
    BY <2>1, <2>2, <2>3
  <2>5. n = [pc |-> "started", elevated |-> elevated, origin |-> origin,
             layout |-> regions, memory |-> regions, patchAddr |-> a,
             oldProtect |-> "free", nth |-> nth, hooked |-> FALSE, told |-> none]
    BY DEF Started, Process
  <2>6. Processes = [pc : Labels, elevated : BOOLEAN, origin : Procs,
                     layout : Regions, memory : Regions, patchAddr : A,
                     oldProtect : Protections, nth : Images, hooked : BOOLEAN, told : B]
    BY DEF Processes
  <2> HIDE DEF nth, a, A, B, none, n
  <2> QED BY <2>2, <2>3, <2>4, <2>5, <2>6
<1>3. Equipped(n) /\ MemoryInv(n) /\ CopyInv(n)
  BY <1>1 DEF Equipped, MemoryInv, CopyInv, Untouched, Early, Patching
<1> QED BY <1>1, <1>2, <1>3 DEF Good

\* Patching failed, or is over without the box.
LEMMA GoodFail ==
  ASSUME NEW q, Good(q), q.pc \in Patching
  PROVE  Good([q EXCEPT !.pc = "report", !.told = @ \cup {}])
<1> DEFINE n == [q EXCEPT !.pc = "report", !.told = @ \cup {}]
<1> USE DEF Good
<1>1. n \in Processes
  BY DEF Processes, Labels
<1>2. /\ n.pc = "report" /\ n.nth = q.nth /\ n.layout = q.layout /\ n.memory = q.memory
      /\ n.told = q.told /\ n.hooked = q.hooked /\ n.elevated = q.elevated
  BY DEF Processes
<1>3. Equipped(n) /\ CopyInv(n)
  BY <1>2 DEF Equipped, CopyInv, Patching, Early
<1>4. MemoryInv(n)
  BY <1>2 DEF MemoryInv, Untouched, PatchedAt, Patching
<1> QED BY <1>1, <1>3, <1>4

\* The search finds the first place.
LEMMA GoodSearch ==
  ASSUME NEW q, Good(q), q.pc = "search"
  PROVE  /\ Hits(q.memory) # {}
         /\ Good([q EXCEPT !.pc = "protect", !.patchAddr = FindPatchAddress(q.memory)])
<1> DEFINE a == FindPatchAddress(q.memory)
           n == [q EXCEPT !.pc = "protect", !.patchAddr = a]
<1> USE DEF Good
<1>1. Untouched(q) /\ q.layout \in Layouts /\ q.memory \in Regions
  BY DEF MemoryInv, Processes
<1>2. Hits(q.memory) # {}
  BY <1>1, AlwaysHit DEF Untouched
<1>3. a \in [region : Nat, at : Nat] /\ FirstPlace(q.memory, a.region, a.at)
  BY <1>1, <1>2, FirstPlaceFound
<1> HIDE DEF a
<1>4. n \in Processes
  BY <1>3 DEF Processes, Labels
<1>5. /\ n.pc = "protect" /\ n.nth = q.nth /\ n.layout = q.layout /\ n.memory = q.memory
      /\ n.told = q.told /\ n.hooked = q.hooked /\ n.elevated = q.elevated
      /\ n.patchAddr = a
  BY <1>3 DEF Processes
<1>6. Equipped(n) /\ CopyInv(n)
  BY <1>5 DEF Equipped, CopyInv, Patching, Early
<1>7. MemoryInv(n)
  BY <1>1, <1>3, <1>5 DEF MemoryInv, Untouched, PatchedAt
<1> HIDE DEF n
<1>8. Good(n)
  BY <1>4, <1>6, <1>7
<1> QED BY <1>2, <1>8 DEF n, a

\* A sequence with one element replaced.
LEMMA Replaced ==
  ASSUME NEW S, NEW q \in Seq(S), NEW k \in DOMAIN q, NEW x \in S
  PROVE  LET n == [q EXCEPT ![k] = x] IN
         /\ n \in Seq(S) /\ DOMAIN n = DOMAIN q /\ n[k] = x
         /\ \A j \in DOMAIN q : j # k => n[j] = q[j]
OBVIOUS

LEMMA Element == ASSUME NEW S, NEW q \in Seq(S), NEW k \in DOMAIN q
                 PROVE  q[k] \in S
OBVIOUS

WithProt(memory, r, prot) == [memory EXCEPT ![r].prot = prot]
WithPatch(memory, r, i)   == [memory EXCEPT ![r].bytes = Patched(@, i)]

\* What one step may do to the memory: the protection of the region, the two
\* bytes of the place.
LEMMA RegionsKeep ==
  ASSUME NEW memory \in Regions, NEW layout \in Regions, NEW r \in DOMAIN layout,
         NEW i \in 1 .. Len(layout[r].bytes) - 1, SameElsewhere(memory, layout, r, i),
         NEW prot \in Protections
  PROVE  LET shielded == WithProt(memory, r, prot)
             written  == WithPatch(memory, r, i)
         IN
         /\ shielded \in Regions /\ SameElsewhere(shielded, layout, r, i)
         /\ Overwritten(memory, r, i) => Overwritten(shielded, r, i)
         /\ written \in Regions /\ SameElsewhere(written, layout, r, i)
         /\ Overwritten(written, r, i)
<1> DEFINE Region == [prot : Protections, bytes : Seq(Bytes)]
           shielded == [memory EXCEPT ![r].prot = prot]
           old      == memory[r].bytes
           bytes    == Patched(old, i)
           written  == [memory EXCEPT ![r].bytes = bytes]
<1>0. memory \in Seq(Region) /\ layout \in Seq(Region)
  BY DEF Regions
<1>1. DOMAIN memory = DOMAIN layout /\ r \in DOMAIN memory
  BY DEF SameElsewhere
<1>15. memory[r] \in Region /\ layout[r] \in Region
  <2> HIDE DEF Region
  <2> QED BY <1>0, <1>1, Element
<1>2. /\ old \in Seq(Bytes) /\ layout[r].bytes \in Seq(Bytes)
      /\ DOMAIN old = DOMAIN layout[r].bytes
  BY <1>1, <1>15 DEF SameElsewhere
<1> HIDE DEF old
<1>3. i \in DOMAIN old /\ i + 1 \in DOMAIN old /\ i \in Nat
  <2>1. Len(layout[r].bytes) \in Nat /\ DOMAIN layout[r].bytes = 1 .. Len(layout[r].bytes)
    BY <1>2
  <2> QED BY <1>2, <2>1
<1>4. /\ bytes \in Seq(Bytes) /\ DOMAIN bytes = DOMAIN old
      /\ bytes[i] = PATCH_BYTES[1] /\ bytes[i + 1] = PATCH_BYTES[2]
      /\ \A j \in DOMAIN bytes : j \notin {i, i + 1} => bytes[j] = old[j]
  <2>1. PATCH_BYTES[1] = "90" /\ PATCH_BYTES[2] = "90" /\ "90" \in Bytes
    BY DEF PATCH_BYTES, Bytes
  <2> DEFINE first == [old EXCEPT ![i] = "90"]
  <2>2. /\ first \in Seq(Bytes) /\ DOMAIN first = DOMAIN old /\ first[i] = "90"
        /\ \A j \in DOMAIN old : j # i => first[j] = old[j]
    BY <1>2, <1>3, <2>1, Replaced
  <2>3. bytes = [first EXCEPT ![i + 1] = "90"]
    BY <2>1 DEF Patched
  <2> HIDE DEF first, bytes
  <2>4. /\ bytes \in Seq(Bytes) /\ DOMAIN bytes = DOMAIN first /\ bytes[i + 1] = "90"
        /\ \A j \in DOMAIN first : j # i + 1 => bytes[j] = first[j]
    BY <1>3, <2>1, <2>2, <2>3, Replaced
  <2> QED BY <1>3, <2>1, <2>2, <2>4
<1> HIDE DEF bytes
<1>5. /\ shielded \in Seq(Region) /\ DOMAIN shielded = DOMAIN memory
      /\ shielded[r].prot = prot /\ shielded[r].bytes = memory[r].bytes
      /\ \A s \in DOMAIN memory : s # r => shielded[s] = memory[s]
  <2> DEFINE x == [memory[r] EXCEPT !.prot = prot]
  <2>1. x \in Region /\ x.prot = prot /\ x.bytes = memory[r].bytes
    BY <1>15
  <2>2. shielded = [memory EXCEPT ![r] = x]
    OBVIOUS
  <2> HIDE DEF Region, x, shielded
  <2> QED BY <1>0, <1>1, <2>1, <2>2, Replaced
<1>6. /\ written \in Seq(Region) /\ DOMAIN written = DOMAIN memory
      /\ written[r].bytes = bytes /\ written[r].prot = memory[r].prot
      /\ \A s \in DOMAIN memory : s # r => written[s] = memory[s]
  <2> DEFINE x == [memory[r] EXCEPT !.bytes = bytes]
  <2>1. x \in Region /\ x.bytes = bytes /\ x.prot = memory[r].prot
    BY <1>15, <1>4
  <2>2. written = [memory EXCEPT ![r] = x]
    OBVIOUS
  <2> HIDE DEF Region, x, written
  <2> QED BY <1>0, <1>1, <2>1, <2>2, Replaced
<1> HIDE DEF shielded, written
<1>7. SameElsewhere(shielded, layout, r, i)
  BY <1>1, <1>5 DEF SameElsewhere
<1>8. Overwritten(memory, r, i) => Overwritten(shielded, r, i)
  BY <1>5 DEF Overwritten
<1>9. SameElsewhere(written, layout, r, i)
  BY <1>1, <1>2, <1>3, <1>4, <1>6 DEF SameElsewhere, old
<1>10. Overwritten(written, r, i)
  BY <1>3, <1>4, <1>6 DEF Overwritten
<1>11. shielded \in Regions /\ written \in Regions
  BY <1>5, <1>6 DEF Regions, Region
<1> QED BY <1>5, <1>7, <1>8, <1>9, <1>10, <1>11 DEF shielded, written, bytes, old, WithProt, WithPatch

\* Where the place found is, in the memory at the start and now.
LEMMA PlaceFound ==
  ASSUME NEW q, Good(q), q.pc \in {"protect", "write", "restore"},
         NEW a, a = q.patchAddr
  PROVE  /\ q.memory \in Regions /\ q.layout \in Regions
         /\ a.region \in DOMAIN q.layout /\ a.at \in 1 .. Len(q.layout[a.region].bytes) - 1
         /\ FirstPlace(q.layout, a.region, a.at)
         /\ SameElsewhere(q.memory, q.layout, a.region, a.at)
         /\ "lobby patched" \notin q.told /\ "no patch address" \notin q.told
         /\ q.layout \in Layouts
<1>1. q.pc = "protect" => SameElsewhere(q.memory, q.layout, a.region, a.at)
  BY DEF Good, MemoryInv, Untouched, SameElsewhere
<1> QED BY <1>1 DEF Good, Processes, MemoryInv, FirstPlace, Place

\* A place in the bytes is one the properties range over.
LEMMA InRange ==
  ASSUME NEW layout \in Regions, NEW r \in DOMAIN layout,
         NEW i \in 1 .. Len(layout[r].bytes) - 1
  PROVE  i \in 1 .. Len(layout[r].bytes)
<1>1. layout[r] \in [prot : Protections, bytes : Seq(Bytes)]
  BY Element DEF Regions
<1>2. Len(layout[r].bytes) \in Nat
  BY <1>1
<1> QED BY <1>2

\* The region is made writable.
LEMMA GoodProtect ==
  ASSUME NEW q, Good(q), q.pc = "protect", NEW r, r = q.patchAddr.region
  PROVE  Good([q EXCEPT !.pc = "write", !.oldProtect = q.memory[r].prot,
                        !.memory[r].prot = "execute_readwrite"])
<1> DEFINE i == q.patchAddr.at
           m == WithProt(q.memory, r, "execute_readwrite")
           n == [q EXCEPT !.pc = "write", !.oldProtect = q.memory[r].prot,
                          !.memory[r].prot = "execute_readwrite"]
<1>1. /\ q.memory \in Regions /\ q.layout \in Regions /\ r \in DOMAIN q.layout
      /\ i \in 1 .. Len(q.layout[r].bytes) - 1 /\ FirstPlace(q.layout, r, i)
      /\ SameElsewhere(q.memory, q.layout, r, i) /\ q.layout \in Layouts
      /\ "lobby patched" \notin q.told /\ "no patch address" \notin q.told
  BY PlaceFound
<1>2. q.memory = q.layout /\ q.memory[r].prot \in Protections
  <2>1. q.memory = q.layout
    BY DEF Good, MemoryInv, Untouched
  <2>2. q.layout[r] \in [prot : Protections, bytes : Seq(Bytes)]
    BY <1>1, Element DEF Regions
  <2> QED BY <2>1, <2>2
<1>3. "execute_readwrite" \in Protections
  BY DEF Protections
<1>4. m \in Regions /\ SameElsewhere(m, q.layout, r, i)
  <2> DEFINE P(prot) == LET w == WithProt(q.memory, r, prot) IN
                      w \in Regions /\ SameElsewhere(w, q.layout, r, i)
  <2>1. \A prot \in Protections : P(prot)
    BY <1>1, RegionsKeep
  <2>2. P("execute_readwrite")
    BY <1>3, <2>1
  <2> QED BY <2>2
<1>5. n = [q EXCEPT !.pc = "write", !.oldProtect = q.memory[r].prot, !.memory = m]
  BY DEF WithProt, WithPatch
<1> HIDE DEF m, n
<1>6. n \in Processes
  BY <1>2, <1>4, <1>5 DEF Good, Processes, Labels
<1>7. /\ n.pc = "write" /\ n.nth = q.nth /\ n.layout = q.layout /\ n.memory = m
      /\ n.told = q.told /\ n.hooked = q.hooked /\ n.elevated = q.elevated
      /\ n.patchAddr = q.patchAddr /\ n.oldProtect = q.layout[r].prot
  BY <1>2, <1>5 DEF Good, Processes
<1>8. Equipped(n) /\ CopyInv(n)
  BY <1>7 DEF Good, Equipped, CopyInv, Patching, Early
<1>9. PatchedAt(n, r, i)
  BY <1>1, <1>4, <1>7 DEF PatchedAt
<1>10. MemoryInv(n)
  BY <1>1, <1>4, <1>7, <1>9, InRange DEF MemoryInv
<1> QED BY <1>6, <1>8, <1>10 DEF Good, n

\* The two bytes are written.
LEMMA GoodWrite ==
  ASSUME NEW q, Good(q), q.pc = "write", NEW a, a = q.patchAddr
  PROVE  Good([q EXCEPT !.pc = "restore", !.memory[a.region].bytes = Patched(@, a.at)])
<1> DEFINE r == a.region
           i == a.at
           m == WithPatch(q.memory, r, i)
           n == [q EXCEPT !.pc = "restore", !.memory[a.region].bytes = Patched(@, a.at)]
<1>1. /\ q.memory \in Regions /\ q.layout \in Regions /\ r \in DOMAIN q.layout
      /\ i \in 1 .. Len(q.layout[r].bytes) - 1 /\ FirstPlace(q.layout, r, i)
      /\ SameElsewhere(q.memory, q.layout, r, i) /\ q.layout \in Layouts
      /\ "lobby patched" \notin q.told /\ "no patch address" \notin q.told
  BY PlaceFound
<1>2. "free" \in Protections
  BY DEF Protections
<1>3. m \in Regions /\ SameElsewhere(m, q.layout, r, i) /\ Overwritten(m, r, i)
  BY <1>1, <1>2, RegionsKeep
<1>4. n = [q EXCEPT !.pc = "restore", !.memory = m]
  BY DEF WithProt, WithPatch
<1> HIDE DEF m, n
<1>5. n \in Processes
  BY <1>3, <1>4 DEF Good, Processes, Labels
<1>6. /\ n.pc = "restore" /\ n.nth = q.nth /\ n.layout = q.layout /\ n.memory = m
      /\ n.told = q.told /\ n.hooked = q.hooked /\ n.elevated = q.elevated
      /\ n.patchAddr = a /\ n.oldProtect = q.layout[r].prot
  BY <1>4 DEF Good, Processes, MemoryInv
<1>7. Equipped(n) /\ CopyInv(n)
  BY <1>6 DEF Good, Equipped, CopyInv, Patching, Early
<1>8. PatchedAt(n, r, i)
  BY <1>1, <1>3, <1>6 DEF PatchedAt
<1>9. MemoryInv(n)
  BY <1>1, <1>3, <1>6, <1>8, InRange DEF MemoryInv
<1> QED BY <1>5, <1>7, <1>9 DEF Good, n

\* The old protection is put back, and the box comes.
LEMMA GoodRestore ==
  ASSUME NEW q, Good(q), q.pc = "restore", NEW r, r = q.patchAddr.region
  PROVE  Good([q EXCEPT !.pc = "report", !.told = @ \cup {"lobby patched"},
                        !.memory[r].prot = q.oldProtect])
<1> DEFINE i == q.patchAddr.at
           m == WithProt(q.memory, r, q.oldProtect)
           n == [q EXCEPT !.pc = "report", !.told = @ \cup {"lobby patched"},
                          !.memory[r].prot = q.oldProtect]
<1>1. /\ q.memory \in Regions /\ q.layout \in Regions /\ r \in DOMAIN q.layout
      /\ i \in 1 .. Len(q.layout[r].bytes) - 1 /\ FirstPlace(q.layout, r, i)
      /\ SameElsewhere(q.memory, q.layout, r, i) /\ q.layout \in Layouts
      /\ "lobby patched" \notin q.told /\ "no patch address" \notin q.told
  BY PlaceFound
<1>2. /\ q.oldProtect \in Protections /\ q.oldProtect = q.layout[r].prot
      /\ Overwritten(q.memory, r, i)
  BY DEF Good, Processes, MemoryInv
<1>3. /\ m \in Regions /\ SameElsewhere(m, q.layout, r, i) /\ Overwritten(m, r, i)
      /\ m[r].prot = q.layout[r].prot
  <2> DEFINE P(prot) == LET w == WithProt(q.memory, r, prot) IN
                      w \in Regions /\ SameElsewhere(w, q.layout, r, i) /\ Overwritten(w, r, i)
  <2>1. \A prot \in Protections : P(prot)
    BY <1>1, <1>2, RegionsKeep
  <2>2. P(q.oldProtect)
    BY <1>2, <2>1
  <2>3. r \in DOMAIN q.memory /\ q.memory[r] \in [prot : Protections, bytes : Seq(Bytes)]
    <3>1. r \in DOMAIN q.memory
      BY <1>1 DEF SameElsewhere
    <3> QED BY <1>1, <3>1, Element DEF Regions
  <2>4. m[r].prot = q.oldProtect
    BY <2>3 DEF WithProt
  <2> QED BY <1>2, <2>2, <2>4
<1>4. n = [q EXCEPT !.pc = "report", !.told = @ \cup {"lobby patched"}, !.memory = m]
  BY DEF WithProt, WithPatch
<1> HIDE DEF m, n
<1>5. n \in Processes
  <2>1. q.told \cup {"lobby patched"} \in SUBSET Boxes
    BY DEF Good, Processes, Boxes
  <2> QED BY <1>3, <1>4, <2>1 DEF Good, Processes, Labels
<1>6. /\ n.pc = "report" /\ n.nth = q.nth /\ n.layout = q.layout /\ n.memory = m
      /\ n.told = q.told \cup {"lobby patched"} /\ n.hooked = q.hooked
      /\ n.elevated = q.elevated
  BY <1>4 DEF Good, Processes
<1>7. Equipped(n) /\ CopyInv(n)
  BY <1>6 DEF Good, Equipped, CopyInv, Patching, Early
<1>8. PatchedAt(n, r, i)
  BY <1>1, <1>3, <1>6 DEF PatchedAt
<1>9. MemoryInv(n)
  BY <1>1, <1>6, <1>8, InRange DEF MemoryInv
<1> QED BY <1>5, <1>7, <1>9 DEF Good, n

-----------------------------------------------------------------------------
(***************************************************************************)
(* All processes                                                           *)
(***************************************************************************)

LEMMA ImageType ==
  ASSUME NEW headers \in Images
  PROVE  /\ headers.nsec \in Nat /\ headers.table \in Seq(Procs)
         /\ Len(headers.table) \in Nat /\ headers.laa \in BOOLEAN
<1>1. headers.nsec \in Nat /\ headers.table \in Seq(Procs) /\ headers.laa \in BOOLEAN
  BY DEF Images
<1> QED BY <1>1

LEMMA CopyType ==
  ASSUME NEW q \in Processes
  PROVE  q.nth \in Images /\ q.nth.nsec \in Nat
<1>1. q.nth \in Images
  BY DEF Processes
<1> QED BY <1>1, ImageType

\* What the invariant asks of a step of the file.
ImageStep == /\ image' \in Images /\ image'.nsec <= Len(image'.table)
             /\ Len(image.table) <= Len(image'.table)
             /\ image.laa => image'.laa

\* When one process goes on, or a new one starts for itself, and is as it should
\* be, then all are.
LEMMA OneChanges ==
  ASSUME SessionInv, ImageStep, NEW p \in Procs, NEW q, Becomes(p, q),
         Good(q), HeadersInv(q, image'), q.pc # "absent",
         \/ At(p, "absent") /\ q.origin = p
         \/ Running(p) /\ q.origin = proc[p].origin /\ (At(p, "exit") => q.pc = "ended")
  PROVE  SessionInv'
<1>1. /\ proc' \in [Procs -> Processes] /\ proc'[p] = q
      /\ \A x \in Procs \ {p} : proc'[x] = proc[x]
  BY DEF SessionInv, Becomes, Good
<1>2. \A x \in Procs : Good(proc'[x]) /\ HeadersInv(proc'[x], image')
  <2> SUFFICES ASSUME NEW x \in Procs, x # p
               PROVE  Good(proc'[x]) /\ HeadersInv(proc'[x], image')
    BY <1>1
  <2>1. /\ proc'[x] = proc[x] /\ proc[x].nth.nsec \in Nat
        /\ Len(image.table) \in Nat /\ Len(image'.table) \in Nat
    BY <1>1, ImageType, CopyType DEF SessionInv, ImageInv, ImageStep
  <2>2. Good(proc[x]) /\ HeadersInv(proc[x], image)
    BY DEF SessionInv
  <2>3. /\ Len(image.table) <= Len(image'.table)
        /\ image.laa => image'.laa
    BY DEF ImageStep
  <2>4. HeadersInv(proc[x], image')
    <3>1. proc[x].nth.nsec <= Len(image'.table)
      <4>1. proc[x].nth.nsec <= Len(image.table)
        BY <2>2 DEF HeadersInv
      <4> QED BY <2>1, <2>3, <4>1
    <3> QED BY <2>2, <2>3, <3>1, Zenon DEF HeadersInv
  <2> QED BY <2>1, <2>2, <2>4
<1>3. \A x \in Procs : proc[x].origin \in Procs
  BY DEF SessionInv, Processes
<1>4. OriginInv'
  <2> SUFFICES ASSUME NEW x \in Procs, Running(x)'
               PROVE  ~At(proc[x].origin, "absent")'
    BY DEF OriginInv
  <2>1. ~At(proc[x].origin, "absent")' \/ (x = p /\ Running(p)) \/ x # p
    BY <1>1 DEF At
  <2>2. CASE x = p /\ Running(p)
    BY <1>1, <1>3, <2>2 DEF SessionInv, OriginInv, At, Running
  <2>3. CASE x # p
    BY <1>1, <1>3, <2>3 DEF SessionInv, OriginInv, At, Running
  <2> QED BY <2>1, <2>2, <2>3
<1>5. OnePatcherPerStart'
  <2> SUFFICES ASSUME NEW x \in Procs, NEW y \in Procs, Active(x)', Active(y)',
                      (proc[x].origin = proc[y].origin)'
               PROVE  x = y
    BY DEF OnePatcherPerStart
  <2>1. \A z \in Procs : Running(z) => ~At(proc[z].origin, "absent")
    BY DEF SessionInv, OriginInv
  <2>2. CASE x # p /\ y # p
    BY <1>1, <2>2 DEF SessionInv, OnePatcherPerStart, Active, Running, At
  <2>3. CASE At(p, "absent") /\ q.origin = p
    BY <1>1, <2>1, <2>2, <2>3 DEF At, Active, Running
  <2>4. CASE Running(p) /\ q.origin = proc[p].origin /\ (At(p, "exit") => q.pc = "ended")
    <3>1. Active(p)' => Active(p)
      BY <1>1, <2>4 DEF Active, Running, At
    <3> QED BY <1>1, <2>2, <2>4, <3>1 DEF SessionInv, OnePatcherPerStart, Active, Running, At
  <2> QED BY <2>3, <2>4
<1> QED BY <1>1, <1>2, <1>4, <1>5 DEF SessionInv, ImageInv, ImageStep

\* A process that goes on keeps its origin, and ends when it has handed over.
LEMMA Continues ==
  ASSUME SessionInv, ImageStep, NEW p \in Procs, NEW q, Becomes(p, q), Running(p),
         Good(q), HeadersInv(q, image'), q.pc # "absent", q.origin = proc[p].origin,
         ~At(p, "exit") \/ q.pc = "ended"
  PROVE  SessionInv'
BY OneChanges

LEMMA SameImage == ASSUME SessionInv, UNCHANGED image PROVE ImageStep
<1>1. Len(image.table) \in Nat
  BY DEF SessionInv, ImageInv, Images
<1> QED BY <1>1 DEF SessionInv, ImageInv, ImageStep

\* The end of a process.
LEMMA Returns ==
  ASSUME SessionInv, NEW p \in Procs, Running(p), NEW boxes \in SUBSET Boxes,
         boxes \cap {"lobby patched", "no patch address"} = {}, Return(p, boxes)
  PROVE  SessionInv'
<1> DEFINE q == Ended(p, boxes)
<1>1. Good(proc[p]) /\ proc[p] \in Processes /\ proc[p].pc # "absent"
  BY DEF SessionInv, Running
<1>2. Good(q)
  BY <1>1, GoodEnd DEF Ended
<1>3. q.pc = "ended" /\ q.origin = proc[p].origin /\ q.nth = proc[p].nth
  BY <1>1 DEF Ended, Processes
<1>4. Becomes(p, q) /\ HeadersInv(q, image') /\ ImageStep
  BY <1>3, SameImage DEF Return, HeadersInv, SessionInv
<1> HIDE DEF q
<1> QED BY <1>2, <1>3, <1>4, Continues

\* A step of a process to a place where nothing but its rights matters.
LEMMA GoesTo ==
  ASSUME SessionInv, NEW p \in Procs, NEW pc \in {"relaunch", "pick", "locate", "load"},
         proc[p].pc \in {"started", "pick", "locate"}, Goto(p, pc),
         pc = "relaunch" \/ proc[p].elevated
  PROVE  SessionInv'
<1> DEFINE old == proc[p]
           q   == [old EXCEPT !.pc = pc, !.hooked = old.hooked, !.nth = old.nth]
<1>1. Good(old) /\ old \in Processes /\ Running(p) /\ ~At(p, "exit")
  BY DEF SessionInv, Running, At
<1>2. old.hooked \in BOOLEAN /\ old.nth \in Images /\ old.nth.nsec = Len(old.nth.table)
  BY <1>1 DEF Good, Processes, CopyInv
<1>3. q = [old EXCEPT !.pc = pc]
  BY <1>1 DEF Processes
<1>4. Good(q)
  <2>1. pc \in Labels \ {"absent", "protect", "write", "restore"} /\ pc \notin Patching
        /\ (pc \notin Early \cup {"ended"} => old.elevated)
    BY DEF Labels, Patching, Early
  <2> HIDE DEF old
  <2> QED BY <1>1, <1>2, <2>1, GoodMove DEF old
<1>5. q.pc = pc /\ q.origin = proc[p].origin /\ q.nth = proc[p].nth
  BY <1>1 DEF Processes
<1>6. Becomes(p, q) /\ HeadersInv(q, image') /\ ImageStep
  BY <1>3, <1>5, SameImage DEF Goto, HeadersInv, SessionInv
<1> HIDE DEF q
<1> QED BY <1>1, <1>4, <1>5, <1>6, Continues

\* A process that moves on inside the patching, with another copy of the headers
\* or the DLL perhaps.
LEMMA MovesOn ==
  ASSUME SessionInv, ImageStep, NEW p \in Procs,
         proc[p].pc \in {"load"} \cup (Patching \ {"write", "restore", "report"}),
         NEW pc \in Patching \ {"protect", "write", "restore"},
         NEW nth \in Images, nth.nsec = Len(nth.table), nth.nsec <= Len(image'.table),
         Becomes(p, [proc[p] EXCEPT !.pc = pc, !.hooked = TRUE, !.nth = nth]),
         pc \in {"inject", "inject write"} => image'.laa,
         pc = "inject write" => nth.laa
  PROVE  SessionInv'
<1> DEFINE old == proc[p]
           q   == [old EXCEPT !.pc = pc, !.hooked = TRUE, !.nth = nth]
<1>1. Good(old) /\ old \in Processes /\ Running(p) /\ old.elevated /\ ~At(p, "exit")
  BY DEF SessionInv, Running, Good, Equipped, Patching, Early, At
<1>2. Good(q)
  <2>1. /\ pc \in Labels \ {"absent", "protect", "write", "restore"}
        /\ old.pc \notin {"absent", "write", "restore", "report", "ended"}
    BY <1>1 DEF Labels, Patching
  <2> HIDE DEF old
  <2> QED BY <1>1, <2>1, GoodMove
<1>3. q.pc = pc /\ q.nth = nth /\ q.origin = proc[p].origin /\ q.pc # "absent"
  BY <1>1 DEF Processes, Patching
<1>4. Becomes(p, q) /\ HeadersInv(q, image')
  BY <1>3 DEF HeadersInv
<1> HIDE DEF q
<1> QED BY <1>1, <1>2, <1>3, <1>4, Continues

LEMMA HeadersType ==
  ASSUME ImageInv
  PROVE  /\ Headers \in Images /\ Headers.laa = image.laa /\ Headers.nsec = image.nsec
         /\ Len(Headers.table) = image.nsec
         /\ \A k \in 1 .. image.nsec : Headers.table[k] = image.table[k]
<1> DEFINE t == SubSeq(image.table, 1, image.nsec)
<1>1. image \in Images /\ image.table \in Seq(Procs) /\ image.nsec \in 0 .. Len(image.table)
  BY DEF ImageInv, Images
<1>2. /\ t \in Seq(Procs) /\ Len(t) = image.nsec
      /\ \A k \in 1 .. image.nsec : t[k] = image.table[k]
  BY <1>1
<1> HIDE DEF t
<1>3. Headers = [image EXCEPT !.table = t]
  BY DEF Headers, t
<1> QED BY <1>1, <1>2, <1>3 DEF Images

\* The longer table is in the file, and the rest of the old one behind it.
LEMMA OverType ==
  ASSUME NEW old \in Seq(Procs), NEW table \in Seq(Procs), NEW p \in Procs
  PROVE  LET t == Over(old, Append(table, p)) IN
         /\ t \in Seq(Procs) /\ Len(table) + 1 <= Len(t) /\ Len(old) <= Len(t)
         /\ \A k \in 1 .. Len(table) : t[k] = table[k]
<1> DEFINE new == Append(table, p)
<1>1. /\ new \in Seq(Procs) /\ Len(new) = Len(table) + 1
      /\ \A k \in 1 .. Len(table) : new[k] = table[k]
  OBVIOUS
<1> HIDE DEF new
<1> DEFINE rest == SubSeq(old, Len(new) + 1, Len(old))
<1>2. rest \in Seq(Procs) /\ Len(new) + Len(rest) >= Len(old) /\ Len(old) \in Nat
  <2>1. Len(old) \in Nat /\ Len(new) \in Nat
    BY <1>1
  <2>2. \A i \in Len(new) + 1 .. Len(old) : old[i] \in Procs
    BY <2>1, Element
  <2>3. rest \in Seq(Procs)
        /\ Len(rest) = IF Len(new) + 1 <= Len(old) THEN Len(old) - (Len(new) + 1) + 1 ELSE 0
    BY <2>1, <2>2, SubSeqProperties
  <2> DEFINE o == Len(old)
             w == Len(new)
             l == Len(rest)
  <2>4. o \in Nat /\ w \in Nat /\ l = IF w + 1 <= o THEN o - (w + 1) + 1 ELSE 0
    BY <2>1, <2>3
  <2> HIDE DEF o, w, l
  <2>5. w + l >= o
    BY <2>4
  <2> QED BY <2>1, <2>3, <2>5 DEF o, w, l
<1> HIDE DEF rest
<1>3. /\ new \o rest \in Seq(Procs) /\ Len(new \o rest) = Len(new) + Len(rest)
      /\ Len(rest) \in Nat /\ \A k \in 1 .. Len(new) : (new \o rest)[k] = new[k]
  BY <1>1, <1>2
<1>4. Over(old, new) = new \o rest
  BY DEF Over, rest
<1> DEFINE c == new \o rest
<1>5. /\ c \in Seq(Procs) /\ Len(c) = Len(table) + 1 + Len(rest)
      /\ Len(rest) \in Nat /\ Len(table) \in Nat /\ Len(old) <= Len(c)
      /\ \A k \in 1 .. Len(table) : c[k] = table[k]
  BY <1>1, <1>2, <1>3
<1>6. Over(old, new) = c
  BY <1>4
<1> HIDE DEF c
<1> QED BY <1>5, <1>6 DEF new

LEMMA ReadStep ==
  ASSUME SessionInv, NEW p \in Procs, NEW pc \in {"laa", "inject"},
         NEW next \in {"laa write", "inject write"}, next = "inject write" => pc = "inject",
         ReadHeaders(p, pc, next)
  PROVE  SessionInv'
<1>1. CASE /\ Becomes(p, [proc[p] EXCEPT !.pc = next, !.nth = Headers])
           /\ UNCHANGED image
  <2>1. ImageStep /\ Headers \in Images /\ Headers.nsec = Len(Headers.table)
        /\ Headers.laa = image.laa /\ Headers.nsec <= Len(image'.table)
    BY <1>1, SameImage, HeadersType DEF SessionInv, ImageInv
  <2>2. proc[p] \in Processes /\ proc[p].hooked = TRUE /\ proc[p].pc = pc
    BY DEF SessionInv, Good, Equipped, Patching, ReadHeaders, At, Processes
  <2>3. [proc[p] EXCEPT !.pc = next, !.nth = Headers]
          = [proc[p] EXCEPT !.pc = next, !.hooked = TRUE, !.nth = Headers]
    BY <2>2 DEF Processes
  <2>4. next \in {"inject write"} => image.laa /\ image'.laa
    BY <1>1, <2>2 DEF SessionInv, HeadersInv
  <2>5. proc[p].pc \in {"load"} \cup (Patching \ {"write", "restore", "report"})
        /\ next \in Patching \ {"protect", "write", "restore"} /\ next # "inject"
    BY <2>2 DEF Patching
  <2> HIDE DEF Headers
  <2> QED BY <1>1, <2>1, <2>3, <2>4, <2>5, MovesOn
<1>2. CASE Return(p, {"patch failed"})
  BY <1>2, Returns DEF ReadHeaders, At, Running, Boxes
<1> QED BY <1>1, <1>2 DEF ReadHeaders


LEMMA EnableLAAWriteStep ==
  ASSUME SessionInv, NEW p \in Procs, EnableLAAWrite(p)
  PROVE  SessionInv'
<1> DEFINE nth == proc[p].nth
<1>1. /\ proc[p] \in Processes /\ proc[p].hooked = TRUE /\ proc[p].pc = "laa write"
      /\ nth \in Images /\ nth.nsec = Len(nth.table)
  BY DEF SessionInv, Good, Equipped, Patching, CopyInv, EnableLAAWrite, At, Processes
<1>2. image' = [image EXCEPT !.laa = TRUE, !.nsec = nth.nsec]
  BY DEF EnableLAAWrite
<1>3. nth.nsec <= Len(image.table)
  BY DEF SessionInv, HeadersInv
<1>7. ImageStep /\ image'.laa /\ nth.nsec <= Len(image'.table)
  <2>1. image \in Images /\ image.table \in Seq(Procs) /\ Len(image.table) \in Nat
        /\ nth.nsec \in Nat
    BY <1>1, ImageType DEF SessionInv, ImageInv
  <2>2. image' \in Images /\ image'.table = image.table /\ image'.nsec = nth.nsec
        /\ image'.laa = TRUE
    BY <1>2, <2>1 DEF Images
  <2> QED BY <1>3, <2>1, <2>2 DEF ImageStep
<1>4. [proc[p] EXCEPT !.pc = "inject"]
        = [proc[p] EXCEPT !.pc = "inject", !.hooked = TRUE, !.nth = nth]
  BY <1>1 DEF Processes
<1>5. /\ proc[p].pc \in {"load"} \cup (Patching \ {"write", "restore", "report"})
      /\ "inject" \in Patching \ {"protect", "write", "restore"}
  BY <1>1 DEF Patching
<1>6. Becomes(p, [proc[p] EXCEPT !.pc = "inject", !.hooked = TRUE, !.nth = nth])
  BY <1>4 DEF EnableLAAWrite
<1> QED BY <1>1, <1>5, <1>6, <1>7, MovesOn

\* The header written by InjectInjsec: what it counts is in the table, and what
\* the copy had is still there.
LEMMA Injected ==
  ASSUME SessionInv, NEW p \in Procs, InjectInjsecWrite(p)
  PROVE  /\ ImageStep /\ image'.laa
         /\ image'.nsec = proc[p].nth.nsec + 1
         /\ proc[p].nth.nsec + 1 <= Len(image'.table)
         /\ \A k \in 1 .. proc[p].nth.nsec : image'.table[k] = proc[p].nth.table[k]
<1> DEFINE nth == proc[p].nth
           new == Append(nth.table, p)
           t   == Over(image.table, new)
<1>1. /\ nth \in Images /\ nth.nsec \in Nat /\ nth.table \in Seq(Procs)
      /\ nth.nsec = Len(nth.table) /\ nth.laa = TRUE
  <2>1. proc[p] \in Processes /\ CopyInv(proc[p]) /\ HeadersInv(proc[p], image)
        /\ proc[p].pc = "inject write"
    BY DEF SessionInv, Good, InjectInjsecWrite, At
  <2>2. nth \in Images /\ nth.nsec \in Nat /\ nth.table \in Seq(Procs)
        /\ nth.laa \in BOOLEAN
    BY <2>1, CopyType, ImageType
  <2> QED BY <2>1, <2>2 DEF CopyInv, HeadersInv
<1>2. image.table \in Seq(Procs) /\ Len(image.table) \in Nat
  BY ImageType DEF SessionInv, ImageInv
<1>3. /\ t \in Seq(Procs) /\ Len(nth.table) + 1 <= Len(t) /\ Len(image.table) <= Len(t)
      /\ \A k \in 1 .. Len(nth.table) : t[k] = nth.table[k]
  <2> DEFINE table == nth.table
             old   == image.table
  <2>1. table \in Seq(Procs) /\ old \in Seq(Procs) /\ t = Over(old, Append(table, p))
    BY <1>1, <1>2
  <2> HIDE DEF table, old, t
  <2> QED BY <2>1, OverType DEF table, old
<1>4. image' = [laa |-> nth.laa, nsec |-> nth.nsec + 1, table |-> t]
  BY DEF InjectInjsecWrite
<1> HIDE DEF t
<1>5. image' \in Images /\ image'.table = t /\ image'.nsec = nth.nsec + 1
      /\ image'.laa = TRUE
  <2>1. nth.nsec + 1 \in Nat
    BY <1>1
  <2> QED BY <1>1, <1>3, <1>4, <2>1 DEF Images
<1> HIDE DEF nth
<1> QED BY <1>1, <1>3, <1>5 DEF ImageStep, nth

LEMMA InjectInjsecWriteStep ==
  ASSUME SessionInv, NEW p \in Procs, InjectInjsecWrite(p)
  PROVE  SessionInv'
<1> DEFINE nth == proc[p].nth
<1>1. /\ proc[p] \in Processes /\ proc[p].hooked = TRUE /\ proc[p].pc = "inject write"
      /\ nth.nsec = Len(nth.table)
  BY DEF SessionInv, Good, Equipped, Patching, CopyInv, InjectInjsecWrite, At, Processes
<1>2. nth \in Images /\ nth.nsec \in Nat
  BY <1>1, CopyType
<1>3. ImageStep /\ nth.nsec <= Len(image'.table)
  <2>1. ImageStep /\ nth.nsec + 1 <= Len(image'.table)
    BY Injected
  <2>2. Len(image'.table) \in Nat
    BY <2>1, ImageType DEF ImageStep
  <2> QED BY <1>2, <2>1, <2>2
<1>4. [proc[p] EXCEPT !.pc = "search"]
        = [proc[p] EXCEPT !.pc = "search", !.hooked = TRUE, !.nth = nth]
  BY <1>1 DEF Processes
<1>5. /\ proc[p].pc \in {"load"} \cup (Patching \ {"write", "restore", "report"})
      /\ "search" \in Patching \ {"protect", "write", "restore"}
  BY <1>1 DEF Patching
<1>6. Becomes(p, [proc[p] EXCEPT !.pc = "search", !.hooked = TRUE, !.nth = nth])
  BY <1>4 DEF InjectInjsecWrite
<1> QED BY <1>1, <1>2, <1>3, <1>5, <1>6, MovesOn

LEMMA LoadHookStep ==
  ASSUME SessionInv, NEW p \in Procs, LoadHook(p)
  PROVE  SessionInv'
<1>1. proc[p] \in Processes /\ proc[p].pc = "load" /\ Running(p)
  BY DEF SessionInv, LoadHook, At, Running
<1>2. CASE Becomes(p, [proc[p] EXCEPT !.pc = "laa", !.hooked = TRUE]) /\ UNCHANGED image
  <2> DEFINE nth == proc[p].nth
  <2>1. nth \in Images /\ nth.nsec = Len(nth.table)
    BY <1>1, CopyType DEF SessionInv, Good, CopyInv
  <2>2. ImageStep /\ nth.nsec <= Len(image'.table)
    BY <1>2, SameImage DEF SessionInv, HeadersInv
  <2>3. [proc[p] EXCEPT !.pc = "laa", !.hooked = TRUE]
          = [proc[p] EXCEPT !.pc = "laa", !.hooked = TRUE, !.nth = nth]
    BY <1>1 DEF Processes
  <2>4. /\ proc[p].pc \in {"load"} \cup (Patching \ {"write", "restore", "report"})
        /\ "laa" \in Patching \ {"protect", "write", "restore"}
    BY <1>1 DEF Patching
  <2>5. Becomes(p, [proc[p] EXCEPT !.pc = "laa", !.hooked = TRUE, !.nth = nth])
    BY <1>2, <2>3
  <2> QED BY <2>1, <2>2, <2>4, <2>5, MovesOn
<1>3. CASE Return(p, {"dll not loaded"})
  BY <1>1, <1>3, Returns DEF Boxes
<1> QED BY <1>2, <1>3 DEF LoadHook

\* A step of the process in its own memory.
LEMMA MemoryStep ==
  ASSUME SessionInv, NEW p \in Procs, NEW q, Becomes(p, q), UNCHANGED image,
         proc[p].pc \in Patching,
         Good(q), q.pc \in {"protect", "write", "restore", "report"},
         q.nth = proc[p].nth, q.origin = proc[p].origin
  PROVE  SessionInv'
<1>1. /\ HeadersInv(q, image') /\ ImageStep /\ q.pc # "absent"
      /\ Running(p) /\ ~At(p, "exit")
  BY SameImage DEF SessionInv, HeadersInv, Running, At, Patching
<1> QED BY <1>1, Continues

LEMMA FailStep ==
  ASSUME SessionInv, NEW p \in Procs, proc[p].pc \in Patching,
         Becomes(p, Fails(p, {})), UNCHANGED image
  PROVE  SessionInv'
<1> DEFINE q == Fails(p, {})
<1>1. Good(proc[p]) /\ proc[p] \in Processes /\ Running(p)
  BY DEF SessionInv, Running, Patching
<1>2. Good(q)
  BY <1>1, GoodFail DEF Fails
<1>3. q.pc = "report" /\ q.nth = proc[p].nth /\ q.origin = proc[p].origin
  BY <1>1 DEF Fails, Processes
<1> HIDE DEF q
<1>4. Becomes(p, q)
  BY DEF q
<1> QED BY <1>1, <1>2, <1>3, <1>4, MemoryStep

LEMMA UserStartsStep ==
  ASSUME SessionInv, NEW p \in Procs, UserStarts(p)
  PROVE  SessionInv'
<1>1. PICK elevated \in BOOLEAN, regions \in Layouts :
        Becomes(p, Started(elevated, p, regions))
  BY DEF UserStarts
<1> DEFINE q == Started(elevated, p, regions)
<1>2. Good(q) /\ q.pc = "started" /\ q.origin = p
  BY GoodStart
<1>3. q.nth.nsec = 0
  BY DEF Started, Process
<1>4. HeadersInv(q, image') /\ ImageStep
  <2>1. ImageStep /\ Len(image'.table) \in Nat
    BY SameImage, ImageType DEF UserStarts, ImageStep
  <2> QED BY <1>2, <1>3, <2>1 DEF HeadersInv
<1> HIDE DEF q
<1>5. Becomes(p, q) /\ At(p, "absent")
  BY <1>1 DEF q, UserStarts
<1> QED BY <1>2, <1>4, <1>5, OneChanges

\* The process that hands over has only to end, the new one takes over its start.
LEMMA HandOver ==
  ASSUME SessionInv, NEW p \in Procs, At(p, "relaunch"), NEW x \in Procs,
         NEW regions \in Layouts, At(x, "absent"), UNCHANGED image,
         proc' = [proc EXCEPT ![p].pc = "exit",
                              ![x] = Started(TRUE, proc[p].origin, regions)]
  PROVE  SessionInv'
<1> DEFINE e == [proc[p] EXCEPT !.pc = "exit"]
           n == Started(TRUE, proc[p].origin, regions)
<1>1. /\ Good(proc[p]) /\ proc[p] \in Processes /\ Running(p) /\ p # x
      /\ proc[p].origin \in Procs
  BY DEF SessionInv, Running, At, Processes
<1>2. /\ Good(e) /\ e \in Processes /\ e.pc = "exit" /\ e.nth = proc[p].nth
      /\ e.origin = proc[p].origin
  <2> DEFINE old == proc[p]
  <2>1. old.hooked \in BOOLEAN /\ old.nth \in Images /\ old.nth.nsec = Len(old.nth.table)
    BY <1>1 DEF Good, Processes, CopyInv
  <2>2. e = [old EXCEPT !.pc = "exit", !.hooked = old.hooked, !.nth = old.nth]
    BY <1>1 DEF Processes
  <2>3. Good([old EXCEPT !.pc = "exit", !.hooked = old.hooked, !.nth = old.nth])
    <3>1. "exit" \in Labels \ {"absent", "protect", "write", "restore"}
          /\ "exit" \notin Patching /\ "exit" \in Early /\ old.pc = "relaunch"
      BY DEF Labels, Patching, Early, At
    <3> HIDE DEF old
    <3> QED BY <1>1, <2>1, <3>1, GoodMove DEF old
  <2> QED BY <1>1, <2>2, <2>3 DEF Good, Processes
<1>3. Good(n) /\ n \in Processes /\ n.pc = "started" /\ n.origin = proc[p].origin
  BY <1>1, GoodStart DEF Good
<1>4. n.nth.nsec = 0
  BY DEF Started, Process
<1> HIDE DEF e, n
<1>5. /\ proc' \in [Procs -> Processes] /\ proc'[p] = e /\ proc'[x] = n
      /\ \A y \in Procs \ {p, x} : proc'[y] = proc[y]
  <2>1. proc' = [proc EXCEPT ![p] = e, ![x] = n]
    BY DEF e, n
  <2> QED BY <1>1, <1>2, <1>3, <2>1 DEF SessionInv
<1>6. Len(image.table) \in Nat /\ image' = image
  BY ImageType DEF SessionInv, ImageInv
<1>7. \A y \in Procs : Good(proc'[y]) /\ HeadersInv(proc'[y], image')
  <2>1. HeadersInv(n, image')
    BY <1>3, <1>4, <1>6 DEF HeadersInv
  <2>2. HeadersInv(e, image')
    BY <1>2, <1>6 DEF HeadersInv, SessionInv
  <2> QED BY <1>2, <1>3, <1>5, <1>6, <2>1, <2>2 DEF SessionInv
<1>8. OriginInv'
  <2> SUFFICES ASSUME NEW y \in Procs, Running(y)'
               PROVE  ~At(proc[y].origin, "absent")'
    BY DEF OriginInv
  <2>1. \A z \in Procs : Running(z) => ~At(proc[z].origin, "absent")
    BY DEF SessionInv, OriginInv
  <2>2. \A z \in Procs : ~At(z, "absent") => ~At(z, "absent")'
    BY <1>2, <1>3, <1>5 DEF At
  <2>3. \A z \in Procs : proc[z].origin \in Procs
    BY DEF SessionInv, Processes
  <2>4. CASE y = x
    BY <1>1, <1>3, <1>5, <2>1, <2>2, <2>4
  <2>5. CASE y = p
    BY <1>1, <1>2, <1>5, <2>1, <2>2, <2>5
  <2>6. CASE y \notin {p, x}
    <3>1. proc'[y] = proc[y] /\ Running(y)
      BY <1>5, <2>6 DEF Running
    <3> QED BY <2>1, <2>2, <2>3, <3>1
  <2> QED BY <2>4, <2>5, <2>6
<1>9. OnePatcherPerStart'
  <2> SUFFICES ASSUME NEW y \in Procs, NEW z \in Procs, Active(y)', Active(z)',
                      (proc[y].origin = proc[z].origin)'
               PROVE  y = z
    BY DEF OnePatcherPerStart
  <2>1. y # p /\ z # p
    BY <1>2, <1>5 DEF Active, At
  <2>2. \A u, w \in Procs : Active(u) /\ Active(w) /\ proc[u].origin = proc[w].origin => u = w
    BY DEF SessionInv, OnePatcherPerStart
  <2>3. \A w \in Procs \ {p, x} : Active(w)' => Active(w) /\ proc'[w].origin # proc[p].origin
    BY <1>1, <1>5, <2>2 DEF Active, Running, At
  <2>4. \A w \in Procs \ {p, x} : proc'[w] = proc[w]
    BY <1>5
  <2>5. CASE y # x /\ z # x
    BY <2>1, <2>2, <2>3, <2>4, <2>5
  <2>6. CASE y = x \/ z = x
    BY <1>3, <1>5, <2>1, <2>3, <2>6
  <2> QED BY <2>5, <2>6
<1> QED BY <1>5, <1>6, <1>7, <1>8, <1>9 DEF SessionInv, ImageInv

LEMMA RunPatchStep ==
  ASSUME SessionInv, NEW p \in Procs, RunPatch(p)
  PROVE  SessionInv'
<1> DEFINE q == [proc[p] EXCEPT !.pc = "protect",
                                !.patchAddr = FindPatchAddress(proc[p].memory)]
<1>1. /\ Good(proc[p]) /\ proc[p] \in Processes /\ proc[p].pc \in Patching
      /\ proc[p].pc = "search"
  BY DEF SessionInv, Patching, RunPatch, At
<1>2. Hits(proc[p].memory) # {} /\ Good(q)
  BY <1>1, GoodSearch
<1>3. q.pc = "protect" /\ q.nth = proc[p].nth /\ q.origin = proc[p].origin
  BY <1>1 DEF Processes
<1>4. Becomes(p, q) /\ UNCHANGED image
  BY <1>2 DEF RunPatch
<1> HIDE DEF q
<1> QED BY <1>1, <1>2, <1>3, <1>4, MemoryStep

LEMMA ProtectStep ==
  ASSUME SessionInv, NEW p \in Procs, Protect(p)
  PROVE  SessionInv'
<1> DEFINE r == proc[p].patchAddr.region
           q == [proc[p] EXCEPT !.pc = "write", !.oldProtect = proc[p].memory[r].prot,
                                !.memory[r].prot = "execute_readwrite"]
<1>1. /\ Good(proc[p]) /\ proc[p] \in Processes /\ Running(p) /\ proc[p].pc = "protect"
  BY DEF SessionInv, Running, Protect, At
<1>2. Good(q)
  BY <1>1, GoodProtect
<1>3. q.pc = "write" /\ q.nth = proc[p].nth /\ q.origin = proc[p].origin
  BY <1>1 DEF Processes
<1>4. Becomes(p, q) \/ Becomes(p, Fails(p, {}))
  BY DEF Protect
<1>5. UNCHANGED image /\ proc[p].pc \in Patching
  BY <1>1 DEF Protect, Patching
<1> HIDE DEF q
<1> QED BY <1>1, <1>2, <1>3, <1>4, <1>5, MemoryStep, FailStep

LEMMA WriteStep ==
  ASSUME SessionInv, NEW p \in Procs, Write(p)
  PROVE  SessionInv'
<1> DEFINE a == proc[p].patchAddr
           q == [proc[p] EXCEPT !.pc = "restore",
                                !.memory[a.region].bytes = Patched(@, a.at)]
<1>1. /\ Good(proc[p]) /\ proc[p] \in Processes /\ Running(p) /\ proc[p].pc = "write"
  BY DEF SessionInv, Running, Write, At
<1>2. Good(q)
  BY <1>1, GoodWrite
<1>3. q.pc = "restore" /\ q.nth = proc[p].nth /\ q.origin = proc[p].origin
  BY <1>1 DEF Processes
<1>4. Becomes(p, q) \/ Becomes(p, Fails(p, {}))
  BY DEF Write
<1>5. UNCHANGED image /\ proc[p].pc \in Patching
  BY <1>1 DEF Write, Patching
<1> HIDE DEF q
<1> QED BY <1>1, <1>2, <1>3, <1>4, <1>5, MemoryStep, FailStep

LEMMA RestoreStep ==
  ASSUME SessionInv, NEW p \in Procs, Restore(p)
  PROVE  SessionInv'
<1> DEFINE r == proc[p].patchAddr.region
           q == [proc[p] EXCEPT !.pc = "report", !.told = @ \cup {"lobby patched"},
                                !.memory[r].prot = proc[p].oldProtect]
<1>1. /\ Good(proc[p]) /\ proc[p] \in Processes /\ Running(p) /\ proc[p].pc = "restore"
  BY DEF SessionInv, Running, Restore, At
<1>2. Good(q)
  BY <1>1, GoodRestore
<1>3. q.pc = "report" /\ q.nth = proc[p].nth /\ q.origin = proc[p].origin
  BY <1>1 DEF Processes
<1>4. [Fails(p, {"lobby patched"}) EXCEPT !.memory[r].prot = proc[p].oldProtect] = q
  BY <1>1 DEF Fails, Processes
<1>5. Becomes(p, q) \/ Becomes(p, Fails(p, {}))
  BY <1>4 DEF Restore
<1>6. UNCHANGED image /\ proc[p].pc \in Patching
  BY <1>1 DEF Restore, Patching
<1> HIDE DEF q
<1> QED BY <1>1, <1>2, <1>3, <1>5, <1>6, MemoryStep, FailStep

LEMMA StepInv ==
  ASSUME SessionInv, NEW p \in Procs, UserStarts(p) \/ Run(p) \/ Killed(p)
  PROVE  SessionInv'
<1>1. Good(proc[p])
  BY DEF SessionInv
<1>2. CASE UserStarts(p)
  BY <1>2, UserStartsStep
<1>3. CASE IsRunningAsAdmin(p)
  <2>1. CASE proc[p].elevated /\ Goto(p, "pick")
    BY <1>3, <2>1, GoesTo DEF IsRunningAsAdmin, At
  <2>2. CASE Goto(p, "relaunch")
    BY <1>3, <2>2, GoesTo DEF IsRunningAsAdmin, At
  <2> QED BY <1>3, <2>1, <2>2 DEF IsRunningAsAdmin
<1>4. CASE RelaunchAsAdmin(p)
  <2>1. Running(p) /\ At(p, "relaunch")
    BY <1>4 DEF RelaunchAsAdmin, At, Running
  <2>2. CASE Return(p, {"must be administrator"}) \/ Return(p, {})
    BY <2>1, <2>2, Returns DEF Boxes
  <2>3. CASE \E q \in Procs, regions \in Layouts :
               /\ At(q, "absent")
               /\ proc' = [proc EXCEPT ![p].pc = "exit",
                                       ![q] = Started(TRUE, proc[p].origin, regions)]
               /\ UNCHANGED image
    BY <2>1, <2>3, HandOver
  <2> QED BY <1>4, <2>2, <2>3 DEF RelaunchAsAdmin
<1>5. CASE PickSoulstormExe(p)
  <2>1. proc[p].pc = "pick" /\ Running(p) /\ proc[p].elevated
    BY <1>1, <1>5 DEF PickSoulstormExe, At, Running, Good, Equipped, Early
  <2>2. CASE Goto(p, "locate")
    BY <2>1, <2>2, GoesTo
  <2>3. CASE Return(p, {"no exe selected"})
    BY <2>1, <2>3, Returns DEF Boxes
  <2> QED BY <1>5, <2>2, <2>3 DEF PickSoulstormExe
<1>6. CASE GetSoulstormPath(p)
  <2>1. proc[p].pc = "locate" /\ Running(p) /\ proc[p].elevated
    BY <1>1, <1>6 DEF GetSoulstormPath, At, Running, Good, Equipped, Early
  <2>2. CASE Goto(p, "load")
    BY <2>1, <2>2, GoesTo
  <2>3. CASE Return(p, {"not in registry"}) \/ Return(p, {"no dll"})
    BY <2>1, <2>3, Returns DEF Boxes
  <2> QED BY <1>6, <2>2, <2>3 DEF GetSoulstormPath
<1>7. CASE LoadHook(p)
  BY <1>7, LoadHookStep
<1>8. CASE EnableLAARead(p)
  BY <1>8, ReadStep DEF EnableLAARead
<1>9. CASE EnableLAAWrite(p)
  BY <1>9, EnableLAAWriteStep
<1>10. CASE InjectInjsecRead(p)
  BY <1>10, ReadStep DEF InjectInjsecRead
<1>11. CASE InjectInjsecWrite(p)
  BY <1>11, InjectInjsecWriteStep
<1>12. CASE RunPatch(p)
  BY <1>12, RunPatchStep
<1>13. CASE Protect(p)
  BY <1>13, ProtectStep
<1>14. CASE Write(p)
  BY <1>14, WriteStep
<1>15. CASE Restore(p)
  BY <1>15, RestoreStep
<1>16. CASE Report(p)
  <2>1. Running(p) /\ Return(p, {"success"})
    BY <1>16 DEF Report, At, Running
  <2> QED BY <2>1, Returns DEF Boxes
<1>18. CASE RelaunchExit(p)
  <2>1. Running(p) /\ Return(p, {})
    BY <1>18 DEF RelaunchExit, At, Running
  <2> QED BY <2>1, Returns
<1>17. CASE Killed(p)
  <2>1. Running(p) /\ Return(p, {})
    BY <1>17 DEF Killed, Running
  <2> QED BY <2>1, Returns
<1> QED BY <1>2, <1>3, <1>4, <1>5, <1>6, <1>7, <1>8, <1>9, <1>10, <1>11, <1>12, <1>13,
           <1>14, <1>15, <1>16, <1>17, <1>18 DEF Run

LEMMA SessionInit == Init => SessionInv
<1> SUFFICES ASSUME Init PROVE SessionInv
  OBVIOUS
<1>1. ImageInv /\ Len(image.table) = 0
  <2> DEFINE empty == <<>>
  <2>1. /\ image = [laa |-> image.laa, nsec |-> image.nsec, table |-> image.table]
        /\ image.laa \in BOOLEAN /\ image.nsec = 0 /\ image.table = empty
    <3>1. image \in [laa : BOOLEAN, nsec : {0}, table : {empty}]
      BY DEF Init
    <3> HIDE DEF empty
    <3> QED BY <3>1
  <2>2. empty \in Seq(Procs) /\ Len(empty) = 0
    OBVIOUS
  <2>3. image \in Images
    <3>1. image.nsec \in Nat /\ image.table \in Seq(Procs)
      BY <2>1, <2>2
    <3> HIDE DEF empty
    <3> QED BY <2>1, <3>1 DEF Images
  <2>4. Len(image.table) = 0
    BY <2>1, <2>2
  <2> QED BY <2>1, <2>3, <2>4 DEF ImageInv
<1>2. ASSUME NEW p \in Procs
      PROVE  /\ proc[p] \in Processes /\ proc[p].pc = "absent" /\ proc[p].told = {}
             /\ proc[p].memory = proc[p].layout
             /\ proc[p].nth = [laa |-> FALSE, nsec |-> 0, table |-> <<>>]
  <2>1. proc[p] = Process("absent", FALSE, p, <<>>)
    BY DEF Init, Absent
  <2>2. /\ <<>> \in Regions /\ "absent" \in Labels /\ "free" \in Protections
        /\ [laa |-> FALSE, nsec |-> 0, table |-> <<>>] \in Images
        /\ [region |-> 0, at |-> 0] \in [region : Nat, at : Nat]
    BY DEF Regions, Labels, Protections, Images
  <2> DEFINE nth == [laa |-> FALSE, nsec |-> 0, table |-> <<>>]
             a == [region |-> 0, at |-> 0]
             A == [region : Nat, at : Nat]
             B == SUBSET Boxes
             none == {}
             empty == <<>>
  <2>3. nth \in Images /\ a \in A /\ none \in B /\ empty \in Regions
    BY <2>2
  <2>4. proc[p] = [pc |-> "absent", elevated |-> FALSE, origin |-> p,
                   layout |-> empty, memory |-> empty, patchAddr |-> a,
                   oldProtect |-> "free", nth |-> nth, hooked |-> FALSE, told |-> none]
    BY <2>1 DEF Process
  <2>5. Processes = [pc : Labels, elevated : BOOLEAN, origin : Procs,
                     layout : Regions, memory : Regions, patchAddr : A,
                     oldProtect : Protections, nth : Images, hooked : BOOLEAN, told : B]
    BY DEF Processes
  <2>6. /\ proc[p].pc = "absent" /\ proc[p].told = none /\ proc[p].nth = nth
        /\ proc[p].memory = proc[p].layout
    BY <2>4
  <2>7. proc[p] \in Processes
    <3> HIDE DEF nth, a, A, B, none, empty
    <3> QED BY <2>2, <2>3, <2>4, <2>5
  <2> QED BY <2>6, <2>7
<1>3. \A p \in Procs : Good(proc[p]) /\ HeadersInv(proc[p], image)
  <2> SUFFICES ASSUME NEW p \in Procs PROVE Good(proc[p]) /\ HeadersInv(proc[p], image)
    OBVIOUS
  <2>1. proc[p].nth.nsec = 0 /\ Len(proc[p].nth.table) = 0
    BY <1>2
  <2>2. CopyInv(proc[p]) /\ HeadersInv(proc[p], image)
    <3>1. 0 <= Len(image.table)
      BY <1>1
    <3> QED BY <1>2, <2>1, <3>1 DEF CopyInv, HeadersInv
  <2>3. Equipped(proc[p]) /\ MemoryInv(proc[p])
    BY <1>2 DEF Equipped, MemoryInv, Early, Patching, Untouched
  <2> QED BY <1>2, <2>2, <2>3 DEF Good
<1>4. OriginInv /\ OnePatcherPerStart
  BY <1>2 DEF OriginInv, OnePatcherPerStart, Active, Running
<1>5. proc \in [Procs -> Processes]
  BY <1>2 DEF Init
<1> QED BY <1>1, <1>3, <1>4, <1>5 DEF SessionInv

LEMMA SessionNext == SessionInv /\ [Next]_vars => SessionInv'
<1> SUFFICES ASSUME SessionInv, [Next]_vars PROVE SessionInv'
  OBVIOUS
<1>1. CASE Next
  BY <1>1, StepInv DEF Next
<1>2. CASE UNCHANGED vars
  <2>1. image' = image /\ proc' = proc
    BY <1>2 DEF vars
  <2> QED BY <2>1 DEF SessionInv, ImageInv, Images, OriginInv, OnePatcherPerStart, Active, Running, At
<1> QED BY <1>1, <1>2

\* SessionInv is an invariant: what each process has at each place of WinMain.
THEOREM SessionInductive == Spec => []SessionInv
<1>1. Init => SessionInv
  BY SessionInit
<1>2. SessionInv /\ [Next]_vars => SessionInv'
  BY SessionNext
<1> QED BY <1>1, <1>2, PTL DEF Spec

\* TypeOK: types, and the headers counted by the file and by each copy exist.
THEOREM SessionTypeCorrect == Spec => []TypeOK
<1>1. SessionInv => TypeOK
  BY DEF SessionInv, ImageInv, Good, CopyInv, TypeOK
<1> QED BY <1>1, SessionInductive, PTL

\* OnePatcherPerStart: of the processes of one start, side by side while one
\* hands over, no two ever get past the relaunch.
THEOREM OnePatcherPerStartHolds == Spec => []OnePatcherPerStart
<1>1. SessionInv => OnePatcherPerStart
  BY DEF SessionInv
<1> QED BY <1>1, SessionInductive, PTL

\* SearchSucceeds: the search of RunPatch, which meets its own constant, never
\* fails.
THEOREM SearchSucceedsHolds == Spec => []SearchSucceeds
<1>1. SessionInv => SearchSucceeds
  BY DEF SessionInv, Good, MemoryInv, SearchSucceeds
<1> QED BY <1>1, SessionInductive, PTL

\* PatchExact: the search misses nothing, only the first place of the signature and the protection of its
\* region change, and the box of PatchMultiplayerLobby tells the truth.
THEOREM PatchExactHolds == Spec => []PatchExact
<1>1. SessionInv => PatchExact
  BY DEF SessionInv, Good, MemoryInv, PatchExact, SearchSucceeds
<1> QED BY <1>1, SessionInductive, PTL

-----------------------------------------------------------------------------
(***************************************************************************)
(* Steps                                                                   *)
(***************************************************************************)

\* The file is changed by the two writes only.
LEMMA ImageEffect ==
  ASSUME NEW p \in Procs, UserStarts(p) \/ Run(p) \/ Killed(p)
  PROVE  UNCHANGED image \/ EnableLAAWrite(p) \/ InjectInjsecWrite(p)
BY DEF UserStarts, Run, Killed, IsRunningAsAdmin, RelaunchAsAdmin, RelaunchExit, PickSoulstormExe,
       GetSoulstormPath, LoadHook, EnableLAARead, InjectInjsecRead, ReadHeaders, RunPatch,
       Protect, Write, Restore, Report, Goto, Return

\* A write changes the place of its process, which has the rights and the DLL.
LEMMA WriterReady ==
  ASSUME SessionInv, NEW p \in Procs, EnableLAAWrite(p) \/ InjectInjsecWrite(p)
  PROVE  Writes(p) /\ Ready(p)
<1>1. proc \in [Procs -> Processes] /\ proc[p] \in Processes /\ Equipped(proc[p])
  BY DEF SessionInv, Good
<1>2. proc[p].pc \in {"laa write", "inject write"}
  BY DEF EnableLAAWrite, InjectInjsecWrite, At
<1>3. proc'[p].pc \in {"inject", "search"}
  <2>1. \A next : [proc[p] EXCEPT !.pc = next].pc = next
    BY <1>1 DEF Processes
  <2> QED BY <1>1, <2>1 DEF EnableLAAWrite, InjectInjsecWrite, Becomes
<1>4. proc[p].elevated /\ proc[p].hooked
  BY <1>1, <1>2 DEF Equipped, Patching, Early
<1> QED BY <1>2, <1>3, <1>4 DEF Writes, Ready

LEMMA LaaStep ==
  ASSUME SessionInv, NEW p \in Procs, EnableLAAWrite(p)
  PROVE  image'.laa /\ image'.table = image.table /\ image'.nsec = proc[p].nth.nsec
BY DEF SessionInv, ImageInv, Images, EnableLAAWrite

\* LaaSticks: whichever copies of the headers are written, the flag stays.
THEOREM LaaSticksHolds == Spec => LaaSticks
<1>1. SessionInv /\ [Next]_vars => [image.laa => image'.laa]_vars
  <2> SUFFICES ASSUME SessionInv, Next, image.laa PROVE image'.laa
    BY DEF vars
  <2>1. PICK p \in Procs : UserStarts(p) \/ Run(p) \/ Killed(p)
    BY DEF Next
  <2>2. CASE UNCHANGED image
    BY <2>2
  <2>3. CASE EnableLAAWrite(p)
    BY <2>3, LaaStep
  <2>4. CASE InjectInjsecWrite(p)
    BY <2>4, Injected
  <2> QED BY <2>1, <2>2, <2>3, <2>4, ImageEffect
<1> QED BY <1>1, SessionInductive, PTL DEF Spec, LaaSticks

\* A write from an up to date copy keeps all that was added.
LEMMA FreshKeeps ==
  ASSUME SessionInv, NEW p \in Procs, EnableLAAWrite(p) \/ InjectInjsecWrite(p), ~Stale(p)
  PROVE  Added(image) \subseteq Added(image')
<1> DEFINE n == image.nsec
<1>1. n \in Nat /\ image \in Images /\ image.table \in Seq(Procs) /\ n <= Len(image.table)
  BY ImageType DEF SessionInv, ImageInv
<1>2. proc[p].nth = [image EXCEPT !.table = SubSeq(@, 1, n)]
  BY DEF Stale, Headers
<1>3. proc[p].nth.nsec = n /\ proc[p].nth.table = SubSeq(image.table, 1, n)
  BY <1>1, <1>2 DEF Images
<1>4. \A k \in 1 .. n : proc[p].nth.table[k] = image.table[k]
  BY <1>1, <1>3
<1>5. CASE EnableLAAWrite(p)
  BY <1>3, <1>5, LaaStep DEF Added
<1>6. CASE InjectInjsecWrite(p)
  <2>1. image'.nsec = n + 1 /\ \A k \in 1 .. n : image'.table[k] = image.table[k]
    BY <1>3, <1>4, <1>6, Injected
  <2>2. \A k \in 1 .. n : k \in 1 .. n + 1
    BY <1>1
  <2> QED BY <2>1, <2>2 DEF Added
<1> QED BY <1>5, <1>6

\* OnlyStaleCopiesDrop: a section is lost to a stale copy or not at all.
THEOREM OnlyStaleCopiesDropHolds == Spec => OnlyStaleCopiesDrop
<1> DEFINE A == \/ Added(image) \subseteq Added(image')
                \/ \E p \in Procs : Writes(p) /\ Stale(p)
<1>1. SessionInv /\ [Next]_vars => [A]_vars
  <2> SUFFICES ASSUME SessionInv, Next PROVE A
    BY DEF vars
  <2>1. PICK p \in Procs : UserStarts(p) \/ Run(p) \/ Killed(p)
    BY DEF Next
  <2>2. CASE UNCHANGED image
    BY <2>2 DEF Added
  <2>3. CASE EnableLAAWrite(p) \/ InjectInjsecWrite(p)
    BY <2>3, FreshKeeps, WriterReady
  <2> QED BY <2>1, <2>2, <2>3, ImageEffect
<1> QED BY <1>1, SessionInductive, PTL DEF Spec, OnlyStaleCopiesDrop

\* A process that changes its memory, and not by starting, is inside
\* PatchMultiplayerLobby.
LEMMA MemoryEffect ==
  ASSUME SessionInv, NEW p \in Procs, UserStarts(p) \/ Run(p) \/ Killed(p),
         NEW x \in Procs, Touches(x)
  PROVE  x = p /\ proc[p].pc \in {"protect", "write", "restore"}
<1>1. proc \in [Procs -> Processes] /\ proc[p] \in Processes
  BY DEF SessionInv
<1>2. ASSUME NEW q, Becomes(p, q), q.memory = proc[p].memory \/ q.pc = "started"
      PROVE  FALSE
  BY <1>1, <1>2 DEF Becomes, Touches
<1>3. ASSUME NEW q, Becomes(p, q) PROVE x = p
  BY <1>1, <1>3 DEF Becomes, Touches
<1>4. ASSUME NEW pc, Goto(p, pc) PROVE FALSE
  <2>1. [proc[p] EXCEPT !.pc = pc].memory = proc[p].memory
    BY <1>1 DEF Processes
  <2> QED BY <1>2, <1>4, <2>1 DEF Goto
<1>5. ASSUME NEW boxes, Return(p, boxes) PROVE FALSE
  <2>1. Ended(p, boxes).memory = proc[p].memory
    BY <1>1 DEF Processes, Ended
  <2> QED BY <1>2, <1>5, <2>1 DEF Return
<1>6. ~UserStarts(p)
  <2>1. \A elevated, regions : Started(elevated, p, regions).pc = "started"
    BY DEF Started, Process
  <2> QED BY <1>2, <2>1 DEF UserStarts
<1>7. ~RelaunchAsAdmin(p)
  <2>1. ASSUME NEW q \in Procs, NEW regions \in Layouts, At(p, "relaunch"), At(q, "absent"),
               proc' = [proc EXCEPT ![p].pc = "exit",
                                    ![q] = Started(TRUE, proc[p].origin, regions)]
        PROVE  FALSE
    <3>1. [proc[p] EXCEPT !.pc = "exit"].memory = proc[p].memory
      BY <1>1 DEF Processes
    <3>2. Started(TRUE, proc[p].origin, regions).pc = "started"
      BY DEF Started, Process
    <3> DEFINE e == [proc[p] EXCEPT !.pc = "exit"]
               n == Started(TRUE, proc[p].origin, regions)
    <3> HIDE DEF e, n
    <3>3. proc' = [proc EXCEPT ![p] = e, ![q] = n] /\ e.memory = proc[p].memory
          /\ n.pc = "started"
      BY <2>1, <3>1, <3>2 DEF e, n
    <3> QED BY <1>1, <3>3 DEF Touches
  <2> QED BY <1>5, <2>1 DEF RelaunchAsAdmin
<1>8. ~(IsRunningAsAdmin(p) \/ RelaunchExit(p) \/ PickSoulstormExe(p) \/ GetSoulstormPath(p)
          \/ Report(p) \/ Killed(p))
  BY <1>4, <1>5 DEF IsRunningAsAdmin, RelaunchExit, PickSoulstormExe, GetSoulstormPath, Report, Killed
<1>9. ~LoadHook(p)
  <2>1. [proc[p] EXCEPT !.pc = "laa", !.hooked = TRUE].memory = proc[p].memory
    BY <1>1 DEF Processes
  <2> QED BY <1>2, <1>5, <2>1 DEF LoadHook
<1>10. ~(EnableLAARead(p) \/ InjectInjsecRead(p))
  <2>1. \A next, nth : [proc[p] EXCEPT !.pc = next, !.nth = nth].memory = proc[p].memory
    BY <1>1 DEF Processes
  <2> QED BY <1>2, <1>5, <2>1 DEF EnableLAARead, InjectInjsecRead, ReadHeaders
<1>11. ~(EnableLAAWrite(p) \/ InjectInjsecWrite(p))
  <2>1. \A next : [proc[p] EXCEPT !.pc = next].memory = proc[p].memory
    BY <1>1 DEF Processes
  <2> QED BY <1>2, <2>1 DEF EnableLAAWrite, InjectInjsecWrite
<1>12. ~RunPatch(p)
  <2>1. Fails(p, {"no patch address"}).memory = proc[p].memory
    BY <1>1 DEF Processes, Fails
  <2>2. \A a : [proc[p] EXCEPT !.pc = "protect", !.patchAddr = a].memory = proc[p].memory
    BY <1>1 DEF Processes
  <2> QED BY <1>2, <2>1, <2>2 DEF RunPatch
<1>13. Protect(p) \/ Write(p) \/ Restore(p)
  BY <1>6, <1>7, <1>8, <1>9, <1>10, <1>11, <1>12 DEF Run
<1>14. x = p
  BY <1>3, <1>13 DEF Protect, Write, Restore
<1> QED BY <1>13, <1>14 DEF Protect, Write, Restore, At

\* OnlyReadyPatches: no step before the elevation and the DLL changes anything.
THEOREM OnlyReadyPatchesHolds == Spec => OnlyReadyPatches
<1> DEFINE A == /\ image' # image => \E p \in Procs : Writes(p) /\ Ready(p)
                /\ \A p \in Procs : Touches(p) => Ready(p)
<1>1. SessionInv /\ [Next]_vars => [A]_vars
  <2> SUFFICES ASSUME SessionInv, Next PROVE A
    BY DEF vars
  <2>1. PICK p \in Procs : UserStarts(p) \/ Run(p) \/ Killed(p)
    BY DEF Next
  <2>2. image' # image => Writes(p) /\ Ready(p)
    BY <2>1, ImageEffect, WriterReady
  <2>3. ASSUME NEW x \in Procs, Touches(x) PROVE Ready(x)
    <3>1. x = p /\ proc[p].pc \in {"protect", "write", "restore"}
      BY <2>1, <2>3, MemoryEffect
    <3> QED BY <3>1 DEF SessionInv, Good, Equipped, Patching, Early, Ready
  <2> QED BY <2>2, <2>3
<1> QED BY <1>1, SessionInductive, PTL DEF Spec, OnlyReadyPatches
=============================================================================

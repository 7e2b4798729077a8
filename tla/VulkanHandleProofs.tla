------------------------- MODULE VulkanHandleProofs -------------------------
(***************************************************************************)
(* Direct3D 9 over Vulkan: the handles.  Nothing outlives what it was made *)
(* from, and an object that has been deleted leaves nothing behind, with   *)
(* the exceptions the properties name.                                     *)
(***************************************************************************)
EXTENDS VulkanProofs

\* What the handles depend on.
Keeping == <<phase, step, gpuVars>>

HandlesInv == HandleInv /\ PartsInv

-----------------------------------------------------------------------------
\* The tables.
LEMMA PartTables ==
  /\ Len(ParentParts) = 11 /\ \A k \in 1 .. 11 : ParentParts[k] \in ParentKinds
  /\ \A kind \in ParentKinds : \E k \in 1 .. 11 : ParentParts[k] = kind
  /\ Len(DeviceParts) = 7 /\ \A k \in 1 .. 7 : DeviceParts[k] \in DeviceKinds
  /\ \A k \in 1 .. 7 : DeviceParts[k] \notin {"image", "imageMemory"}
<1>1. Len(ParentParts) = 11 /\ \A k \in 1 .. 11 : ParentParts[k] \in ParentKinds
  BY DEF ParentParts, ParentKinds
<1>2. Len(DeviceParts) = 7 /\ \A k \in 1 .. 7 : DeviceParts[k] \in DeviceKinds
  BY DEF DeviceParts, DeviceKinds
<1>3. \A k \in 1 .. 7 : DeviceParts[k] \notin {"image", "imageMemory"}
  BY DEF DeviceParts
<1>4. \A kind \in ParentKinds : \E k \in 1 .. 11 : ParentParts[k] = kind
  <2>1. /\ ParentParts[1] = "sdl" /\ ParentParts[2] = "window" /\ ParentParts[3] = "instance"
        /\ ParentParts[4] = "surface" /\ ParentParts[5] = "device"
        /\ ParentParts[6] = "swapchain" /\ ParentParts[7] = "view"
        /\ ParentParts[8] = "renderpass" /\ ParentParts[9] = "framebuffer"
        /\ ParentParts[10] = "cmdpool" /\ ParentParts[11] = "cmdbuf"
    BY DEF ParentParts
  <2>2. /\ 1 \in 1 .. 11 /\ 2 \in 1 .. 11 /\ 3 \in 1 .. 11 /\ 4 \in 1 .. 11 /\ 5 \in 1 .. 11
        /\ 6 \in 1 .. 11 /\ 7 \in 1 .. 11 /\ 8 \in 1 .. 11 /\ 9 \in 1 .. 11
        /\ 10 \in 1 .. 11 /\ 11 \in 1 .. 11
    OBVIOUS
  <2>3. QED
    BY <2>1, <2>2 DEF ParentKinds
<1>5. QED
  BY <1>1, <1>2, <1>3, <1>4

\* The stages of the destructors.
LEMMA StageTables ==
  /\ Len(ParentStages) = 10 /\ Len(DeviceStages) = 7
  /\ \A kind \in ParentKinds : \E k \in 1 .. 10 : kind \in StageKinds(ParentStages[k])
  /\ \A kind \in DeviceKinds \ {"vert", "frag", "image", "imageMemory"} :
       \E k \in 1 .. 7 : kind \in StageKinds(DeviceStages[k])
<1>1. Len(ParentStages) = 10 /\ Len(DeviceStages) = 7
  BY DEF ParentStages, DeviceStages
<1>2. \A kind \in ParentKinds : \E k \in 1 .. 10 : kind \in StageKinds(ParentStages[k])
  <2>1. /\ ParentStages[1] = "framebuffer" /\ ParentStages[2] = "renderpass"
        /\ ParentStages[3] = "view" /\ ParentStages[4] = "swapchain"
        /\ ParentStages[5] = "cmdpool" /\ ParentStages[6] = "device"
        /\ ParentStages[7] = "surface" /\ ParentStages[8] = "instance"
        /\ ParentStages[9] = "window" /\ ParentStages[10] = "sdl"
    BY DEF ParentStages
  <2>2. /\ 1 \in 1 .. 10 /\ 2 \in 1 .. 10 /\ 3 \in 1 .. 10 /\ 4 \in 1 .. 10 /\ 5 \in 1 .. 10
        /\ 6 \in 1 .. 10 /\ 7 \in 1 .. 10 /\ 8 \in 1 .. 10 /\ 9 \in 1 .. 10
        /\ 10 \in 1 .. 10
    OBVIOUS
  <2>3. QED
    BY <2>1, <2>2 DEF ParentKinds, StageKinds, Lists
<1>3. \A kind \in DeviceKinds \ {"vert", "frag", "image", "imageMemory"} :
        \E k \in 1 .. 7 : kind \in StageKinds(DeviceStages[k])
  <2>1. /\ DeviceStages[1] = "vertex" /\ DeviceStages[2] = "index"
        /\ DeviceStages[3] = "pipeline" /\ DeviceStages[4] = "layout"
        /\ DeviceStages[5] = "imageSem" /\ DeviceStages[6] = "renderSem"
        /\ DeviceStages[7] = "fence"
    BY DEF DeviceStages
  <2>2. /\ 1 \in 1 .. 7 /\ 2 \in 1 .. 7 /\ 3 \in 1 .. 7 /\ 4 \in 1 .. 7 /\ 5 \in 1 .. 7
        /\ 6 \in 1 .. 7 /\ 7 \in 1 .. 7
    OBVIOUS
  <2>3. QED
    BY <2>1, <2>2 DEF DeviceKinds, StageKinds, Lists, MemoryOf
<1>4. QED
  BY <1>1, <1>2, <1>3

\* Steps that leave the handles and who keeps them alone.
LEMMA KeptStep ==
  ASSUME HandlesInv, UNCHANGED Keeping
  PROVE  HandlesInv'
BY DEF HandlesInv, HandleInv, PartsInv, Kept, PartMade, Keeping, gpuVars

\* The handles stay, one object enters a phase in which it keeps them.
LEMMA PhaseStep ==
  ASSUME TypeOK, HandlesInv, NEW o \in Objects, NEW ph \in Phases,
         phase' = [phase EXCEPT ![o] = ph], UNCHANGED <<step, gpuVars>>,
         \/ phase[o] = "none" /\ ph = "building"
         \/ phase[o] = "building" /\ ph = "failed"
         \/ phase[o] = "live" /\ ph = "dying"
  PROVE  HandlesInv'
<1> USE DEF gpuVars
<1>1. phase'[o] = ph /\ \A p \in Objects : p # o => phase'[p] = phase[p]
  BY DEF TypeOK, TypesOfLifetimes
<1>2. \A h \in created \ abandoned : h.owner \in Objects
  BY DEF TypeOK, TypesOfHandles, Handles
<1>3. phase[o] \in {"none", "live"} => step[o] = 1 /\ 1 .. step[o] - 1 = {}
  BY DEF HandlesInv, HandleInv
<1>4. ASSUME NEW h \in created' \ abandoned' PROVE Kept(h, h.owner)'
  <2>1. h \in created \ abandoned /\ Kept(h, h.owner)
    BY DEF HandlesInv, HandleInv
  <2>2. CASE h.owner = o
    BY <2>1, <2>2, <1>1, <1>3 DEF Kept
  <2>3. CASE h.owner # o
    BY <2>1, <2>3, <1>1, <1>2 DEF Kept
  <2>4. QED
    BY <2>2, <2>3
<1>5. HandleInv'
  BY <1>1, <1>4 DEF HandlesInv, HandleInv
<1>6. PartsInv'
  <2>1. CASE o # Parent
    BY <2>1, <1>1 DEF HandlesInv, PartsInv, PartMade, Objects
  <2>2. CASE o = Parent
    <3>1. phase[Parent] = "none" => members[Parent] = {}
      BY <2>2 DEF HandlesInv, HandleInv
    <3>2. QED
      BY <2>2, <3>1, <1>1, <1>3 DEF HandlesInv, PartsInv, PartMade
  <2>3. QED
    BY <2>1, <2>2
<1>7. QED
  BY <1>5, <1>6 DEF HandlesInv

\* A constructor creates its next part.
LEMMA ConstructKeeps ==
  ASSUME TypeOK, HandlesInv, NEW o \in Objects, Construct(o)
  PROVE  HandlesInv'
<1> DEFINE h == Handle(o, Part(o), 0)
<1>1. /\ phase[o] = "building" /\ Building(o)
      /\ step' = [step EXCEPT ![o] = @ + 1]
      /\ created' \in {created, created \cup {h}}
      /\ created' = created => o # Parent \/ h \in created
      /\ members' = IF Part(o) \in Shaders THEN members ELSE [members EXCEPT ![o] = @ \cup {h}]
      /\ UNCHANGED <<phase, abandoned>>
  <2>1. o = Parent => Part(o) \notin Unchecked
    BY PartKind DEF Construct, ParentKinds, Unchecked
  <2>2. QED
    BY <2>1 DEF Construct, Building
<1>2. h.owner = o /\ h.kind = Part(o) /\ h.n = 0
  BY DEF Handle
<1>3. /\ \A p \in Objects : p # o => members'[p] = members[p] /\ step'[p] = step[p]
      /\ members'[o] = IF Part(o) \in Shaders THEN members[o] ELSE members[o] \cup {h}
      /\ step'[o] = step[o] + 1 /\ step[o] \in Nat \ {0}
  BY <1>1 DEF TypeOK, TypesOfHandles
<1>4. \/ Part(o) \in Shaders /\ o # Parent
      \/ Part(o) \notin Shaders /\ Part(o) \in MemberKinds(o)
  <2>1. step[o] \in 1 .. Len(Parts(o))
    BY <1>1, <1>3, PartTables DEF Building, Parts
  <2>2. Part(o) \notin {"image", "imageMemory"} \/ o = Parent
    BY <2>1, PartTables DEF Part, Parts
  <2>3. Part(o) \in IF o = Parent THEN ParentKinds ELSE DeviceKinds
    BY <1>1, PartKind
  <2>4. QED
    BY <2>2, <2>3 DEF MemberKinds, Shaders, ParentKinds
<1>5. ASSUME NEW g \in created' \ abandoned' PROVE Kept(g, g.owner)'
  <2>1. CASE g \in created
    <3>1. Kept(g, g.owner) /\ g.owner \in Objects
      BY <1>1, <2>1 DEF HandlesInv, HandleInv, TypeOK, TypesOfHandles, Handles
    <3>2. CASE g.owner = o
      BY <3>1, <3>2, <1>1, <1>3 DEF Kept
    <3>3. CASE g.owner # o
      BY <3>1, <3>3, <1>1, <1>3 DEF Kept
    <3>4. QED
      BY <3>2, <3>3
  <2>2. CASE g \notin created
    <3>1. g = h
      BY <1>1, <2>2
    <3>2. QED
      BY <3>1, <1>1, <1>2, <1>3, <1>4 DEF Kept
  <2>3. QED
    BY <2>1, <2>2
<1>6. HandleInv'
  <2>1. \A p \in Objects : \A g \in members'[p] : g.owner = p /\ g.kind \in MemberKinds(p)
    BY <1>2, <1>3, <1>4 DEF HandlesInv, HandleInv
  <2>2. QED
    BY <2>1, <1>1, <1>3, <1>5 DEF HandlesInv, HandleInv
<1>7. PartsInv'
  <2>1. created \subseteq created'
    BY <1>1
  <2>2. CASE o # Parent
    BY <2>1, <2>2, <1>1, <1>3 DEF HandlesInv, PartsInv, PartMade, Objects
  <2>3. CASE o = Parent
    <3>1. h \in created' /\ Part(o) = ParentParts[step[o]]
      BY <2>3, <1>1 DEF Part, Parts
    <3>2. Handle(Parent, ParentParts[step[o]], 0) \in created'
      BY <2>3, <3>1
    <3>3. \A k \in 1 .. step'[o] - 1 : k = step[o] \/ k \in 1 .. step[o] - 1
      BY <1>3
    <3>4. \A k \in 1 .. step'[o] - 1 : PartMade(ParentParts[k])'
      BY <2>1, <2>3, <3>2, <3>3, <1>1 DEF HandlesInv, PartsInv, PartMade
    <3>5. step[o] \in 1 .. 11 /\ step[o] < step'[o]
      <4>1. step[o] <= 11
        BY <2>3, <1>1, PartTables DEF Building, Parts
      <4>2. QED
        BY <4>1, <1>3
    <3>6. \A g \in members'[o] :
            \E k \in 1 .. 11 : k < step'[o] /\ g.kind = ParentParts[k]
      BY <2>3, <3>1, <3>5, <1>1, <1>2, <1>3 DEF HandlesInv, PartsInv
    <3>7. QED
      BY <2>3, <3>4, <3>6, <1>1 DEF PartsInv
  <2>4. QED
    BY <2>2, <2>3
<1>8. QED
  BY <1>6, <1>7 DEF HandlesInv

\* A constructor is done, and its shader modules are destroyed.
LEMMA ConstructedKeeps ==
  ASSUME TypeOK, HandlesInv, NEW o \in Objects, Constructed(o)
  PROVE  HandlesInv'
<1>1. /\ phase[o] = "building" /\ step[o] > Len(Parts(o))
      /\ phase' = [phase EXCEPT ![o] = "live"] /\ step' = [step EXCEPT ![o] = 1]
      /\ created' = created \ {Handle(o, kind, 0) : kind \in Shaders}
      /\ UNCHANGED <<members, abandoned>>
  BY DEF Constructed
<1>2. /\ \A p \in Objects : p # o => phase'[p] = phase[p] /\ step'[p] = step[p]
      /\ phase'[o] = "live" /\ step'[o] = 1
  BY <1>1 DEF TypeOK, TypesOfLifetimes, TypesOfHandles
<1>3. ASSUME NEW g \in created' \ abandoned' PROVE Kept(g, g.owner)'
  <2>1. Kept(g, g.owner) /\ g \in Handles
    BY <1>1 DEF HandlesInv, HandleInv, TypeOK, TypesOfHandles
  <2>2. CASE g.owner = o
    <3>1. g = Handle(o, g.kind, g.n)
      BY <2>1, <2>2 DEF Handles, Handle
    <3>2. ~(g.kind \in Shaders /\ g.n = 0)
      BY <3>1, <1>1
    <3>3. g \in members[o]
      BY <2>1, <2>2, <3>2, <1>1 DEF Kept
    <3>4. QED
      BY <2>2, <3>3, <1>1, <1>2 DEF Kept
  <2>3. CASE g.owner # o
    BY <2>1, <2>3, <1>1, <1>2 DEF Kept, Handles
  <2>4. QED
    BY <2>2, <2>3
<1>4. HandleInv'
  BY <1>1, <1>2, <1>3 DEF HandlesInv, HandleInv
<1>5. \A kind \in ParentKinds : PartMade(kind) => PartMade(kind)'
  BY <1>1 DEF PartMade, Handle, Shaders, ParentKinds
<1>6. PartsInv'
  <2>1. CASE o # Parent
    <3>1. /\ phase'[Parent] = phase[Parent] /\ step'[Parent] = step[Parent]
          /\ members' = members
      BY <2>1, <1>1, <1>2 DEF Objects
    <3>2. phase[Parent] = "building" => \A k \in 1 .. step[Parent] - 1 : PartMade(ParentParts[k])'
      <4>1. \A s : Handle(Parent, s, 0) \in created => Handle(Parent, s, 0) \in created'
        BY <2>1, <1>1 DEF Handle
      <4>2. QED
        BY <4>1 DEF HandlesInv, PartsInv, PartMade
    <3>3. QED
      BY <3>1, <3>2, <1>5 DEF HandlesInv, PartsInv
  <2>2. CASE o = Parent
    <3>1. \A kind \in ParentKinds : PartMade(kind)
      <4>1. step[Parent] > 11 /\ step[Parent] \in Nat
        BY <2>2, <1>1, PartTables DEF Parts, TypeOK, TypesOfHandles
      <4>2. \A k \in 1 .. 11 : PartMade(ParentParts[k])
        BY <2>2, <4>1, <1>1 DEF HandlesInv, PartsInv
      <4>3. QED
        BY <4>2, PartTables
    <3>2. QED
      BY <2>2, <3>1, <1>2, <1>5 DEF PartsInv
  <2>3. QED
    BY <2>1, <2>2
<1>7. QED
  BY <1>4, <1>6 DEF HandlesInv

\* The next stage of a destructor.
LEMMA DestroyKeeps ==
  ASSUME TypeOK, HandlesInv, NEW o \in Objects, phase[o] = "dying",
         step[o] <= Len(Stages(o)),
         created' = created \ {h \in members[o] : h.kind \in StageKinds(Stages(o)[step[o]])},
         step' = [step EXCEPT ![o] = @ + 1], UNCHANGED <<phase, members, abandoned>>
  PROVE  HandlesInv'
<1>1. /\ \A p \in Objects : p # o => step'[p] = step[p]
      /\ step'[o] = step[o] + 1 /\ step[o] \in Nat \ {0}
  BY DEF TypeOK, TypesOfHandles
<1>2. /\ \A k \in 1 .. step'[o] - 1 : k = step[o] \/ k \in 1 .. step[o] - 1
      /\ step[o] \in 1 .. step'[o] - 1 /\ 1 .. step[o] - 1 \subseteq 1 .. step'[o] - 1
  BY <1>1
<1>3. \A h \in members[o] : h.owner = o
  BY DEF HandlesInv, HandleInv
<1>4. ASSUME NEW g \in created' \ abandoned' PROVE Kept(g, g.owner)'
  <2>1. g \in created \ abandoned /\ Kept(g, g.owner) /\ g.owner \in Objects
    BY DEF HandlesInv, HandleInv, TypeOK, TypesOfHandles, Handles
  <2>2. CASE g.owner = o
    <3>1. /\ g \in members[o] /\ g.kind \notin StageKinds(Stages(o)[step[o]])
          /\ \A k \in 1 .. step[o] - 1 : g.kind \notin StageKinds(Stages(o)[k])
      BY <2>1, <2>2 DEF Kept
    <3>2. \A k \in 1 .. step'[o] - 1 : g.kind \notin StageKinds(Stages(o)[k])
      BY <3>1, <1>2
    <3>3. QED
      BY <2>2, <3>1, <3>2 DEF Kept
  <2>3. CASE g.owner # o
    BY <2>1, <2>3, <1>1 DEF Kept
  <2>4. QED
    BY <2>2, <2>3
<1>5. HandleInv'
  BY <1>1, <1>4 DEF HandlesInv, HandleInv
<1>6. PartsInv'
  <2>1. CASE o # Parent
    <3>1. \A s : Handle(Parent, s, 0) \in created => Handle(Parent, s, 0) \in created'
      BY <2>1, <1>3 DEF Handle
    <3>2. step'[Parent] = step[Parent]
      BY <2>1, <1>1 DEF Objects
    <3>3. QED
      BY <3>1, <3>2 DEF HandlesInv, PartsInv, PartMade
  <2>2. CASE o = Parent
    <3>1. ASSUME NEW kind \in ParentKinds
          PROVE  \/ PartMade(kind)'
                 \/ \E k \in 1 .. 10 : /\ k < step'[Parent]
                                       /\ kind \in StageKinds(ParentStages[k])
      <4>1. \/ PartMade(kind)
            \/ \E k \in 1 .. 10 : k < step[Parent] /\ kind \in StageKinds(ParentStages[k])
        BY <2>2 DEF HandlesInv, PartsInv
      <4>2. Handle(Parent, kind, 0).kind = kind /\ Stages(Parent) = ParentStages
        BY DEF Handle, Stages
      <4>3. PartMade(kind) => PartMade(kind)' \/ kind \in StageKinds(ParentStages[step[Parent]])
        BY <2>2, <4>2 DEF PartMade
      <4>4. step[Parent] \in 1 .. 10 /\ step[Parent] < step'[Parent]
        <5>1. step[Parent] <= 10
          BY <2>2, StageTables DEF Stages
        <5>2. QED
          BY <2>2, <5>1, <1>1
      <4>5. \A k \in 1 .. 10 : k < step[Parent] => k < step'[Parent]
        BY <2>2, <1>1
      <4>6. QED
        BY <4>1, <4>3, <4>4, <4>5
    <3>2. QED
      BY <2>2, <3>1 DEF PartsInv
  <2>3. QED
    BY <2>1, <2>2
<1>7. QED
  BY <1>5, <1>6 DEF HandlesInv

\* A destructor is done: every stage is past.
LEMMA DestroyedKeeps ==
  ASSUME TypeOK, HandlesInv, NEW o \in Objects, phase[o] = "dying",
         step[o] > Len(Stages(o)), phase' = [phase EXCEPT ![o] = "gone"],
         members' = [members EXCEPT ![o] = {}], UNCHANGED <<step, created, abandoned>>
  PROVE  HandlesInv'
<1>1. /\ phase'[o] = "gone" /\ members'[o] = {}
      /\ \A p \in Objects : p # o => phase'[p] = phase[p] /\ members'[p] = members[p]
  BY DEF TypeOK, TypesOfLifetimes, TypesOfHandles
<1>2. \A kind \in MemberKinds(o) :
        \E k \in 1 .. step[o] - 1 : kind \in StageKinds(Stages(o)[k])
  <2>1. step[o] \in Nat
    BY DEF TypeOK, TypesOfHandles
  <2>2. CASE o = Parent
    <3>1. step[o] > 10
      BY <2>2, StageTables DEF Stages
    <3>2. 1 .. 10 \subseteq 1 .. step[o] - 1
      BY <2>1, <3>1
    <3>3. QED
      BY <2>2, <3>2, StageTables DEF MemberKinds, Stages
  <2>3. CASE o # Parent
    <3>1. step[o] > 7
      BY <2>3, StageTables DEF Stages
    <3>2. 1 .. 7 \subseteq 1 .. step[o] - 1
      BY <2>1, <3>1
    <3>3. QED
      BY <2>3, <3>2, StageTables DEF MemberKinds, Stages
  <2>4. QED
    BY <2>2, <2>3
<1>3. ASSUME NEW g \in created' \ abandoned' PROVE Kept(g, g.owner)'
  <2>1. Kept(g, g.owner) /\ g.owner \in Objects
    BY DEF HandlesInv, HandleInv, TypeOK, TypesOfHandles, Handles
  <2>2. g.owner # o
    BY <2>1, <1>2 DEF Kept, HandlesInv, HandleInv
  <2>3. QED
    BY <2>1, <2>2, <1>1 DEF Kept
<1>4. HandleInv'
  BY <1>1, <1>3 DEF HandlesInv, HandleInv
<1>5. PartsInv'
  <2>1. CASE o # Parent
    BY <2>1, <1>1 DEF HandlesInv, PartsInv, PartMade, Objects
  <2>2. CASE o = Parent
    BY <2>2, <1>1 DEF PartsInv
  <2>3. QED
    BY <2>1, <2>2
<1>6. QED
  BY <1>4, <1>5 DEF HandlesInv

\* A live device keeps a buffer, or loses an object.
LEMMA ObtainKeeps ==
  ASSUME TypeOK, HandlesInv, NEW d \in Devices, phase[d] = "live",
         NEW hs \in SUBSET Handles, \A h \in hs : h.owner = d,
         \/ Keep(hs, d) /\ \A h \in hs : h.kind \in MemberKinds(d)
         \/ Lose(hs)
  PROVE  HandlesInv'
<1> USE VulkanAssumption
<1>1. d \in Objects /\ d # Parent
  BY DEF Objects
<1>2. UNCHANGED <<phase, step>> /\ created' = created \cup hs
  BY DEF Keep, Lose, objVars
<1>3. /\ \A p \in Objects : p # d => members'[p] = members[p]
      /\ members[d] \subseteq members'[d] /\ members'[d] \subseteq members[d] \cup hs
      /\ \A h \in members'[d] : h \in members[d] \/ h.kind \in MemberKinds(d)
      /\ hs \subseteq members'[d] \cup abandoned' /\ abandoned \subseteq abandoned'
      /\ abandoned' \subseteq abandoned \cup hs
  <2>1. CASE Keep(hs, d) /\ \A h \in hs : h.kind \in MemberKinds(d)
    BY <2>1, <1>1 DEF Keep, TypeOK, TypesOfHandles
  <2>2. CASE Lose(hs)
    BY <2>2, <1>1 DEF Lose, TypeOK, TypesOfHandles
  <2>3. QED
    BY <2>1, <2>2
<1>4. ASSUME NEW g \in created' \ abandoned' PROVE Kept(g, g.owner)'
  <2>1. CASE g \in created
    <3>1. Kept(g, g.owner) /\ g.owner \in Objects
      BY <2>1, <1>3 DEF HandlesInv, HandleInv, TypeOK, TypesOfHandles, Handles
    <3>2. members[g.owner] \subseteq members'[g.owner]
      BY <3>1, <1>3
    <3>3. QED
      BY <3>1, <3>2, <1>2 DEF Kept
  <2>2. CASE g \notin created
    BY <2>2, <1>2, <1>3 DEF Kept
  <2>3. QED
    BY <2>1, <2>2
<1>5. HandleInv'
  <2>1. \A p \in Objects : \A g \in members'[p] : g.owner = p /\ g.kind \in MemberKinds(p)
    BY <1>3 DEF HandlesInv, HandleInv
  <2>2. \A h \in abandoned' : h.owner # Parent
    BY <1>1, <1>3 DEF HandlesInv, HandleInv
  <2>3. \A p \in Objects : phase'[p] = "none" => members'[p] = {}
    BY <1>2, <1>3 DEF HandlesInv, HandleInv
  <2>4. QED
    BY <2>1, <2>2, <2>3, <1>2, <1>4 DEF HandlesInv, HandleInv
<1>6. PartsInv'
  <2>1. members'[Parent] = members[Parent] /\ created \subseteq created'
    BY <1>1, <1>2, <1>3 DEF Objects
  <2>2. QED
    BY <2>1, <1>2 DEF HandlesInv, PartsInv, PartMade
<1>7. QED
  BY <1>5, <1>6 DEF HandlesInv

-----------------------------------------------------------------------------
\* The calls that obtain an object hold a live device.
LEMMA ObtainCallKeeps ==
  ASSUME TypeOK, VulkanInv, HandlesInv, NEW r \in Refs,
         (\E list \in Lists : CreateBuffer(r, list)) \/ CreateTexture(r) \/ DrawUP(r)
  PROVE  HandlesInv'
<1>1. ASSUME Fault("parentGone") \/ Fault("unmade") PROVE HandlesInv'
  BY <1>1, KeptStep DEF Fault, Keeping, objVars
<1>2. \A d \in Devices : Holds(r, d) => phase[d] = "live"
  <2>1. \A d \in Devices : d \in Objects /\ d # Parent
    BY VulkanAssumption DEF Objects
  <2>2. QED
    BY <2>1, HeldIsLive
<1>3. ASSUME NEW d \in Devices, NEW n \in Free(d), NEW kind \in Lists \cup {"image"}
      PROVE  /\ Pair(d, kind, n) \in SUBSET Handles /\ {Handle(d, kind, n)} \in SUBSET Handles
             /\ \A h \in Pair(d, kind, n) \cup {Handle(d, kind, n)} : h.owner = d
             /\ kind \in Lists => \A h \in Pair(d, kind, n) : h.kind \in MemberKinds(d)
  <2>1. n \in Nat /\ d \in Objects /\ d # Parent
    BY VulkanAssumption DEF Free, Objects
  <2>2. /\ Handle(d, kind, n).owner = d /\ Handle(d, MemoryOf(kind), n).owner = d
        /\ Handle(d, kind, n).kind = kind
        /\ Handle(d, MemoryOf(kind), n).kind = MemoryOf(kind)
    BY DEF Handle
  <2>3. /\ kind \in DeviceKinds /\ MemoryOf(kind) \in DeviceKinds
        /\ kind \in Lists => kind \in MemberKinds(d) /\ MemoryOf(kind) \in MemberKinds(d)
    BY <2>1 DEF MemoryOf, Lists, DeviceKinds, MemberKinds
  <2>4. Handle(d, kind, n) \in Handles /\ Handle(d, MemoryOf(kind), n) \in Handles
    BY <2>1, <2>3 DEF Handle, Handles
  <2>5. QED
    BY <2>2, <2>3, <2>4 DEF Pair
<1>4. CASE (\E list \in Lists : CreateBuffer(r, list)) \/ CreateTexture(r)
  <2>1. PICK d \in Devices, kind \in Lists \cup {"image"}, kept \in BOOLEAN :
          (kept => kind \in Lists) /\ Method(r, d, Obtain(d, kind, kept))
    BY <1>4 DEF CreateBuffer, CreateTexture
  <2>2. CASE Fault("parentGone") \/ Fault("unmade")
    BY <2>2, <1>1
  <2>3. CASE ~(Fault("parentGone") \/ Fault("unmade"))
    <3>1. Holds(r, d) /\ Obtain(d, kind, kept)
      BY <2>1, <2>3 DEF Method, Calls
    <3>2. PICK n \in Free(d) : \/ kept /\ Keep(Pair(d, kind, n), d)
                               \/ Lose(Pair(d, kind, n))
                               \/ Lose({Handle(d, kind, n)})
      BY <2>3, <3>1 DEF Obtain
    <3>3. QED
      BY <2>1, <3>1, <3>2, <1>2, <1>3, ObtainKeeps
  <2>4. QED
    BY <2>2, <2>3
<1>5. CASE DrawUP(r)
  <2>1. PICK d \in Devices :
          /\ Holds(r, d)
          /\ \/ Fault("parentGone") \/ Fault("unmade")
             \/ Draws(d, [frame[d] EXCEPT !.stale = TRUE])
             \/ \E n \in Free(d), kinds \in {{"vertex"}, Lists} :
                  Lose({Handle(d, kind, n) : kind \in kinds})
    BY <1>5 DEF DrawUP, Method, Calls
  <2>2. CASE Draws(d, [frame[d] EXCEPT !.stale = TRUE])
    BY <2>2, KeptStep DEF Draws, Keeping, objVars
  <2>3. ASSUME NEW n \in Free(d), NEW kinds \in {{"vertex"}, Lists},
               Lose({Handle(d, kind, n) : kind \in kinds})
        PROVE  HandlesInv'
    <3> DEFINE hs == {Handle(d, kind, n) : kind \in kinds}
    <3>1. hs \in SUBSET Handles /\ \A h \in hs : h.owner = d
      BY <1>3 DEF Lists
    <3>2. QED
      BY <2>1, <2>3, <3>1, <1>2, ObtainKeeps
  <2>4. QED
    BY <2>1, <2>2, <2>3, <1>1
<1>6. QED
  BY <1>4, <1>5

\* No object of the wrapper exists at first, so none has a handle to lose.
THEOREM HandlesInit == Init => HandlesInv
<1> SUFFICES ASSUME Init PROVE HandlesInv
  OBVIOUS
<1>1. \A o \in Objects : phase[o] = "none" /\ step[o] = 1 /\ members[o] = {}
  BY DEF Init
<1>2. created = {} /\ abandoned = {} /\ Parent \in Objects
  BY DEF Init, Objects
<1>3. QED
  BY <1>1, <1>2 DEF HandlesInv, HandleInv, PartsInv

\* No call of the game or of the wrapper's destructors breaks what is said of the
\* handles, the counts being right.
THEOREM HandlesStepSafe ==
  TypeOK /\ VulkanInv /\ HandlesInv /\ [Next]_vars => HandlesInv'
<1> SUFFICES ASSUME TypeOK, VulkanInv, HandlesInv, [Next]_vars PROVE HandlesInv'
  OBVIOUS
<1>0. ASSUME NEW kind, Fault(kind) PROVE HandlesInv'
  BY <1>0, KeptStep DEF Fault, Keeping, objVars
<1>1. ASSUME NEW o \in Objects,
             Construct(o) \/ Throw(o) \/ ConstructFault(o) \/ Constructed(o)
      PROVE  HandlesInv'
  <2>1. CASE Throw(o)
    BY <2>1, PhaseStep DEF Throw, Building, Phases
  <2>2. CASE ConstructFault(o)
    BY <2>2, <1>0 DEF ConstructFault
  <2>3. QED
    BY <1>1, <2>1, <2>2, ConstructKeeps, ConstructedKeeps
<1>2. ASSUME NEW r \in Refs, Lifetime(r)
      PROVE  HandlesInv'
  <2>1. CASE Direct3DCreate9(r) \/ \E fresh \in Refs, d \in Devices : CreateDevice(r, fresh, d)
    BY <2>1, PhaseStep DEF Direct3DCreate9, CreateDevice, New, Phases, Objects
  <2>2. CASE \E fresh \in Refs : AddRef(r, fresh) \/ GetDirect3D(r, fresh)
    <3>1. (\E kind : Fault(kind)) \/ UNCHANGED Keeping
      BY <2>2 DEF AddRef, GetDirect3D, Method, Take, Keeping, objVars
    <3>2. QED
      BY <3>1, <1>0, KeptStep
  <2>3. CASE Release(r) \/ ReleaseReturns(r)
    BY <2>3, KeptStep DEF Release, ReleaseReturns, Keeping, objVars
  <2>4. CASE Delete(r)
    BY <2>4, <1>0, PhaseStep DEF Delete, Phases
  <2>5. CASE Destroy(r)
    <3>1. \/ \E kind : Fault(kind)
          \/ \E o \in Objects :
               /\ phase[o] = "dying" /\ step[o] <= Len(Stages(o))
               /\ created' = created \
                    {h \in members[o] : h.kind \in StageKinds(Stages(o)[step[o]])}
               /\ step' = [step EXCEPT ![o] = @ + 1]
               /\ UNCHANGED <<phase, members, abandoned>>
      BY <2>5 DEF Destroy
    <3>2. QED
      BY <3>1, <1>0, DestroyKeeps
  <2>6. CASE Destroyed(r)
    BY <2>6, DestroyedKeeps DEF Destroyed
  <2>7. QED
    BY <1>2, <2>1, <2>2, <2>3, <2>4, <2>5, <2>6 DEF Lifetime
<1>3. ASSUME NEW r \in Refs, Rendering(r)
      PROVE  HandlesInv'
  <2>1. CASE BeginScene(r) \/ EndScene(r) \/ Present(r) \/ Reset(r)
    <3>1. (\E kind : Fault(kind)) \/ UNCHANGED Keeping
      BY <2>1 DEF BeginScene, EndScene, Present, Reset, Method, Draws, Keeping, objVars, vars
    <3>2. QED
      BY <3>1, <1>0, KeptStep
  <2>2. QED
    BY <1>3, <2>1, ObtainCallKeeps DEF Rendering
<1>4. ASSUME NEW d \in Devices, EndWait(d) \/ EndReset(d) \/ Complete(d)
      PROVE  HandlesInv'
  <2>1. (\E kind : Fault(kind)) \/ UNCHANGED Keeping
    BY <1>4 DEF EndWait, EndReset, Complete, Draws, Keeping, objVars
  <2>2. QED
    BY <2>1, <1>0, KeptStep
<1>5. CASE UNCHANGED vars
  BY <1>5, KeptStep DEF vars, objVars, Keeping
<1>6. QED
  BY <1>1, <1>2, <1>3, <1>4, <1>5 DEF Next

\* Types, reference counts and handles are right in every reachable state.
THEOREM HandlesSafe == Spec => [](TypeOK /\ VulkanInv /\ HandlesInv)
<1>1. Init => TypeOK /\ VulkanInv /\ HandlesInv
  BY InitSafe, HandlesInit
<1>2. TypeOK /\ VulkanInv /\ HandlesInv /\ [Next]_vars => (TypeOK /\ VulkanInv /\ HandlesInv)'
  BY StepSafe, HandlesStepSafe
<1>3. QED
  BY <1>1, <1>2, PTL DEF Spec

\* A deleted object leaves nothing behind but textures, and buffers for which no
\* memory was found.
THEOREM NothingLeftHolds == Spec => []NothingLeft
<1>1. HandlesInv => NothingLeft
  BY DEF HandlesInv, HandleInv, NothingLeft, Kept
<1>2. QED
  BY <1>1, HandlesSafe, PTL

-----------------------------------------------------------------------------
\* The constructor of the parent creates what a part is made from before it, ...
LEMMA NeededFirst ==
  ASSUME NEW k \in 1 .. 11, NEW h, h.kind = ParentParts[k], NEW kind \in Needs(h)
  PROVE  \E j \in 1 .. k : ParentParts[j] = kind
<1>1. /\ ParentParts[1] = "sdl" /\ ParentParts[2] = "window" /\ ParentParts[3] = "instance"
      /\ ParentParts[4] = "surface" /\ ParentParts[5] = "device"
      /\ ParentParts[6] = "swapchain" /\ ParentParts[7] = "view"
      /\ ParentParts[8] = "renderpass" /\ ParentParts[9] = "framebuffer"
      /\ ParentParts[10] = "cmdpool" /\ ParentParts[11] = "cmdbuf"
  BY DEF ParentParts
<1>2. CASE k \in 1 .. 4
  BY <1>1, <1>2 DEF Needs
<1>3. CASE k \in 5 .. 7
  BY <1>1, <1>3 DEF Needs
<1>4. CASE k \in 8 .. 9
  BY <1>1, <1>4 DEF Needs
<1>5. CASE k \in 10 .. 11
  BY <1>1, <1>5 DEF Needs
<1>6. QED
  BY <1>2, <1>3, <1>4, <1>5

\* ... and its destructor destroys it after it.
LEMMA NeededLast ==
  ASSUME NEW k \in 1 .. 10, NEW h, h.kind \in ParentKinds, NEW kind \in Needs(h),
         kind \in StageKinds(ParentStages[k])
  PROVE  \E j \in 1 .. k : h.kind \in StageKinds(ParentStages[j])
<1>1. /\ ParentStages[1] = "framebuffer" /\ ParentStages[2] = "renderpass"
      /\ ParentStages[3] = "view" /\ ParentStages[4] = "swapchain"
      /\ ParentStages[5] = "cmdpool" /\ ParentStages[6] = "device"
      /\ ParentStages[7] = "surface" /\ ParentStages[8] = "instance"
      /\ ParentStages[9] = "window" /\ ParentStages[10] = "sdl"
  BY DEF ParentStages
<1> DEFINE Stage(s) == CASE s = "framebuffer" -> 1 [] s = "renderpass" -> 2 [] s = "view" -> 3
                         [] s = "swapchain" -> 4 [] s \in {"cmdpool", "cmdbuf"} -> 5
                         [] s = "device" -> 6 [] s = "surface" -> 7 [] s = "instance" -> 8
                         [] s = "window" -> 9 [] s = "sdl" -> 10
<1>2. kind \in ParentKinds /\ Stage(kind) >= Stage(h.kind)
  BY DEF Needs, ParentKinds
<1>3. \A s \in ParentKinds : Stage(s) \in 1 .. 10 /\ s \in StageKinds(ParentStages[Stage(s)])
  BY <1>1 DEF ParentKinds, StageKinds, Lists
<1>4. k = Stage(kind)
  BY <1>1, <1>2 DEF StageKinds, Lists, ParentKinds
<1> HIDE DEF Stage
<1>5. Stage(h.kind) \in 1 .. k /\ h.kind \in StageKinds(ParentStages[Stage(h.kind)])
  BY <1>2, <1>3, <1>4
<1>6. QED
  BY <1>5

\* What a handle needs exists: for a part of a device, as its parent is live; for
\* a part of the parent, by the order of its constructor and its destructor.
THEOREM OwnersLastHolds == Spec => []OwnersLast
<1>1. TypeOK /\ VulkanInv /\ HandlesInv => OwnersLast
  <2> SUFFICES ASSUME TypeOK, VulkanInv, HandlesInv, ~early, NEW h \in created,
                      h \notin abandoned, phase[h.owner] # "failed", NEW kind \in Needs(h)
               PROVE  Handle(Parent, kind, 0) \in created
    BY DEF OwnersLast
  <2>1. /\ h.owner \in Objects /\ h \in Handles /\ Kept(h, h.owner)
        /\ phase[h.owner] \in {"building", "live", "dying"}
    BY DEF HandlesInv, HandleInv, Kept, TypeOK, TypesOfHandles, TypesOfLifetimes, Handles,
           Phases
  <2>2. kind \in ParentKinds
    BY DEF Needs, ParentKinds
  <2>3. CASE h.owner # Parent
    <3>1. phase[Parent] = "live"
      BY <2>1, <2>3 DEF VulkanInv, ParentKept, HasDevice, Objects
    <3>2. QED
      BY <2>2, <3>1 DEF HandlesInv, PartsInv, PartMade
  <2>4. CASE h.owner = Parent /\ phase[Parent] = "live"
    BY <2>2, <2>4 DEF HandlesInv, PartsInv, PartMade
  <2>5. CASE h.owner = Parent /\ phase[Parent] = "building"
    <3>1. h \in members[Parent]
      BY <2>1, <2>5 DEF Kept
    <3>2. PICK k \in 1 .. 11 : k < step[Parent] /\ h.kind = ParentParts[k]
      BY <2>5, <3>1 DEF HandlesInv, PartsInv
    <3>3. PICK j \in 1 .. k : ParentParts[j] = kind
      BY <3>2, NeededFirst
    <3>4. j \in 1 .. step[Parent] - 1
      BY <3>2, <3>3 DEF TypeOK, TypesOfHandles, Objects
    <3>5. QED
      BY <2>5, <3>3, <3>4 DEF HandlesInv, PartsInv, PartMade
  <2>6. CASE h.owner = Parent /\ phase[Parent] = "dying"
    <3>1. /\ h \in members[Parent] /\ h.kind \in ParentKinds
          /\ \A k \in 1 .. step[Parent] - 1 : h.kind \notin StageKinds(ParentStages[k])
      BY <2>1, <2>6 DEF Kept, HandlesInv, HandleInv, MemberKinds, Stages, Objects
    <3>2. ASSUME NEW k \in 1 .. 10, k < step[Parent], kind \in StageKinds(ParentStages[k])
          PROVE  FALSE
      <4>1. PICK j \in 1 .. k : h.kind \in StageKinds(ParentStages[j])
        BY <3>1, <3>2, NeededLast
      <4>2. j \in 1 .. step[Parent] - 1
        BY <3>2, <4>1 DEF TypeOK, TypesOfHandles, Objects
      <4>3. QED
        BY <3>1, <4>1, <4>2
    <3>3. QED
      BY <2>2, <2>6, <3>2 DEF HandlesInv, PartsInv, PartMade
  <2>7. QED
    BY <2>1, <2>3, <2>4, <2>5, <2>6
<1>2. QED
  BY <1>1, HandlesSafe, PTL
=============================================================================

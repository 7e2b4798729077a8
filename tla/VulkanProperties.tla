-------------------------- MODULE VulkanProperties --------------------------
(***************************************************************************)
(* What holds of Direct3D 9 over Vulkan while clients take, hand on and    *)
(* release references from any thread: see VulkanD3D9.                     *)
(***************************************************************************)
EXTENDS VulkanD3D9

Phases == {"none", "building", "live", "dying", "gone", "failed"}
ParentKinds == {"sdl", "window", "instance", "surface", "device", "swapchain", "view",
                "renderpass", "framebuffer", "cmdpool", "cmdbuf"}
DeviceKinds == {"imageSem", "renderSem", "fence", "layout", "vert", "frag", "pipeline",
                "vertex", "vertexMemory", "index", "indexMemory", "image", "imageMemory"}
Handles == [owner : Objects, kind : ParentKinds \cup DeviceKinds, n : Nat]
Frames == [scene : {"idle", "recording", "submitted", "waited"}, stale : BOOLEAN,
           imaged : BOOLEAN, rendered : BOOLEAN, signaled : BOOLEAN,
           pending : Nat, feeding : Nat, refused : BOOLEAN]
Faults == {"none", "parentGone", "adapter", "doubleDelete", "unmade", "inUse",
           "nullIndex", "semaphore", "fence", "stale"}

\* Types; above all no reference count goes below zero.
TypesOfLifetimes ==
  /\ phase \in [Objects -> Phases]
  /\ caller \in [Objects -> Refs \cup {Null}]
  /\ refCount \in [Objects -> Nat]
  /\ target \in [Refs -> Objects \cup {Null}]
  /\ releasing \in [Refs -> Objects \cup {Null}]
  /\ count \in [Refs -> Nat]
  /\ early \in BOOLEAN
TypesOfHandles ==
  /\ step \in [Objects -> Nat \ {0}]
  /\ members \in [Objects -> SUBSET Handles]
  /\ created \subseteq Handles
  /\ abandoned \subseteq Handles
TypeOK ==
  /\ TypesOfLifetimes /\ TypesOfHandles
  /\ frame \in [Devices -> Frames]
  /\ fault \in Faults

-----------------------------------------------------------------------------
\* The pointers that refer to an object, and those about to delete it.
Pointers(o) == {r \in Refs : target[r] = o}
Deleters(o) == {r \in Refs : releasing[r] = o /\ count[r] = 0}

\* AddRef, Release and QueryInterface from any number of threads: the count of
\* an object is the number of its pointers; no pointer is left to an object
\* that is being deleted, and exactly one thread deletes an object, the one
\* whose decrement reached zero.  The latter holds of the parent until a client
\* lets go of it with a device left: GetDirect3D may then revive a count of zero.
CountExact(o) == phase[o] = "failed" \/ refCount[o] = Cardinality(Pointers(o))
DeletedOnce(o) ==
  /\ phase[o] \notin {"building", "live"} => Pointers(o) = {}
  /\ \A r \in Deleters(o) :
       /\ phase[o] \in {"live", "dying"} /\ Pointers(o) = {} /\ Deleters(o) = {r}
       /\ phase[o] = "dying" => caller[o] = r
LifetimeSafe == \A o \in Objects :
  CountExact(o) /\ (o # Parent \/ ~early => DeletedOnce(o))

\* A device does not keep its parent alive.  All the same no device reaches a
\* parent that is gone, and nothing is deleted twice, unless a client released
\* its last pointer to the parent while it had a device: pointers got by
\* GetDirect3D, and calls that create a device, keep the parent as they should.
ParentLostOnlyEarly == fault \in {"parentGone", "doubleDelete"} => early

\* The objects each Vulkan object is made from.
Needs(h) ==
  CASE h.kind \in {"sdl", "instance"} -> {}
    [] h.kind = "window"      -> {"sdl"}
    [] h.kind = "surface"     -> {"window", "instance"}
    [] h.kind = "device"      -> {"instance"}
    [] h.kind = "swapchain"   -> {"device", "surface"}
    [] h.kind = "view"        -> {"device", "swapchain"}
    [] h.kind = "framebuffer" -> {"device", "view", "renderpass"}
    [] h.kind = "cmdbuf"      -> {"device", "cmdpool"}
    [] OTHER                  -> {"device"}

\* Nothing outlives what it was made from, but what was lost before (textures,
\* buffers without memory, what a constructor that threw had created) and the
\* parts of a device whose parent was released early.
OwnersLast == ~early => \A h \in created :
  \/ h \in abandoned \/ phase[h.owner] = "failed"
  \/ \A kind \in Needs(h) : Handle(Parent, kind, 0) \in created

\* An object that has been deleted leaves nothing behind that it had created,
\* but the textures and the buffers for which no memory was found.
NothingLeft == \A h \in created : phase[h.owner] = "gone" => h \in abandoned

\* The fence is created signaled, so the first EndScene does not wait; the lag
\* never grows: when a scene begins, at most one earlier one is unfinished.
FrameLag == \A d \in Devices :
  frame[d].scene \in {"idle", "recording"} => frame[d].pending <= 1

\* EndScene drops the result of its submission, resets the fence whatever came of
\* it, and waits without a limit.  What that can cost is one scene: EndScene waits
\* for ever only when its own submission was refused.  Otherwise the fence is
\* signaled or a submission under way is going to signal it, whatever became of
\* the scenes before.  A scene without an image is not part of this: submitted,
\* it waits for a semaphore that nothing signals, and the run ends in a fault.
WaitAnswered == \A d \in Devices :
  frame[d].scene = "submitted" =>
    frame[d].signaled \/ frame[d].feeding > 0 \/ frame[d].refused

-----------------------------------------------------------------------------
\* What makes these inductive.  A call of several steps is made through a
\* pointer that stays: CreateDevice through one to the parent, EndScene through
\* one to the device, a destructor through the pointer that was released.
CallInv ==
  /\ \A o \in Objects :
       /\ phase[o] \in {"none", "failed"} => Pointers(o) = {}
       /\ phase[o] = "building" => caller[o] \in Pointers(Parent)
       /\ phase[o] = "dying" => caller[o] \in Deleters(o)
  /\ \A r \in Refs : releasing[r] = Null \/ target[r] = Null
  /\ \A d \in Devices : frame[d].scene \in {"submitted", "waited"} =>
       phase[d] = "live" /\ caller[d] \in Pointers(d)

\* A device has a parent, until a client lets go of the parent.
ParentKept ==
  /\ ~early /\ HasDevice => phase[Parent] = "live" /\ Pointers(Parent) # {}
  /\ early => phase[Parent] \in {"live", "dying", "gone"}

\* The fence is signaled, or will be, once for every submission but the oldest.
FrameOK(f) ==
  /\ f.feeding <= f.pending
  /\ f.scene \in {"idle", "recording"} => f.pending <= 1 /\ (f.signaled => f.pending = 0)
  /\ f.scene = "submitted" =>
       /\ f.pending <= 2 /\ (f.signaled => f.pending <= 1)
       /\ f.signaled \/ f.feeding > 0 \/ f.refused
  /\ f.scene = "waited" => f.pending <= 1 /\ f.signaled

FrameInv == \A d \in Devices : FrameOK(frame[d])

VulkanInv == LifetimeSafe /\ CallInv /\ ParentKept /\ ParentLostOnlyEarly /\ FrameInv

\* Who keeps a handle: a constructor's locals or the fields of the object, and in
\* a destructor only the handles of the stages to come.
Kept(h, o) ==
  CASE phase[o] = "building" -> \/ h \in members[o]
                                \/ o # Parent /\ h.kind \in Shaders /\ h.n = 0
    [] phase[o] = "live"     -> h \in members[o]
    [] phase[o] = "dying"    -> h \in members[o] /\ \A k \in 1 .. step[o] - 1 :
                                                      h.kind \notin StageKinds(Stages(o)[k])
    [] phase[o] = "failed"   -> TRUE
    [] OTHER                 -> FALSE
MemberKinds(o) ==
  IF o = Parent THEN ParentKinds
  ELSE DeviceKinds \ {"vert", "frag", "image", "imageMemory"}
HandleInv ==
  /\ \A h \in created \ abandoned : Kept(h, h.owner)
  /\ \A o \in Objects : \A h \in members[o] : h.owner = o /\ h.kind \in MemberKinds(o)
  /\ \A h \in abandoned : h.owner # Parent
  /\ \A o \in Objects : phase[o] \in {"none", "live"} => step[o] = 1
  /\ \A o \in Objects : phase[o] = "none" => members[o] = {}

\* The parts of the parent that exist: a prefix of what its constructor creates,
\* or what the stages to come of its destructor destroy.
PartMade(kind) == Handle(Parent, kind, 0) \in created
PartsInv ==
  /\ phase[Parent] = "building" =>
       /\ \A k \in 1 .. step[Parent] - 1 : PartMade(ParentParts[k])
       /\ \A h \in members[Parent] :
            \E k \in 1 .. 11 : k < step[Parent] /\ h.kind = ParentParts[k]
  /\ phase[Parent] = "live" => \A kind \in ParentKinds : PartMade(kind)
  /\ phase[Parent] = "dying" => \A kind \in ParentKinds :
       \/ PartMade(kind)
       \/ \E k \in 1 .. 10 : k < step[Parent] /\ kind \in StageKinds(ParentStages[k])
=============================================================================

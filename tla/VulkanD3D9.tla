----------------------------- MODULE VulkanD3D9 -----------------------------
(***************************************************************************)
(* Direct3D 9 over Vulkan, "GDI HOOKING DLL/dllmain.cpp": the lifetimes of *)
(* one SDL_Vulkan_D3D9 (the parent) and of the SDL_Vulkan_D3D9Devices made *)
(* from it, of the Vulkan objects they own, and the fence of a frame.      *)
(*                                                                         *)
(* The clients are pointers, each with at most one reference to an object; *)
(* any two may be used by different threads.  AddRef, Release and          *)
(* QueryInterface may be called at any time, the other methods of a device *)
(* by one thread at a time, as Direct3D asks.  Constructors and            *)
(* destructors walk the tables of what they create and destroy.            *)
(*                                                                         *)
(* The first undefined behaviour ends a behaviour of the model: `fault'    *)
(* says which it was, and nothing is claimed of what follows it.           *)
(***************************************************************************)
EXTENDS Integers, Sequences, FiniteSets

CONSTANTS Refs,        \* the pointers of the clients
          Parent,      \* the IDirect3D9
          Devices,     \* the IDirect3DDevice9s that may be made from it
          Null,
          MaxObjects   \* bound: buffers and textures a device has at a time

Objects == Devices \cup {Parent}

ASSUME VulkanAssumption ==
  /\ Parent \notin Devices /\ Null \notin Objects \cup Refs
  /\ IsFiniteSet(Refs) /\ MaxObjects \in Nat

-----------------------------------------------------------------------------
\* What the constructors create, in order.
ParentParts == <<"sdl", "window", "instance", "surface", "device", "swapchain", "view",
                 "renderpass", "framebuffer", "cmdpool", "cmdbuf">>
DeviceParts == <<"imageSem", "renderSem", "fence", "layout", "vert", "frag", "pipeline">>
Parts(o) == IF o = Parent THEN ParentParts ELSE DeviceParts

\* Creations whose result nobody looks at, and shader modules that live in
\* locals until the pipeline has been made.
Unchecked == {"imageSem", "renderSem", "fence"}
Shaders   == {"vert", "frag"}

\* What the destructors destroy, in order; a command buffer goes with its pool.
\* Mutants: the device is destroyed before its swapchain; the index buffers are
\* forgotten.
HastyParentStages == <<"framebuffer", "renderpass", "view", "device", "swapchain",
                       "cmdpool", "surface", "instance", "window", "sdl">>
ParentStages == <<"framebuffer", "renderpass", "view", "swapchain", "cmdpool", "device",
                  "surface", "instance", "window", "sdl">>
ShortDeviceStages ==
  <<"vertex", "pipeline", "layout", "imageSem", "renderSem", "fence">>
DeviceStages == <<"vertex", "index", "pipeline", "layout", "imageSem", "renderSem", "fence">>
Stages(o) == IF o = Parent THEN ParentStages ELSE DeviceStages

Lists == {"vertex", "index"}   \* the two pairs of vectors of a device
MemoryOf(kind) == CASE kind = "vertex" -> "vertexMemory"
                    [] kind = "index"  -> "indexMemory"
                    [] kind = "image"  -> "imageMemory"
StageKinds(stage) ==
  CASE stage \in Lists    -> {stage, MemoryOf(stage)}
    [] stage = "cmdpool"  -> {"cmdpool", "cmdbuf"}
    [] OTHER              -> {stage}

\* A Vulkan or SDL object: who had it made, its kind, and a number.
Handle(o, kind, n) == [owner |-> o, kind |-> kind, n |-> n]
Pair(d, kind, n)   == {Handle(d, kind, n), Handle(d, MemoryOf(kind), n)}

VARIABLES phase,       \* of each object: none, building, live, dying, gone, or failed
          step,        \* its place in the tables above
          caller,      \* the pointer whose call is under way in it
          refCount,
          target,      \* the object a client's pointer refers to
          releasing,   \* the object whose Release a pointer is in
          count,       \* the local of that Release
          created,     \* the handles that exist
          members,     \* the handles an object keeps in its fields
          abandoned,   \* ghost: handles that no variable keeps
          frame,       \* of each device: its scene, fence and submissions
          early,       \* ghost: the parent's count reached zero while it had a device
          fault        \* the undefined behaviour that ended the run

objVars == <<phase, step, caller>>
refVars == <<refCount, target, releasing, count>>
gpuVars == <<created, members, abandoned>>
vars    == <<objVars, refVars, gpuVars, frame, early, fault>>

\* Two semaphores, imaged and rendered, and the fence, which is created signaled.
\* `feeding' of the `pending' submissions, the last ones, are still going to
\* signal it.  The ghost refused: the submission of this very scene failed.
NoFrame == [scene |-> "idle", stale |-> FALSE, imaged |-> FALSE, rendered |-> FALSE,
            signaled |-> TRUE, pending |-> 0, feeding |-> 0, refused |-> FALSE]

Init ==
  /\ phase = [o \in Objects |-> "none"] /\ step = [o \in Objects |-> 1]
  /\ caller = [o \in Objects |-> Null] /\ refCount = [o \in Objects |-> 0]
  /\ target = [r \in Refs |-> Null] /\ releasing = [r \in Refs |-> Null]
  /\ count = [r \in Refs |-> 0]
  /\ created = {} /\ members = [o \in Objects |-> {}] /\ abandoned = {}
  /\ frame = [d \in Devices |-> NoFrame]
  /\ early = FALSE /\ fault = "none"

Fault(kind) == fault' = kind /\ UNCHANGED <<objVars, refVars, gpuVars, frame, early>>

\* Undefined behaviour ends the run.
Running == fault = "none"

\* A pointer is unused, or may be used: no call through it is under way.
Unused(r)   == target[r] = Null /\ releasing[r] = Null
InCall(r)   == \E o \in Objects : caller[o] = r \/ (target[r] = o /\ phase[o] = "building")
Holds(r, o) == Running /\ target[r] = o /\ ~InCall(r)

\* Everything a device does goes through parent->vkDevice.
ParentLost(o) == o # Parent /\ phase[Parent] # "live"

-----------------------------------------------------------------------------
\* `new' in Direct3DCreate9 and in CreateDevice: a constructor starts.
New(o, r, by) ==
  /\ Running /\ phase[o] = "none" /\ Unused(r)
  /\ phase' = [phase EXCEPT ![o] = "building"]
  /\ caller' = [caller EXCEPT ![o] = by]
  /\ refCount' = [refCount EXCEPT ![o] = 1]
  /\ target' = [target EXCEPT ![r] = o]
  /\ UNCHANGED <<step, releasing, count, gpuVars, frame, early, fault>>

Direct3DCreate9(r) == New(Parent, r, r)
CreateDevice(r, fresh, d) == Holds(r, Parent) /\ New(d, fresh, r)

\* A constructor creates its next part ...
Building(o) == Running /\ phase[o] = "building" /\ step[o] <= Len(Parts(o))
Part(o)     == Parts(o)[step[o]]

Construct(o) == LET h == Handle(o, Part(o), 0) IN
  /\ Building(o) /\ ~ParentLost(o)
  /\ step' = [step EXCEPT ![o] = @ + 1]
  /\ \/ created' = created \cup {h}
     \/ Part(o) \in Unchecked /\ created' = created
  /\ members' = IF Part(o) \in Shaders THEN members
                ELSE [members EXCEPT ![o] = @ \cup {h}]
  /\ UNCHANGED <<phase, caller, refVars, abandoned, frame, early, fault>>

\* ... or is refused and throws: the destructor does not run, and what has been
\* created is lost.
Throw(o) ==
  /\ Building(o) /\ ~ParentLost(o) /\ Part(o) \notin Unchecked
  /\ phase' = [phase EXCEPT ![o] = "failed"]
  /\ caller' = [caller EXCEPT ![o] = Null]
  /\ target' = [r \in Refs |-> IF target[r] = o THEN Null ELSE target[r]]
  /\ UNCHANGED <<step, refCount, releasing, count, gpuVars, frame, early, fault>>

\* The parent takes devices[0] unseen; a device needs its parent.
ConstructFault(o) ==
  /\ Building(o)
  /\ \/ ParentLost(o) /\ Fault("parentGone")
     \/ Part(o) = "device" /\ Fault("adapter")

Constructed(o) ==
  /\ Running /\ phase[o] = "building" /\ step[o] > Len(Parts(o))
  /\ phase' = [phase EXCEPT ![o] = "live"]
  /\ step' = [step EXCEPT ![o] = 1]
  /\ caller' = [caller EXCEPT ![o] = Null]
  /\ created' = created \ {Handle(o, kind, 0) : kind \in Shaders}
  /\ UNCHANGED <<refVars, members, abandoned, frame, early, fault>>

-----------------------------------------------------------------------------
\* One more pointer to an object, counted.  Mutant: not counted.
HandOut(o, fresh) ==
  /\ Unused(fresh)
  /\ target' = [target EXCEPT ![fresh] = o]
  /\ UNCHANGED <<objVars, refCount, releasing, count, gpuVars, frame, early, fault>>
Take(o, fresh) ==
  /\ Unused(fresh)
  /\ refCount' = [refCount EXCEPT ![o] = @ + 1]
  /\ target' = [target EXCEPT ![fresh] = o]
  /\ UNCHANGED <<objVars, releasing, count, gpuVars, frame, early, fault>>

\* AddRef, and QueryInterface for an interface the object has.
AddRef(r, fresh) == \E o \in Objects : Holds(r, o) /\ Take(o, fresh)

\* A method of a device other than these: one thread at a time.
Calls(r, d) == Holds(r, d) /\ caller[d] = Null
Method(r, d, Body) == Calls(r, d) /\ IF ParentLost(d) THEN Fault("parentGone") ELSE Body

\* Mutant: GetDirect3D does not AddRef the parent.
GetDirect3DUncounted(r, fresh) == \E d \in Devices : Method(r, d, HandOut(Parent, fresh))
GetDirect3D(r, fresh) == \E d \in Devices : Method(r, d, Take(Parent, fresh))

\* The count of the parent knows nothing of its devices.
HasDevice == \E d \in Devices : phase[d] \in {"building", "live", "dying"}

\* Release: the interlocked decrement, whose result is kept in a local, ...
Release(r) == \E o \in Objects :
  /\ Holds(r, o)
  /\ refCount' = [refCount EXCEPT ![o] = @ - 1]
  /\ target' = [target EXCEPT ![r] = Null]
  /\ releasing' = [releasing EXCEPT ![r] = o]
  /\ count' = [count EXCEPT ![r] = refCount[o] - 1]
  /\ early' = (early \/ (o = Parent /\ refCount[o] = 1 /\ HasDevice))
  /\ UNCHANGED <<objVars, gpuVars, frame, fault>>

\* ... and the test of the local.  Mutant: the shared count is read again.
CountReadAgain(r) == refCount[releasing[r]]
Count(r) == count[r]

Return(r) ==
  /\ releasing' = [releasing EXCEPT ![r] = Null]
  /\ count' = [count EXCEPT ![r] = 0]
  /\ UNCHANGED <<refCount, target, early, fault>>

ReleaseReturns(r) ==
  /\ Running /\ releasing[r] # Null /\ Count(r) # 0
  /\ Return(r) /\ UNCHANGED <<objVars, gpuVars, frame>>

\* `delete this'.
Delete(r) == \E o \in Objects :
  /\ Running /\ releasing[r] = o /\ Count(r) = 0 /\ caller[o] # r
  /\ IF phase[o] # "live" THEN Fault("doubleDelete")
     ELSE /\ phase' = [phase EXCEPT ![o] = "dying"]
          /\ caller' = [caller EXCEPT ![o] = r]
          /\ UNCHANGED <<step, refVars, gpuVars, frame, early, fault>>

\* The destructor destroys what its fields hold, stage by stage.  It does not
\* wait for the GPU.
Destroy(r) == \E o \in Objects :
  /\ Running /\ phase[o] = "dying" /\ caller[o] = r /\ step[o] <= Len(Stages(o))
  /\ LET hs == {h \in members[o] : h.kind \in StageKinds(Stages(o)[step[o]])}
     IN  IF ParentLost(o) /\ hs # {} THEN Fault("parentGone")
         ELSE IF ~(hs \subseteq created) THEN Fault("unmade")
         ELSE \/ /\ created' = created \ hs
                 /\ step' = [step EXCEPT ![o] = @ + 1]
                 /\ UNCHANGED <<phase, caller, refVars, members, abandoned, frame, early,
                                fault>>
              \/ (\E d \in Devices : o \in {d, Parent} /\ frame[d].pending > 0)
                 /\ Fault("inUse")

Destroyed(r) == \E o \in Objects :
  /\ Running /\ phase[o] = "dying" /\ caller[o] = r /\ step[o] > Len(Stages(o))
  /\ phase' = [phase EXCEPT ![o] = "gone"]
  /\ caller' = [caller EXCEPT ![o] = Null]
  /\ members' = [members EXCEPT ![o] = {}]
  /\ frame' = [d \in Devices |-> IF d = o THEN NoFrame ELSE frame[d]]
  /\ Return(r) /\ UNCHANGED <<step, created, abandoned>>

-----------------------------------------------------------------------------
\* A buffer or an image, and memory for it.  FindMemoryType throws when no
\* memory is suitable; neither creation is looked at.
Free(d) == {n \in 1 .. MaxObjects : \A h \in created : h.owner # d \/ h.n # n}
Keep(hs, d) ==
  /\ created' = created \cup hs
  /\ members' = [members EXCEPT ![d] = @ \cup hs]
  /\ UNCHANGED <<objVars, refVars, abandoned, frame, early, fault>>
Lose(hs) ==
  /\ created' = created \cup hs /\ abandoned' = abandoned \cup hs
  /\ UNCHANGED <<objVars, refVars, members, frame, early, fault>>

Obtain(d, kind, kept) == \E n \in Free(d) :
  \/ IF kept THEN Keep(Pair(d, kind, n), d) ELSE Lose(Pair(d, kind, n))
  \/ Lose({Handle(d, kind, n)})
  \/ Fault("unmade")

\* CreateVertexBuffer and CreateIndexBuffer keep what they make in the vectors,
\* CreateTexture gives the image away and forgets the memory.
CreateBuffer(r, list) == \E d \in Devices : Method(r, d, Obtain(d, list, TRUE))
CreateTexture(r)      == \E d \in Devices : Method(r, d, Obtain(d, "image", FALSE))

-----------------------------------------------------------------------------
\* The methods that change the frame and nothing else.
Draws(d, f) == /\ frame' = [frame EXCEPT ![d] = f]
               /\ UNCHANGED <<objVars, refVars, gpuVars, early, fault>>
Made(d, kind) == Handle(d, kind, 0) \in created

\* BeginScene: acquire, with a null image index, and record, in the one command
\* buffer of the parent, whether or not an earlier scene still uses it.  When the
\* acquire fails nobody notices, and nothing will signal its semaphore; a second
\* signal, which no submission has waited for in between, is a fault.
BufferInUse(d) == \E e \in Devices :
  frame[e].pending > 0 \/ (e # d /\ frame[e].scene # "idle")
BeginScene(r) == \E d \in Devices :
  /\ frame[d].scene = "idle"
  /\ Method(r, d,
       IF ~Made(d, "imageSem") THEN Fault("unmade")
       ELSE \/ \E i \in {frame[d].imaged, TRUE} :
                 Draws(d, [frame[d] EXCEPT !.scene = "recording", !.stale = FALSE, !.imaged = i])
            \/ frame[d].imaged /\ Fault("semaphore")
            \/ Fault("nullIndex")
            \/ BufferInUse(d) /\ Fault("inUse"))

\* DrawPrimitiveUP and DrawIndexedPrimitiveUP destroy the buffers they have
\* recorded before the recording is submitted; without suitable memory they
\* throw, and the buffers are lost.
DrawUP(r) == \E d \in Devices :
  /\ frame[d].scene = "recording"
  /\ Method(r, d,
       \/ Draws(d, [frame[d] EXCEPT !.stale = TRUE])
       \/ \E n \in Free(d), kinds \in {{"vertex"}, Lists} :
            Lose({Handle(d, kind, n) : kind \in kinds})
       \/ Fault("unmade"))

\* EndScene: submit with the fence, ...  Mutant: without it.
SubmitUnfenced(f) == {[f EXCEPT !.scene = "submitted", !.imaged = FALSE, !.rendered = TRUE,
                                !.pending = @ + 1]}
Submit(f) == {[f EXCEPT !.scene = "submitted", !.imaged = FALSE, !.rendered = TRUE,
                        !.pending = @ + 1, !.feeding = @ + 1, !.signaled = s] :
                s \in {f.signaled, FALSE}}

\* The submission may be refused, and EndScene goes on as if it had not been.
Refuse(f) == [f EXCEPT !.scene = "submitted", !.refused = TRUE]

\* A fence handed to Vulkan must be neither signaled nor in use: a fault, or what
\* drivers make of it, which signal it once more or not.
FenceTaken(f) == f.signaled \/ f.feeding > 0

EndScene(r) == \E d \in Devices :
  /\ frame[d].scene = "recording" /\ Calls(r, d)
  /\ IF ParentLost(d) THEN Fault("parentGone")
     ELSE IF ~(Made(d, "renderSem") /\ Made(d, "fence")) THEN Fault("unmade")
     ELSE \/ (frame[d].rendered \/ ~frame[d].imaged) /\ Fault("semaphore")
          \/ frame[d].stale /\ Fault("stale")
          \/ FenceTaken(frame[d]) /\ Fault("fence")
          \/ /\ \E f \in {Refuse(frame[d])} \cup
                        (IF frame[d].imaged THEN Submit(frame[d]) ELSE {}) :
                  frame' = [frame EXCEPT ![d] = f]
             /\ caller' = [caller EXCEPT ![d] = r]
             /\ UNCHANGED <<phase, step, refVars, gpuVars, early, fault>>

\* ... wait for it, ...
EndWait(d) ==
  /\ Running /\ frame[d].scene = "submitted" /\ (frame[d].signaled \/ ParentLost(d))
  /\ IF ParentLost(d) THEN Fault("parentGone")
     ELSE Draws(d, [frame[d] EXCEPT !.scene = "waited"])

\* ... and reset it, which is a fault while a submission is still to signal it;
\* where it is not, that submission may signal it afterwards or never.
\* Mutant: it is not reset.
NoReset(f) == {f}
ResetFence(f) == {[f EXCEPT !.signaled = FALSE, !.feeding = k] : k \in {f.feeding, 0}}

EndReset(d) ==
  /\ Running /\ frame[d].scene = "waited"
  /\ IF ParentLost(d) THEN Fault("parentGone")
     ELSE \/ frame[d].feeding > 0 /\ Fault("fence")
          \/ /\ \E f \in ResetFence(frame[d]) :
                  frame' = [frame EXCEPT ![d] = [f EXCEPT !.scene = "idle", !.refused = FALSE]]
             /\ caller' = [caller EXCEPT ![d] = Null]
             /\ UNCHANGED <<phase, step, refVars, gpuVars, early, fault>>

\* Present waits on the semaphore that the submission signals; it too passes a
\* null image index.
Present(r) == \E d \in Devices :
  Method(r, d,
    IF ~Made(d, "renderSem") THEN Fault("unmade")
    ELSE IF ~frame[d].rendered THEN Fault("semaphore")
    ELSE Draws(d, [frame[d] EXCEPT !.rendered = FALSE]) \/ Fault("nullIndex"))

\* Reset waits for the queue and does nothing else.
Reset(r) == \E d \in Devices :
  Method(r, d, (\A e \in Devices : frame[e].pending = 0) /\ UNCHANGED vars)

\* The GPU completes the oldest submission of a device.
Complete(d) ==
  /\ Running /\ frame[d].pending > 0
  /\ LET f == frame[d] IN
     Draws(d, IF f.feeding = f.pending
              THEN [f EXCEPT !.pending = @ - 1, !.feeding = @ - 1, !.signaled = TRUE]
              ELSE [f EXCEPT !.pending = @ - 1])

-----------------------------------------------------------------------------
Lifetime(r) ==
  \/ Direct3DCreate9(r)
  \/ \E fresh \in Refs :
       \/ \E d \in Devices : CreateDevice(r, fresh, d)
       \/ AddRef(r, fresh) \/ GetDirect3D(r, fresh)
  \/ Release(r) \/ ReleaseReturns(r) \/ Delete(r) \/ Destroy(r) \/ Destroyed(r)

Rendering(r) ==
  \/ \E list \in Lists : CreateBuffer(r, list)
  \/ CreateTexture(r)
  \/ BeginScene(r) \/ DrawUP(r) \/ EndScene(r) \/ Present(r) \/ Reset(r)

Next ==
  \/ \E o \in Objects : Construct(o) \/ Throw(o) \/ ConstructFault(o) \/ Constructed(o)
  \/ \E r \in Refs : Lifetime(r) \/ Rendering(r)
  \/ \E d \in Devices : EndWait(d) \/ EndReset(d) \/ Complete(d)

Spec == Init /\ [][Next]_vars
=============================================================================

---------------------------- MODULE VulkanProofs ----------------------------
(***************************************************************************)
(* Direct3D 9 over Vulkan, for any number of pointers and devices: counts  *)
(* are exact, each object is deleted once, a device loses its parent only  *)
(* when a client released it early, and the fence lags by one frame.       *)
(***************************************************************************)
EXTENDS VulkanProperties, FiniteSetTheorems, TLAPS

\* What the lifetimes depend on.
Ties == <<phase, caller, refVars, early>>

-----------------------------------------------------------------------------
\* Counting a set of pointers that gains or loses one.
LEMMA CountPointers ==
  ASSUME NEW S, S \subseteq Refs
  PROVE  /\ Cardinality(S) \in Nat
         /\ Cardinality(S) = 0 <=> S = {}
         /\ \A r \in Refs \ S : Cardinality(S \cup {r}) = Cardinality(S) + 1
         /\ \A r \in S : Cardinality(S \ {r}) = Cardinality(S) - 1
<1>1. IsFiniteSet(S)
  BY FS_Subset, VulkanAssumption
<1>2. Cardinality(S) \in Nat
  BY <1>1, FS_CardinalityType
<1>3. Cardinality(S) = 0 <=> S = {}
  BY <1>1, FS_EmptySet
<1>4. \A r \in Refs \ S : Cardinality(S \cup {r}) = Cardinality(S) + 1
  BY <1>1, FS_AddElement
<1>5. \A r \in S : Cardinality(S \ {r}) = Cardinality(S) - 1
  BY <1>1, FS_RemoveElement
<1>6. QED
  BY <1>2, <1>3, <1>4, <1>5

\* A pointer that referred to nothing is set to o.
LEMMA PointersGain ==
  ASSUME TypeOK, NEW o \in Objects, NEW r \in Refs, target[r] = Null,
         target' = [target EXCEPT ![r] = o]
  PROVE  /\ Pointers(o)' = Pointers(o) \cup {r} /\ r \notin Pointers(o)
         /\ \A p \in Objects : p # o => Pointers(p)' = Pointers(p)
         /\ Cardinality(Pointers(o))' = Cardinality(Pointers(o)) + 1
<1>1. Pointers(o)' = Pointers(o) \cup {r} /\ r \notin Pointers(o)
  BY VulkanAssumption DEF TypeOK, TypesOfLifetimes, Pointers
<1>2. \A p \in Objects : p # o => Pointers(p)' = Pointers(p)
  BY VulkanAssumption DEF TypeOK, TypesOfLifetimes, Pointers
<1>3. Pointers(o) \subseteq Refs /\ Cardinality(Pointers(o))' = Cardinality(Pointers(o)')
  BY DEF Pointers
<1>4. QED
  BY <1>1, <1>2, <1>3, CountPointers

\* A pointer to o is set to nothing.
LEMMA PointersDrop ==
  ASSUME TypeOK, NEW o \in Objects, NEW r \in Refs, target[r] = o,
         target' = [target EXCEPT ![r] = Null]
  PROVE  /\ Pointers(o)' = Pointers(o) \ {r} /\ r \in Pointers(o)
         /\ \A p \in Objects : p # o => Pointers(p)' = Pointers(p)
         /\ Cardinality(Pointers(o)) \in Nat \ {0}
         /\ Cardinality(Pointers(o))' = Cardinality(Pointers(o)) - 1
         /\ Cardinality(Pointers(o)) = 1 <=> Pointers(o)' = {}
<1>1. Pointers(o)' = Pointers(o) \ {r} /\ r \in Pointers(o)
  BY VulkanAssumption DEF TypeOK, TypesOfLifetimes, Pointers
<1>2. \A p \in Objects : p # o => Pointers(p)' = Pointers(p)
  BY VulkanAssumption DEF TypeOK, TypesOfLifetimes, Pointers
<1>3. /\ Pointers(o) \subseteq Refs /\ Pointers(o)' \subseteq Refs
      /\ Cardinality(Pointers(o))' = Cardinality(Pointers(o)')
  BY DEF Pointers
<1>4. /\ Cardinality(Pointers(o)) \in Nat /\ Pointers(o) # {}
      /\ Cardinality(Pointers(o)')= Cardinality(Pointers(o)) - 1
  BY <1>1, <1>3, CountPointers
<1>5. /\ Cardinality(Pointers(o)) = 0 <=> Pointers(o) = {}
      /\ Cardinality(Pointers(o)') = 0 <=> Pointers(o)' = {}
  BY <1>3, CountPointers
<1>6. QED
  BY <1>1, <1>2, <1>3, <1>4, <1>5

-----------------------------------------------------------------------------
\* A pointer that may be used refers to a live object.
LEMMA HeldIsLive ==
  ASSUME TypeOK, VulkanInv, NEW o \in Objects, NEW r \in Refs, Holds(r, o)
  PROVE  /\ r \in Pointers(o) /\ \A p \in Objects : caller[p] # r
         /\ phase[o] # "failed" /\ phase[o] # "none" /\ phase[o] # "building"
         /\ (o # Parent \/ ~early) => phase[o] = "live"
<1>1. /\ r \in Pointers(o) /\ \A p \in Objects : caller[p] # r
      /\ phase[o] # "building"
  BY DEF Holds, InCall, Pointers
<1>2. phase[o] # "failed" /\ phase[o] # "none"
  BY <1>1 DEF VulkanInv, CallInv
<1>3. (o # Parent \/ ~early) => phase[o] = "live"
  BY <1>1 DEF VulkanInv, LifetimeSafe, DeletedOnce
<1>4. QED
  BY <1>1, <1>2, <1>3

\* A device that exists has a parent that is live, but for an early release.
LEMMA ParentThere ==
  ASSUME TypeOK, VulkanInv, NEW d \in Devices, ParentLost(d),
         phase[d] \in {"building", "live", "dying"}
  PROVE  early
BY DEF VulkanInv, ParentKept, HasDevice, ParentLost

\* Undefined behaviour of a kind that needs no excuse.
LEMMA FaultStep ==
  ASSUME TypeOK, VulkanInv, NEW kind, kind \in Faults, Fault(kind),
         kind \in {"parentGone", "doubleDelete"} => early
  PROVE  TypeOK' /\ VulkanInv'
<1>1. TypeOK'
  BY DEF TypeOK, TypesOfLifetimes, TypesOfHandles, Fault, objVars, refVars, gpuVars
<1>2. LifetimeSafe' /\ CallInv'
  BY DEF VulkanInv, LifetimeSafe, CallInv, CountExact, DeletedOnce, Pointers, Deleters,
         Fault, objVars, refVars
<1>3. ParentKept' /\ FrameInv'
  BY DEF VulkanInv, ParentKept, HasDevice, Pointers, FrameInv, Fault, objVars, refVars
<1>4. ParentLostOnlyEarly'
  BY DEF ParentLostOnlyEarly, Fault
<1>5. QED
  BY <1>1, <1>2, <1>3, <1>4 DEF VulkanInv

\* Steps that leave the ties alone.
LEMMA UntiedStep ==
  ASSUME TypeOK, VulkanInv, UNCHANGED <<Ties, fault>>,
         \A d \in Devices : frame'[d].scene \in {"submitted", "waited"} =>
                              frame[d].scene \in {"submitted", "waited"}
  PROVE  LifetimeSafe' /\ CallInv' /\ ParentKept' /\ ParentLostOnlyEarly'
<1>1. \A o \in Objects :
        /\ Pointers(o)' = Pointers(o) /\ Deleters(o)' = Deleters(o)
        /\ Cardinality(Pointers(o))' = Cardinality(Pointers(o))
  BY DEF Pointers, Deleters, Ties, refVars
<1>2. LifetimeSafe'
  BY <1>1 DEF VulkanInv, LifetimeSafe, CountExact, DeletedOnce, Ties, refVars
<1>3. CallInv'
  BY <1>1 DEF VulkanInv, CallInv, Ties, refVars, Objects
<1>4. ParentKept'
  BY <1>1 DEF VulkanInv, ParentKept, HasDevice, Ties, refVars, Objects
<1>5. ParentLostOnlyEarly'
  BY DEF VulkanInv, ParentLostOnlyEarly, Ties
<1>6. QED
  BY <1>2, <1>3, <1>4, <1>5

-----------------------------------------------------------------------------
\* Types and reference counts are right before the game has created anything.
THEOREM InitSafe == Init => TypeOK /\ VulkanInv
<1> SUFFICES ASSUME Init PROVE TypeOK /\ VulkanInv
  OBVIOUS
<1> USE VulkanAssumption DEF Init, NoFrame
<1>1. TypeOK
  <2>1. frame \in [Devices -> Frames]
    BY DEF Frames
  <2>2. TypesOfLifetimes
    BY DEF TypesOfLifetimes, Phases
  <2>3. TypesOfHandles
    BY DEF TypesOfHandles
  <2>4. QED
    BY <2>1, <2>2, <2>3 DEF TypeOK, Faults
<1>2. \A o \in Objects : Pointers(o) = {} /\ Deleters(o) = {}
  BY DEF Pointers, Deleters, Objects
<1>3. LifetimeSafe
  BY <1>2, FS_EmptySet DEF LifetimeSafe, CountExact, DeletedOnce
<1>4. CallInv /\ ParentKept /\ ParentLostOnlyEarly /\ FrameInv
  BY <1>2 DEF CallInv, ParentKept, HasDevice, ParentLostOnlyEarly, FrameInv, FrameOK, Objects
<1>5. QED
  BY <1>1, <1>3, <1>4 DEF VulkanInv
-----------------------------------------------------------------------------
\* `new': a constructor starts, in the call of a pointer to the parent.
LEMMA NewStep ==
  ASSUME TypeOK, VulkanInv, NEW o \in Objects, NEW r \in Refs, NEW by \in Refs,
         New(o, r, by), IF o = Parent THEN by = r ELSE Holds(by, Parent)
  PROVE  TypeOK' /\ VulkanInv'
<1> USE VulkanAssumption DEF New, Unused
<1>1. /\ phase[o] = "none" /\ target[r] = Null
      /\ phase' = [phase EXCEPT ![o] = "building"]
      /\ caller' = [caller EXCEPT ![o] = by] /\ refCount' = [refCount EXCEPT ![o] = 1]
      /\ target' = [target EXCEPT ![r] = o]
      /\ UNCHANGED <<releasing, count, early, fault, frame>>
  OBVIOUS
<1>2. TypeOK'
  BY <1>1 DEF TypeOK, TypesOfLifetimes, TypesOfHandles, Phases, refVars, gpuVars
<1>3. /\ Pointers(o) = {} /\ Pointers(o)' = {r} /\ Cardinality(Pointers(o))' = 1
      /\ \A p \in Objects : p # o => Pointers(p)' = Pointers(p)
  <2>1. Pointers(o) = {}
    BY <1>1 DEF VulkanInv, CallInv
  <2>2. Cardinality(Pointers(o)) = 0
    BY <2>1, FS_EmptySet
  <2>3. /\ Pointers(o)' = Pointers(o) \cup {r}
        /\ \A p \in Objects : p # o => Pointers(p)' = Pointers(p)
        /\ Cardinality(Pointers(o))' = Cardinality(Pointers(o)) + 1
    BY <1>1, PointersGain
  <2>4. QED
    BY <2>1, <2>2, <2>3
<1>4. \A p \in Objects : Deleters(p)' = Deleters(p)
  BY <1>1 DEF Deleters
<1>5. (o # Parent \/ ~early) => Deleters(o) = {}
  BY <1>1 DEF VulkanInv, LifetimeSafe, DeletedOnce
<1>6. by \in Pointers(Parent)' /\ (o # Parent => by \in Pointers(Parent))
  BY <1>3, HeldIsLive DEF Objects
<1>7. LifetimeSafe'
  <2> SUFFICES ASSUME NEW p \in Objects
               PROVE  CountExact(p)' /\ (p # Parent \/ ~early' => DeletedOnce(p)')
    BY DEF LifetimeSafe
  <2>1. CASE p = o
    BY <2>1, <1>1, <1>3, <1>4, <1>5 DEF CountExact, DeletedOnce, TypeOK, TypesOfLifetimes
  <2>2. CASE p # o
    <3>1. /\ phase'[p] = phase[p] /\ refCount'[p] = refCount[p] /\ caller'[p] = caller[p]
          /\ Pointers(p)' = Pointers(p) /\ Cardinality(Pointers(p))' = Cardinality(Pointers(p))
      BY <2>2, <1>1, <1>3 DEF TypeOK, TypesOfLifetimes
    <3>2. CountExact(p) /\ (p # Parent \/ ~early => DeletedOnce(p))
      BY DEF VulkanInv, LifetimeSafe
    <3>3. QED
      BY <3>1, <3>2, <1>1, <1>4 DEF CountExact, DeletedOnce
  <2>3. QED
    BY <2>1, <2>2
<1>8. CallInv'
  <2>1. \A p \in Objects : p # o => phase'[p] = phase[p] /\ caller'[p] = caller[p]
    BY <1>1 DEF TypeOK, TypesOfLifetimes
  <2>2. phase'[o] = "building" /\ caller'[o] = by
    BY <1>1 DEF TypeOK, TypesOfLifetimes
  <2>3. Pointers(Parent) \subseteq Pointers(Parent)'
    BY <1>3 DEF Objects
  <2>4. \A q \in Refs : releasing'[q] = Null \/ target'[q] = Null
    BY <1>1 DEF VulkanInv, CallInv, TypeOK, TypesOfLifetimes
  <2>5. QED
    BY <2>1, <2>2, <2>3, <2>4, <1>1, <1>3, <1>4, <1>6 DEF VulkanInv, CallInv, Objects
<1>9. ParentKept'
  <2>1. \A p \in Objects : p # o => phase'[p] = phase[p]
    BY <1>1 DEF TypeOK, TypesOfLifetimes
  <2>2. CASE o = Parent
    BY <2>1, <2>2, <1>1 DEF VulkanInv, ParentKept, HasDevice, Objects
  <2>3. CASE o # Parent
    BY <2>1, <2>3, <1>1, <1>6, HeldIsLive DEF VulkanInv, ParentKept, HasDevice, Objects
  <2>4. QED
    BY <2>2, <2>3
<1>10. ParentLostOnlyEarly' /\ FrameInv'
  BY <1>1 DEF VulkanInv, ParentLostOnlyEarly, FrameInv
<1>11. QED
  BY <1>2, <1>7, <1>8, <1>9, <1>10 DEF VulkanInv

\* A constructor throws: the pointer that was to get the object has nothing.
LEMMA ThrowStep ==
  ASSUME TypeOK, VulkanInv, NEW o \in Objects, Throw(o)
  PROVE  TypeOK' /\ VulkanInv'
<1> USE VulkanAssumption DEF Throw, Building
<1>1. /\ phase[o] = "building" /\ ~ParentLost(o)
      /\ phase' = [phase EXCEPT ![o] = "failed"] /\ caller' = [caller EXCEPT ![o] = Null]
      /\ target' = [r \in Refs |-> IF target[r] = o THEN Null ELSE target[r]]
      /\ UNCHANGED <<refCount, releasing, count, early, fault, frame>>
  OBVIOUS
<1>2. TypeOK'
  BY <1>1 DEF TypeOK, TypesOfLifetimes, TypesOfHandles, Phases, gpuVars
<1>3. /\ Pointers(o)' = {} /\ \A p \in Objects : p # o => Pointers(p)' = Pointers(p)
      /\ \A p \in Objects : Deleters(p)' = Deleters(p)
  BY <1>1 DEF Pointers, Deleters, TypeOK, TypesOfLifetimes
<1>4. \A p \in Objects : p # o => phase'[p] = phase[p] /\ caller'[p] = caller[p]
  BY <1>1 DEF TypeOK, TypesOfLifetimes
<1>5. phase'[o] = "failed"
  BY <1>1 DEF TypeOK, TypesOfLifetimes
<1>6. LifetimeSafe'
  <2> SUFFICES ASSUME NEW p \in Objects
               PROVE  CountExact(p)' /\ (p # Parent \/ ~early' => DeletedOnce(p)')
    BY DEF LifetimeSafe
  <2>0. CountExact(p) /\ (p # Parent \/ ~early => DeletedOnce(p))
    BY DEF VulkanInv, LifetimeSafe
  <2>1. CASE p = o
    BY <2>0, <2>1, <1>1, <1>3, <1>5 DEF CountExact, DeletedOnce
  <2>2. CASE p # o
    <3>1. Cardinality(Pointers(p))' = Cardinality(Pointers(p))
      BY <2>2, <1>3
    <3>2. QED
      BY <2>0, <2>2, <3>1, <1>1, <1>3, <1>4 DEF CountExact, DeletedOnce
  <2>3. QED
    BY <2>1, <2>2
<1>7. o = Parent => ~HasDevice /\ ~early
  BY <1>1 DEF VulkanInv, ParentKept
<1>8. CallInv'
  <2>1. \A q \in Refs : releasing'[q] = Null \/ target'[q] = Null
    BY <1>1 DEF VulkanInv, CallInv
  <2>2. \A p \in Objects : phase'[p] = "building" => caller'[p] \in Pointers(Parent)'
    BY <1>3, <1>4, <1>5, <1>7 DEF VulkanInv, CallInv, HasDevice, Objects
  <2>3. QED
    BY <2>1, <2>2, <1>1, <1>3, <1>4, <1>5 DEF VulkanInv, CallInv, Objects
<1>9. ParentKept'
  BY <1>1, <1>3, <1>4, <1>5, <1>7 DEF VulkanInv, ParentKept, HasDevice, Objects
<1>10. ParentLostOnlyEarly' /\ FrameInv'
  BY <1>1 DEF VulkanInv, ParentLostOnlyEarly, FrameInv
<1>11. QED
  BY <1>2, <1>6, <1>8, <1>9, <1>10 DEF VulkanInv

\* A constructor is done.
LEMMA ConstructedStep ==
  ASSUME TypeOK, VulkanInv, NEW o \in Objects, Constructed(o)
  PROVE  TypeOK' /\ VulkanInv'
<1> USE VulkanAssumption DEF Constructed, refVars
<1>1. /\ phase[o] = "building"
      /\ phase' = [phase EXCEPT ![o] = "live"] /\ caller' = [caller EXCEPT ![o] = Null]
      /\ UNCHANGED <<refVars, early, fault, frame>>
  OBVIOUS
<1>2. TypeOK'
  BY <1>1 DEF TypeOK, TypesOfLifetimes, TypesOfHandles, Phases
<1>3. \A p \in Objects :
        /\ Pointers(p)' = Pointers(p) /\ Deleters(p)' = Deleters(p)
        /\ Cardinality(Pointers(p))' = Cardinality(Pointers(p))
  BY <1>1 DEF Pointers, Deleters
<1>4. \A p \in Objects : p # o => phase'[p] = phase[p] /\ caller'[p] = caller[p]
  BY <1>1 DEF TypeOK, TypesOfLifetimes
<1>5. phase'[o] = "live"
  BY <1>1 DEF TypeOK, TypesOfLifetimes
<1>6. LifetimeSafe'
  BY <1>1, <1>3, <1>4, <1>5 DEF VulkanInv, LifetimeSafe, CountExact, DeletedOnce
<1>7. CallInv'
  BY <1>1, <1>3, <1>4, <1>5 DEF VulkanInv, CallInv, Objects
<1>8. ParentKept'
  BY <1>1, <1>3, <1>4, <1>5 DEF VulkanInv, ParentKept, HasDevice, Objects
<1>9. ParentLostOnlyEarly' /\ FrameInv'
  BY <1>1 DEF VulkanInv, ParentLostOnlyEarly, FrameInv
<1>10. QED
  BY <1>2, <1>6, <1>7, <1>8, <1>9 DEF VulkanInv

-----------------------------------------------------------------------------
\* One more pointer to an object that has one.
LEMMA TakeStep ==
  ASSUME TypeOK, VulkanInv, NEW o \in Objects, NEW r \in Refs, Take(o, r),
         phase[o] \notin {"none", "failed"},
         (o # Parent \/ ~early) => phase[o] = "live" /\ Pointers(o) # {}
  PROVE  TypeOK' /\ VulkanInv'
<1> USE VulkanAssumption DEF Take, Unused, objVars
<1>1. /\ target[r] = Null /\ releasing[r] = Null
      /\ refCount' = [refCount EXCEPT ![o] = @ + 1] /\ target' = [target EXCEPT ![r] = o]
      /\ UNCHANGED <<phase, caller, releasing, count, early, fault, frame>>
  OBVIOUS
<1>2. TypeOK'
  BY <1>1 DEF TypeOK, TypesOfLifetimes, TypesOfHandles, gpuVars
<1>3. /\ Pointers(o)' = Pointers(o) \cup {r}
      /\ \A p \in Objects : p # o => Pointers(p)' = Pointers(p)
      /\ Cardinality(Pointers(o))' = Cardinality(Pointers(o)) + 1
  BY <1>1, PointersGain
<1>4. \A p \in Objects : Deleters(p)' = Deleters(p)
  BY <1>1 DEF Deleters
<1>5. (o # Parent \/ ~early) => Deleters(o) = {}
  BY DEF VulkanInv, LifetimeSafe, DeletedOnce
<1>6. LifetimeSafe'
  <2> SUFFICES ASSUME NEW p \in Objects
               PROVE  CountExact(p)' /\ (p # Parent \/ ~early' => DeletedOnce(p)')
    BY DEF LifetimeSafe
  <2>0. CountExact(p) /\ (p # Parent \/ ~early => DeletedOnce(p))
    BY DEF VulkanInv, LifetimeSafe
  <2>1. CASE p = o
    <3>1. refCount'[o] = refCount[o] + 1
      BY <1>1 DEF TypeOK, TypesOfLifetimes
    <3>2. CountExact(o)'
      BY <2>0, <2>1, <3>1, <1>1, <1>3 DEF CountExact
    <3>3. QED
      BY <2>1, <3>2, <1>1, <1>4, <1>5 DEF DeletedOnce
  <2>2. CASE p # o
    <3>1. /\ refCount'[p] = refCount[p] /\ Pointers(p)' = Pointers(p)
          /\ Cardinality(Pointers(p))' = Cardinality(Pointers(p))
      BY <2>2, <1>1, <1>3 DEF TypeOK, TypesOfLifetimes
    <3>2. QED
      BY <2>0, <3>1, <1>1, <1>4 DEF CountExact, DeletedOnce
  <2>3. QED
    BY <2>1, <2>2
<1>7. CallInv'
  <2>1. \A q \in Refs : releasing'[q] = Null \/ target'[q] = Null
    BY <1>1 DEF VulkanInv, CallInv, TypeOK, TypesOfLifetimes
  <2>2. \A p \in Objects : Pointers(p) \subseteq Pointers(p)'
    BY <1>3
  <2>3. QED
    BY <2>1, <2>2, <1>1, <1>3, <1>4 DEF VulkanInv, CallInv, Objects
<1>8. ParentKept'
  BY <1>1, <1>3 DEF VulkanInv, ParentKept, HasDevice, Objects
<1>9. ParentLostOnlyEarly' /\ FrameInv'
  BY <1>1 DEF VulkanInv, ParentLostOnlyEarly, FrameInv
<1>10. QED
  BY <1>2, <1>6, <1>7, <1>8, <1>9 DEF VulkanInv

\* The decrement of Release.
LEMMA ReleaseStep ==
  ASSUME TypeOK, VulkanInv, NEW r \in Refs, Release(r)
  PROVE  TypeOK' /\ VulkanInv'
<1> USE VulkanAssumption DEF objVars
<1>1. PICK o \in Objects :
        /\ Holds(r, o)
        /\ refCount' = [refCount EXCEPT ![o] = @ - 1]
        /\ target' = [target EXCEPT ![r] = Null]
        /\ releasing' = [releasing EXCEPT ![r] = o]
        /\ count' = [count EXCEPT ![r] = refCount[o] - 1]
        /\ early' = (early \/ (o = Parent /\ refCount[o] = 1 /\ HasDevice))
        /\ UNCHANGED <<objVars, gpuVars, frame, fault>>
  BY DEF Release
<1>2. /\ r \in Pointers(o) /\ (\A p \in Objects : caller[p] # r)
      /\ phase[o] \notin {"none", "failed", "building"}
      /\ (o # Parent \/ ~early) => phase[o] = "live"
  BY <1>1, HeldIsLive
<1>3. target[r] = o /\ releasing[r] = Null
  BY <1>1 DEF VulkanInv, CallInv, Holds, TypeOK, TypesOfLifetimes
<1>4. /\ Pointers(o)' = Pointers(o) \ {r}
      /\ \A p \in Objects : p # o => Pointers(p)' = Pointers(p)
      /\ Cardinality(Pointers(o)) \in Nat \ {0}
      /\ Cardinality(Pointers(o))' = Cardinality(Pointers(o)) - 1
      /\ Cardinality(Pointers(o)) = 1 <=> Pointers(o)' = {}
  BY <1>1, <1>3, PointersDrop
<1>5. refCount[o] = Cardinality(Pointers(o))
  BY <1>2 DEF VulkanInv, LifetimeSafe, CountExact
<1>6. TypeOK'
  BY <1>1, <1>4, <1>5 DEF TypeOK, TypesOfLifetimes, TypesOfHandles, gpuVars
<1>7. /\ \A p \in Objects : p # o => Deleters(p)' = Deleters(p)
      /\ Deleters(o)' = IF refCount[o] = 1 THEN Deleters(o) \cup {r} ELSE Deleters(o)
  <2>1. \A q \in Refs : q # r => releasing'[q] = releasing[q] /\ count'[q] = count[q]
    BY <1>1 DEF TypeOK, TypesOfLifetimes
  <2>2. releasing'[r] = o /\ count'[r] = refCount[o] - 1 /\ refCount[o] \in Nat
    BY <1>1 DEF TypeOK, TypesOfLifetimes
  <2>3. QED
    BY <2>1, <2>2, <1>3 DEF Deleters
<1>8. (o # Parent \/ ~early) => Deleters(o) = {}
  BY <1>2 DEF VulkanInv, LifetimeSafe, DeletedOnce
<1>9. LifetimeSafe'
  <2> SUFFICES ASSUME NEW p \in Objects
               PROVE  CountExact(p)' /\ (p # Parent \/ ~early' => DeletedOnce(p)')
    BY DEF LifetimeSafe
  <2>0. CountExact(p) /\ (p # Parent \/ ~early => DeletedOnce(p))
    BY DEF VulkanInv, LifetimeSafe
  <2>1. CASE p = o
    <3>1. refCount'[o] = refCount[o] - 1
      BY <1>1 DEF TypeOK, TypesOfLifetimes
    <3>2. CountExact(o)'
      BY <3>1, <1>4, <1>5 DEF CountExact
    <3>3. (o # Parent \/ ~early) => DeletedOnce(o)'
      BY <1>1, <1>2, <1>4, <1>5, <1>7, <1>8 DEF DeletedOnce
    <3>4. early => early'
      BY <1>1
    <3>5. QED
      BY <2>1, <3>2, <3>3, <3>4
  <2>2. CASE p # o
    <3>1. /\ refCount'[p] = refCount[p] /\ Pointers(p)' = Pointers(p)
          /\ Cardinality(Pointers(p))' = Cardinality(Pointers(p))
      BY <2>2, <1>1, <1>4 DEF TypeOK, TypesOfLifetimes
    <3>2. QED
      BY <2>0, <2>2, <3>1, <1>1, <1>7 DEF CountExact, DeletedOnce
  <2>3. QED
    BY <2>1, <2>2
<1>10. CallInv'
  <2>1. \A q \in Refs : releasing'[q] = Null \/ target'[q] = Null
    BY <1>1 DEF VulkanInv, CallInv, TypeOK, TypesOfLifetimes
  <2>2. \A p \in Objects : /\ Pointers(p) \ {r} \subseteq Pointers(p)'
                           /\ Pointers(p)' \subseteq Pointers(p)
                           /\ Deleters(p) \subseteq Deleters(p)'
    BY <1>4, <1>7
  <2>3. QED
    BY <2>1, <2>2, <1>1, <1>2 DEF VulkanInv, CallInv, Objects
<1>11. ParentKept'
  <2>1. HasDevice' = HasDevice
    BY <1>1 DEF HasDevice
  <2>2. ~early' /\ HasDevice => phase[Parent] = "live" /\ Pointers(Parent)' # {}
    BY <1>1, <1>4, <1>5 DEF VulkanInv, ParentKept, Objects
  <2>3. early' => phase[Parent] \in {"live", "dying", "gone"}
    BY <1>1 DEF VulkanInv, ParentKept
  <2>4. QED
    BY <2>1, <2>2, <2>3, <1>1 DEF ParentKept
<1>12. ParentLostOnlyEarly' /\ FrameInv'
  BY <1>1 DEF VulkanInv, ParentLostOnlyEarly, FrameInv
<1>13. QED
  BY <1>6, <1>9, <1>10, <1>11, <1>12 DEF VulkanInv

\* A Release whose decrement did not reach zero returns.
LEMMA ReleaseReturnsStep ==
  ASSUME TypeOK, VulkanInv, NEW r \in Refs, ReleaseReturns(r)
  PROVE  TypeOK' /\ VulkanInv'
<1> USE VulkanAssumption DEF ReleaseReturns, Return, Count, objVars, gpuVars
<1>1. count[r] # 0 /\ UNCHANGED <<phase, caller, refCount, target, early, fault, frame>>
  OBVIOUS
<1>2. TypeOK'
  BY DEF TypeOK, TypesOfLifetimes, TypesOfHandles
<1>3. \A p \in Objects :
        /\ Pointers(p)' = Pointers(p) /\ Deleters(p)' = Deleters(p)
        /\ Cardinality(Pointers(p))' = Cardinality(Pointers(p))
  <2>1. \A p \in Objects : Pointers(p)' = Pointers(p)
    BY <1>1 DEF Pointers
  <2>2. \A p \in Objects : Deleters(p)' = Deleters(p)
    BY <1>1 DEF Deleters, TypeOK, TypesOfLifetimes, Objects
  <2>3. QED
    BY <2>1, <2>2
<1>4. LifetimeSafe'
  BY <1>1, <1>3 DEF VulkanInv, LifetimeSafe, CountExact, DeletedOnce
<1>5. CallInv'
  <2>1. \A q \in Refs : releasing'[q] = Null \/ target'[q] = Null
    BY DEF VulkanInv, CallInv, TypeOK, TypesOfLifetimes
  <2>2. QED
    BY <2>1, <1>1, <1>3 DEF VulkanInv, CallInv, Objects
<1>6. ParentKept' /\ ParentLostOnlyEarly' /\ FrameInv'
  BY <1>1, <1>3 DEF VulkanInv, ParentKept, HasDevice, ParentLostOnlyEarly, FrameInv, Objects
<1>7. QED
  BY <1>2, <1>4, <1>5, <1>6 DEF VulkanInv

\* `delete this': the destructor starts, or the object is deleted twice.
LEMMA DeleteStep ==
  ASSUME TypeOK, VulkanInv, NEW r \in Refs, Delete(r)
  PROVE  TypeOK' /\ VulkanInv'
<1> USE VulkanAssumption DEF Count, refVars
<1>1. PICK o \in Objects :
        /\ releasing[r] = o /\ count[r] = 0 /\ caller[o] # r
        /\ IF phase[o] # "live" THEN Fault("doubleDelete")
           ELSE /\ phase' = [phase EXCEPT ![o] = "dying"]
                /\ caller' = [caller EXCEPT ![o] = r]
                /\ UNCHANGED <<step, refVars, gpuVars, frame, early, fault>>
  BY DEF Delete
<1>2. r \in Deleters(o) /\ (o # Parent \/ ~early => DeletedOnce(o))
  BY <1>1 DEF Deleters, VulkanInv, LifetimeSafe
<1>3. CASE phase[o] # "live"
  <2>1. early
    BY <1>1, <1>2, <1>3 DEF DeletedOnce
  <2>2. QED
    BY <1>1, <1>3, <2>1, FaultStep DEF Faults
<1>4. CASE phase[o] = "live"
  <2>1. /\ phase' = [phase EXCEPT ![o] = "dying"] /\ caller' = [caller EXCEPT ![o] = r]
        /\ UNCHANGED <<step, refVars, gpuVars, frame, early, fault>>
    BY <1>1, <1>4
  <2>2. TypeOK'
    BY <2>1 DEF TypeOK, TypesOfLifetimes, TypesOfHandles, Phases, gpuVars
  <2>3. \A p \in Objects :
          /\ Pointers(p)' = Pointers(p) /\ Deleters(p)' = Deleters(p)
          /\ Cardinality(Pointers(p))' = Cardinality(Pointers(p))
    BY <2>1 DEF Pointers, Deleters
  <2>4. \A p \in Objects : p # o => phase'[p] = phase[p] /\ caller'[p] = caller[p]
    BY <2>1 DEF TypeOK, TypesOfLifetimes
  <2>5. phase'[o] = "dying" /\ caller'[o] = r
    BY <2>1 DEF TypeOK, TypesOfLifetimes
  <2>6. (o # Parent \/ ~early) => Pointers(o) = {} /\ Deleters(o) = {r}
    BY <1>2 DEF DeletedOnce
  <2>7. LifetimeSafe'
    <3> SUFFICES ASSUME NEW p \in Objects
                 PROVE  CountExact(p)' /\ (p # Parent \/ ~early' => DeletedOnce(p)')
      BY DEF LifetimeSafe
    <3>0. CountExact(p) /\ (p # Parent \/ ~early => DeletedOnce(p))
      BY DEF VulkanInv, LifetimeSafe
    <3>1. CountExact(p)'
      BY <3>0, <1>4, <2>1, <2>3, <2>4, <2>5 DEF CountExact
    <3>2. CASE p = o
      BY <3>1, <3>2, <2>1, <2>3, <2>5, <2>6 DEF DeletedOnce
    <3>3. CASE p # o
      BY <3>0, <3>1, <3>3, <2>1, <2>3, <2>4 DEF DeletedOnce
    <3>4. QED
      BY <3>2, <3>3
  <2>8. CallInv'
    <3>1. \A d \in Devices : frame[d].scene \in {"submitted", "waited"} => d # o
      BY <2>6 DEF VulkanInv, CallInv, Objects
    <3>2. QED
      BY <3>1, <1>2, <2>1, <2>3, <2>4, <2>5 DEF VulkanInv, CallInv, Objects
  <2>9. ParentKept'
    BY <1>4, <2>1, <2>3, <2>4, <2>5, <2>6 DEF VulkanInv, ParentKept, HasDevice, Objects
  <2>10. ParentLostOnlyEarly' /\ FrameInv'
    BY <2>1 DEF VulkanInv, ParentLostOnlyEarly, FrameInv
  <2>11. QED
    BY <2>2, <2>7, <2>8, <2>9, <2>10 DEF VulkanInv
<1>5. QED
  BY <1>3, <1>4

\* A destructor is done.
LEMMA DestroyedStep ==
  ASSUME TypeOK, VulkanInv, NEW r \in Refs, Destroyed(r)
  PROVE  TypeOK' /\ VulkanInv'
<1> USE VulkanAssumption
<1>1. PICK o \in Objects :
        /\ phase[o] = "dying" /\ caller[o] = r
        /\ phase' = [phase EXCEPT ![o] = "gone"]
        /\ caller' = [caller EXCEPT ![o] = Null]
        /\ members' = [members EXCEPT ![o] = {}]
        /\ frame' = [d \in Devices |-> IF d = o THEN NoFrame ELSE frame[d]]
        /\ releasing' = [releasing EXCEPT ![r] = Null]
        /\ count' = [count EXCEPT ![r] = 0]
        /\ UNCHANGED <<step, created, abandoned, refCount, target, early, fault>>
  BY DEF Destroyed, Return
<1>2. TypeOK'
  <2>1. NoFrame \in Frames
    BY DEF NoFrame, Frames
  <2>2. frame' \in [Devices -> Frames]
    BY <1>1, <2>1 DEF TypeOK
  <2>3. TypesOfLifetimes'
    BY <1>1 DEF TypeOK, TypesOfLifetimes, Phases
  <2>4. TypesOfHandles'
    BY <1>1 DEF TypeOK, TypesOfHandles
  <2>5. QED
    BY <1>1, <2>2, <2>3, <2>4 DEF TypeOK
<1>3. r \in Deleters(o) /\ releasing[r] = o
  BY <1>1 DEF VulkanInv, CallInv, Deleters
<1>4. \A p \in Objects :
        /\ Pointers(p)' = Pointers(p)
        /\ Cardinality(Pointers(p))' = Cardinality(Pointers(p))
  BY <1>1 DEF Pointers
<1>5. /\ Deleters(o)' = Deleters(o) \ {r}
      /\ \A p \in Objects : p # o => Deleters(p)' = Deleters(p)
  <2>1. \A q \in Refs : q # r => releasing'[q] = releasing[q] /\ count'[q] = count[q]
    BY <1>1 DEF TypeOK, TypesOfLifetimes
  <2>2. releasing'[r] = Null
    BY <1>1 DEF TypeOK, TypesOfLifetimes
  <2>3. QED
    BY <2>1, <2>2, <1>3 DEF Deleters, Objects
<1>6. \A p \in Objects : p # o => phase'[p] = phase[p] /\ caller'[p] = caller[p]
  BY <1>1 DEF TypeOK, TypesOfLifetimes
<1>7. phase'[o] = "gone"
  BY <1>1 DEF TypeOK, TypesOfLifetimes
<1>8. LifetimeSafe'
  <2> SUFFICES ASSUME NEW p \in Objects
               PROVE  CountExact(p)' /\ (p # Parent \/ ~early' => DeletedOnce(p)')
    BY DEF LifetimeSafe
  <2>0. CountExact(p) /\ (p # Parent \/ ~early => DeletedOnce(p))
    BY DEF VulkanInv, LifetimeSafe
  <2>1. CountExact(p)'
    BY <2>0, <1>1, <1>4, <1>6, <1>7 DEF CountExact
  <2>2. CASE p = o
    BY <2>0, <2>1, <2>2, <1>1, <1>3, <1>4, <1>5, <1>7 DEF DeletedOnce
  <2>3. CASE p # o
    BY <2>0, <2>1, <2>3, <1>1, <1>4, <1>5, <1>6 DEF DeletedOnce
  <2>4. QED
    BY <2>2, <2>3
<1>9. CallInv'
  <2>1. \A q \in Refs : releasing'[q] = Null \/ target'[q] = Null
    BY <1>1 DEF VulkanInv, CallInv, TypeOK, TypesOfLifetimes
  <2>2. \A d \in Devices :
          frame'[d].scene \in {"submitted", "waited"} => d # o /\ frame'[d] = frame[d]
    BY <1>1 DEF NoFrame
  <2>3. \A p \in Objects : /\ phase'[p] \in {"none", "failed"} => Pointers(p)' = {}
                           /\ phase'[p] = "building" => caller'[p] \in Pointers(Parent)'
    BY <1>4, <1>6, <1>7 DEF VulkanInv, CallInv, Objects
  <2>4. \A p \in Objects : phase'[p] = "dying" => caller'[p] \in Deleters(p)'
    BY <1>5, <1>6, <1>7 DEF VulkanInv, CallInv
  <2>5. QED
    BY <2>1, <2>2, <2>3, <2>4, <1>4, <1>6 DEF VulkanInv, CallInv, Objects
<1>10. ParentKept'
  BY <1>1, <1>4, <1>6, <1>7 DEF VulkanInv, ParentKept, HasDevice, Objects
<1>11. ParentLostOnlyEarly'
  BY <1>1 DEF VulkanInv, ParentLostOnlyEarly
<1>12. FrameInv'
  <2>1. \A d \in Devices : frame'[d] = frame[d] \/ frame'[d] = NoFrame
    BY <1>1
  <2>2. QED
    BY <2>1 DEF VulkanInv, FrameInv, FrameOK, NoFrame
<1>13. QED
  BY <1>2, <1>8, <1>9, <1>10, <1>11, <1>12 DEF VulkanInv

-----------------------------------------------------------------------------
\* What the tables of the constructors name.
LEMMA PartKind ==
  ASSUME TypeOK, NEW o \in Objects, Building(o)
  PROVE  Part(o) \in IF o = Parent THEN ParentKinds ELSE DeviceKinds
<1>1. Len(ParentParts) = 11 /\ \A i \in 1 .. 11 : ParentParts[i] \in ParentKinds
  BY DEF ParentParts, ParentKinds
<1>2. Len(DeviceParts) = 7 /\ \A i \in 1 .. 7 : DeviceParts[i] \in DeviceKinds
  BY DEF DeviceParts, DeviceKinds
<1>3. step[o] \in 1 .. Len(Parts(o))
  BY <1>1, <1>2 DEF TypeOK, TypesOfHandles, Building, Parts
<1>4. QED
  BY <1>1, <1>2, <1>3 DEF Part, Parts

\* Handles are created and kept, or destroyed, and the tables walked.
LEMMA HandlesStep ==
  ASSUME TypeOK, VulkanInv, TypesOfHandles', UNCHANGED <<Ties, frame, fault>>
  PROVE  TypeOK' /\ VulkanInv'
<1>1. TypeOK'
  BY DEF TypeOK, TypesOfLifetimes, Ties, refVars
<1>2. LifetimeSafe' /\ CallInv' /\ ParentKept' /\ ParentLostOnlyEarly'
  BY UntiedStep
<1>3. QED
  BY <1>1, <1>2 DEF VulkanInv, FrameInv

LEMMA ConstructStep ==
  ASSUME TypeOK, VulkanInv, NEW o \in Objects, Construct(o)
  PROVE  TypeOK' /\ VulkanInv'
<1> DEFINE h == Handle(o, Part(o), 0)
<1>1. h \in Handles
  BY PartKind DEF Construct, Handle, Handles
<1>2. TypesOfHandles'
  BY <1>1 DEF Construct, TypeOK, TypesOfHandles
<1>3. QED
  BY <1>2, HandlesStep DEF Construct, Ties

LEMMA KeepOrLoseStep ==
  ASSUME TypeOK, VulkanInv, NEW d \in Devices, NEW hs \in SUBSET Handles,
         Keep(hs, d) \/ Lose(hs)
  PROVE  TypeOK' /\ VulkanInv'
<1>1. TypesOfHandles'
  BY DEF Keep, Lose, TypeOK, TypesOfHandles, objVars, Objects
<1>2. QED
  BY <1>1, HandlesStep DEF Keep, Lose, Ties, objVars

\* A step of a destructor.
LEMMA DestroyStep ==
  ASSUME TypeOK, VulkanInv, NEW r \in Refs, Destroy(r)
  PROVE  TypeOK' /\ VulkanInv'
<1>1. PICK o \in Objects :
        /\ phase[o] = "dying"
        /\ \/ ParentLost(o) /\ Fault("parentGone")
           \/ Fault("unmade")
           \/ \E hs : /\ created' = created \ hs /\ step' = [step EXCEPT ![o] = @ + 1]
                      /\ UNCHANGED <<phase, caller, refVars, members, abandoned, frame,
                                     early, fault>>
           \/ Fault("inUse")
  BY DEF Destroy
<1>2. CASE ParentLost(o) /\ Fault("parentGone")
  BY <1>1, <1>2, ParentThere, FaultStep DEF Faults, ParentLost, Objects
<1>3. CASE Fault("unmade") \/ Fault("inUse")
  BY <1>3, FaultStep DEF Faults
<1>4. ASSUME NEW hs, created' = created \ hs, step' = [step EXCEPT ![o] = @ + 1],
             UNCHANGED <<phase, caller, refVars, members, abandoned, frame, early, fault>>
      PROVE  TypeOK' /\ VulkanInv'
  <2>1. TypesOfHandles'
    BY <1>4 DEF TypeOK, TypesOfHandles
  <2>2. QED
    BY <1>4, <2>1, HandlesStep DEF Ties
<1>5. QED
  BY <1>1, <1>2, <1>3, <1>4

-----------------------------------------------------------------------------
\* One device's frame changes.
LEMMA FrameStep ==
  ASSUME TypeOK, VulkanInv, NEW d \in Devices, NEW f \in Frames, FrameOK(f),
         frame' = [frame EXCEPT ![d] = f]
  PROVE  /\ frame' \in [Devices -> Frames] /\ FrameInv' /\ frame'[d] = f
         /\ \A e \in Devices : e # d => frame'[e] = frame[e]
<1>1. frame' \in [Devices -> Frames] /\ frame'[d] = f
  BY DEF TypeOK
<1>2. \A e \in Devices : e # d => frame'[e] = frame[e]
  BY DEF TypeOK
<1>3. FrameInv'
  BY <1>1, <1>2 DEF VulkanInv, FrameInv
<1>4. QED
  BY <1>1, <1>2, <1>3

\* ... and nothing else.
LEMMA DrawsStep ==
  ASSUME TypeOK, VulkanInv, NEW d \in Devices, NEW f \in Frames, FrameOK(f), Draws(d, f),
         f.scene \in {"submitted", "waited"} => frame[d].scene \in {"submitted", "waited"}
  PROVE  TypeOK' /\ VulkanInv'
<1>1. frame' = [frame EXCEPT ![d] = f] /\ UNCHANGED <<objVars, refVars, gpuVars, early, fault>>
  BY DEF Draws
<1>2. /\ frame' \in [Devices -> Frames] /\ FrameInv'
      /\ \A e \in Devices : frame'[e].scene \in {"submitted", "waited"} =>
                              frame[e].scene \in {"submitted", "waited"}
  BY <1>1, FrameStep
<1>3. TypeOK'
  BY <1>1, <1>2 DEF TypeOK, TypesOfLifetimes, TypesOfHandles, objVars, refVars, gpuVars
<1>4. LifetimeSafe' /\ CallInv' /\ ParentKept' /\ ParentLostOnlyEarly'
  BY <1>1, <1>2, UntiedStep DEF Ties, objVars
<1>5. QED
  BY <1>2, <1>3, <1>4 DEF VulkanInv

\* A call of several steps on a live device starts or ends.
LEMMA CallStep ==
  ASSUME TypeOK, VulkanInv, NEW d \in Devices, NEW f \in Frames, FrameOK(f),
         phase[d] = "live", NEW c \in Refs \cup {Null},
         f.scene \in {"submitted", "waited"} => c \in Pointers(d),
         frame' = [frame EXCEPT ![d] = f], caller' = [caller EXCEPT ![d] = c],
         UNCHANGED <<phase, step, refVars, gpuVars, early, fault>>
  PROVE  TypeOK' /\ VulkanInv'
<1> USE VulkanAssumption DEF refVars
<1>1. /\ frame' \in [Devices -> Frames] /\ FrameInv' /\ frame'[d] = f
      /\ \A e \in Devices : e # d => frame'[e] = frame[e]
  BY FrameStep
<1>2. TypeOK'
  BY <1>1 DEF TypeOK, TypesOfLifetimes, TypesOfHandles, gpuVars, Objects
<1>3. \A p \in Objects :
        /\ Pointers(p)' = Pointers(p) /\ Deleters(p)' = Deleters(p)
        /\ Cardinality(Pointers(p))' = Cardinality(Pointers(p))
  BY DEF Pointers, Deleters
<1>4. caller'[d] = c /\ \A p \in Objects : p # d => caller'[p] = caller[p]
  BY DEF TypeOK, TypesOfLifetimes, Objects
<1>5. LifetimeSafe'
  <2> SUFFICES ASSUME NEW p \in Objects
               PROVE  CountExact(p)' /\ (p # Parent \/ ~early' => DeletedOnce(p)')
    BY DEF LifetimeSafe
  <2>1. CountExact(p) /\ (p # Parent \/ ~early => DeletedOnce(p))
    BY DEF VulkanInv, LifetimeSafe
  <2>2. CountExact(p)'
    BY <2>1, <1>3 DEF CountExact
  <2>3. CASE p = d
    BY <2>1, <2>2, <2>3, <1>3 DEF DeletedOnce
  <2>4. CASE p # d
    BY <2>1, <2>2, <2>4, <1>3, <1>4 DEF DeletedOnce
  <2>5. QED
    BY <2>3, <2>4
<1>6. CallInv'
  BY <1>1, <1>3, <1>4 DEF VulkanInv, CallInv, Objects
<1>7. ParentKept' /\ ParentLostOnlyEarly'
  BY <1>3 DEF VulkanInv, ParentKept, HasDevice, ParentLostOnlyEarly, Objects
<1>8. QED
  BY <1>1, <1>2, <1>5, <1>6, <1>7 DEF VulkanInv

\* A method of a device whose parent is gone.
LEMMA LostStep ==
  ASSUME TypeOK, VulkanInv, NEW d \in Devices, NEW r \in Refs, Holds(r, d), ParentLost(d),
         Fault("parentGone")
  PROVE  TypeOK' /\ VulkanInv'
<1>1. d \in Objects /\ d # Parent
  BY VulkanAssumption DEF Objects
<1>2. phase[d] = "live"
  BY <1>1, HeldIsLive
<1>3. early
  BY <1>2, ParentThere
<1>4. QED
  BY <1>3, FaultStep DEF Faults

\* The frame of a device is of its type.
LEMMA FrameTyped ==
  ASSUME TypeOK, VulkanInv, NEW d \in Devices
  PROVE  /\ frame[d] \in Frames /\ FrameOK(frame[d])
         /\ frame[d].pending \in Nat /\ frame[d].feeding \in Nat
         /\ frame[d].signaled \in BOOLEAN
<1>1. frame[d] \in Frames
  BY DEF TypeOK
<1>2. QED
  BY <1>1 DEF VulkanInv, FrameInv, Frames

-----------------------------------------------------------------------------
LEMMA ConstructFaultStep ==
  ASSUME TypeOK, VulkanInv, NEW o \in Objects, ConstructFault(o)
  PROVE  TypeOK' /\ VulkanInv'
<1>1. CASE ParentLost(o) /\ Fault("parentGone")
  BY <1>1, ParentThere, FaultStep DEF ConstructFault, Building, Faults, ParentLost, Objects
<1>2. CASE Fault("adapter")
  BY <1>2, FaultStep DEF Faults
<1>3. QED
  BY <1>1, <1>2 DEF ConstructFault

\* Pointers that are handed out: by AddRef and by GetDirect3D.
LEMMA HandOutStep ==
  ASSUME TypeOK, VulkanInv, NEW r \in Refs, NEW fresh \in Refs,
         AddRef(r, fresh) \/ GetDirect3D(r, fresh)
  PROVE  TypeOK' /\ VulkanInv'
<1>1. CASE AddRef(r, fresh)
  <2>1. PICK o \in Objects : Holds(r, o) /\ Take(o, fresh)
    BY <1>1 DEF AddRef
  <2>2. /\ r \in Pointers(o) /\ phase[o] \notin {"none", "failed"}
        /\ (o # Parent \/ ~early) => phase[o] = "live"
    BY <2>1, HeldIsLive
  <2>3. QED
    BY <2>1, <2>2, TakeStep
<1>2. CASE GetDirect3D(r, fresh)
  <2>1. PICK d \in Devices : Holds(r, d) /\ IF ParentLost(d) THEN Fault("parentGone")
                                            ELSE Take(Parent, fresh)
    BY <1>2 DEF GetDirect3D, Method, Calls
  <2>2. d \in Objects /\ d # Parent /\ Parent \in Objects
    BY VulkanAssumption DEF Objects
  <2>3. phase[d] = "live"
    BY <2>1, <2>2, HeldIsLive
  <2>4. CASE ParentLost(d)
    BY <2>1, <2>4, LostStep
  <2>5. CASE ~ParentLost(d)
    <3>1. phase[Parent] = "live" /\ Take(Parent, fresh)
      BY <2>1, <2>2, <2>5 DEF ParentLost
    <3>2. ~early => Pointers(Parent) # {}
      BY <2>3 DEF VulkanInv, ParentKept, HasDevice
    <3>3. QED
      BY <2>2, <3>1, <3>2, TakeStep
  <2>6. QED
    BY <2>4, <2>5
<1>3. QED
  BY <1>1, <1>2

\* Buffers and textures.
LEMMA ObtainStep ==
  ASSUME TypeOK, VulkanInv, NEW r \in Refs,
         (\E list \in Lists : CreateBuffer(r, list)) \/ CreateTexture(r)
  PROVE  TypeOK' /\ VulkanInv'
<1>1. PICK d \in Devices, kind \in Lists \cup {"image"}, kept \in BOOLEAN :
        Method(r, d, Obtain(d, kind, kept))
  BY DEF CreateBuffer, CreateTexture
<1>2. CASE ParentLost(d)
  BY <1>1, <1>2, LostStep DEF Method, Calls
<1>3. CASE ~ParentLost(d)
  <2>1. PICK n \in Free(d) : \/ IF kept THEN Keep(Pair(d, kind, n), d)
                                ELSE Lose(Pair(d, kind, n))
                             \/ Lose({Handle(d, kind, n)})
                             \/ Fault("unmade")
    BY <1>1, <1>3 DEF Method, Obtain
  <2>2. n \in Nat
    BY DEF Free
  <2>3. Pair(d, kind, n) \in SUBSET Handles /\ {Handle(d, kind, n)} \in SUBSET Handles
    BY <2>2 DEF Pair, Handle, Handles, MemoryOf, Lists, DeviceKinds, Objects
  <2>4. CASE Fault("unmade")
    BY <2>4, FaultStep DEF Faults
  <2>5. CASE ~Fault("unmade")
    BY <2>1, <2>3, <2>5, KeepOrLoseStep
  <2>6. QED
    BY <2>4, <2>5
<1>4. QED
  BY <1>2, <1>3

LEMMA BeginSceneStep ==
  ASSUME TypeOK, VulkanInv, NEW r \in Refs, BeginScene(r)
  PROVE  TypeOK' /\ VulkanInv'
<1>1. PICK d \in Devices :
        /\ frame[d].scene = "idle" /\ Holds(r, d)
        /\ \/ ParentLost(d) /\ Fault("parentGone")
           \/ Fault("unmade")
           \/ \E i \in {frame[d].imaged, TRUE} :
                Draws(d, [frame[d] EXCEPT !.scene = "recording", !.stale = FALSE, !.imaged = i])
           \/ Fault("semaphore") \/ Fault("nullIndex") \/ Fault("inUse")
  BY DEF BeginScene, Method, Calls
<1>2. CASE ParentLost(d) /\ Fault("parentGone")
  BY <1>1, <1>2, LostStep
<1>3. CASE Fault("unmade") \/ Fault("semaphore") \/ Fault("nullIndex") \/ Fault("inUse")
  BY <1>3, FaultStep DEF Faults
<1>4. ASSUME NEW i \in {frame[d].imaged, TRUE},
             Draws(d, [frame[d] EXCEPT !.scene = "recording", !.stale = FALSE, !.imaged = i])
      PROVE  TypeOK' /\ VulkanInv'
  <2> DEFINE f == [frame[d] EXCEPT !.scene = "recording", !.stale = FALSE, !.imaged = i]
  <2>0. frame[d] \in Frames /\ i \in BOOLEAN
    BY FrameTyped DEF Frames
  <2>1. f \in Frames
    BY <2>0 DEF Frames
  <2>2. FrameOK(f) /\ f.scene = "recording"
    <3>1. /\ f.scene = "recording" /\ f.signaled = frame[d].signaled
          /\ f.pending = frame[d].pending /\ f.feeding = frame[d].feeding
      BY <2>0 DEF Frames
    <3>2. QED
      BY <1>1, <3>1, FrameTyped DEF FrameOK
  <2>3. QED
    BY <1>4, <2>1, <2>2, DrawsStep
<1>5. QED
  BY <1>1, <1>2, <1>3, <1>4

LEMMA DrawUPStep ==
  ASSUME TypeOK, VulkanInv, NEW r \in Refs, DrawUP(r)
  PROVE  TypeOK' /\ VulkanInv'
<1>1. PICK d \in Devices :
        /\ frame[d].scene = "recording" /\ Holds(r, d)
        /\ \/ ParentLost(d) /\ Fault("parentGone")
           \/ Draws(d, [frame[d] EXCEPT !.stale = TRUE])
           \/ \E n \in Free(d), kinds \in {{"vertex"}, Lists} :
                Lose({Handle(d, kind, n) : kind \in kinds})
           \/ Fault("unmade")
  BY DEF DrawUP, Method, Calls
<1>2. CASE ParentLost(d) /\ Fault("parentGone")
  BY <1>1, <1>2, LostStep
<1>3. CASE Fault("unmade")
  BY <1>3, FaultStep DEF Faults
<1>4. CASE Draws(d, [frame[d] EXCEPT !.stale = TRUE])
  <2> DEFINE f == [frame[d] EXCEPT !.stale = TRUE]
  <2>1. f \in Frames
    BY FrameTyped DEF Frames
  <2>2. FrameOK(f) /\ f.scene = "recording"
    BY <1>1, FrameTyped DEF FrameOK, Frames
  <2>3. QED
    BY <1>4, <2>1, <2>2, DrawsStep
<1>5. ASSUME NEW n \in Free(d), NEW kinds \in {{"vertex"}, Lists},
             Lose({Handle(d, kind, n) : kind \in kinds})
      PROVE  TypeOK' /\ VulkanInv'
  <2>1. {Handle(d, kind, n) : kind \in kinds} \in SUBSET Handles
    BY DEF Free, Handle, Handles, Lists, DeviceKinds, Objects
  <2>2. QED
    BY <1>5, <2>1, KeepOrLoseStep
<1>6. QED
  BY <1>1, <1>2, <1>3, <1>4, <1>5

LEMMA PresentStep ==
  ASSUME TypeOK, VulkanInv, NEW r \in Refs, Present(r)
  PROVE  TypeOK' /\ VulkanInv'
<1>1. PICK d \in Devices :
        /\ Holds(r, d)
        /\ \/ ParentLost(d) /\ Fault("parentGone")
           \/ Fault("unmade") \/ Fault("semaphore") \/ Fault("nullIndex")
           \/ Draws(d, [frame[d] EXCEPT !.rendered = FALSE])
  BY DEF Present, Method, Calls
<1>2. CASE ParentLost(d) /\ Fault("parentGone")
  BY <1>1, <1>2, LostStep
<1>3. CASE Fault("unmade") \/ Fault("semaphore") \/ Fault("nullIndex")
  BY <1>3, FaultStep DEF Faults
<1>4. CASE Draws(d, [frame[d] EXCEPT !.rendered = FALSE])
  <2> DEFINE f == [frame[d] EXCEPT !.rendered = FALSE]
  <2>1. f \in Frames
    BY FrameTyped DEF Frames
  <2>2. FrameOK(f) /\ f.scene = frame[d].scene
    BY FrameTyped DEF FrameOK, Frames
  <2>3. QED
    BY <1>4, <2>1, <2>2, DrawsStep
<1>5. QED
  BY <1>1, <1>2, <1>3, <1>4

\* Reset waits and changes nothing.
LEMMA Stutter ==
  ASSUME TypeOK, VulkanInv, UNCHANGED vars
  PROVE  TypeOK' /\ VulkanInv'
<1>1. UNCHANGED <<Ties, frame, fault>> /\ TypesOfHandles'
  BY DEF vars, objVars, refVars, gpuVars, Ties, TypeOK, TypesOfHandles
<1>2. QED
  BY <1>1, HandlesStep

LEMMA ResetStep ==
  ASSUME TypeOK, VulkanInv, NEW r \in Refs, Reset(r)
  PROVE  TypeOK' /\ VulkanInv'
<1>1. PICK d \in Devices : Holds(r, d) /\ IF ParentLost(d) THEN Fault("parentGone")
                                         ELSE UNCHANGED vars
  BY DEF Reset, Method, Calls
<1>2. CASE ParentLost(d)
  BY <1>1, <1>2, LostStep
<1>3. CASE ~ParentLost(d)
  BY <1>1, <1>3, Stutter
<1>4. QED
  BY <1>2, <1>3

\* EndScene: the submission, ...
LEMMA EndSceneStep ==
  ASSUME TypeOK, VulkanInv, NEW r \in Refs, EndScene(r)
  PROVE  TypeOK' /\ VulkanInv'
<1>1. PICK d \in Devices :
        /\ frame[d].scene = "recording" /\ Holds(r, d)
        /\ \/ ParentLost(d) /\ Fault("parentGone")
           \/ Fault("unmade") \/ Fault("semaphore") \/ Fault("stale") \/ Fault("fence")
           \/ /\ \E f \in Submit(frame[d]) \cup {Refuse(frame[d])} :
                   frame' = [frame EXCEPT ![d] = f]
              /\ caller' = [caller EXCEPT ![d] = r]
              /\ UNCHANGED <<phase, step, refVars, gpuVars, early, fault>>
  BY DEF EndScene, Calls
<1>2. CASE ParentLost(d) /\ Fault("parentGone")
  BY <1>1, <1>2, LostStep
<1>3. CASE Fault("unmade") \/ Fault("semaphore") \/ Fault("stale") \/ Fault("fence")
  BY <1>3, FaultStep DEF Faults
<1>4. ASSUME NEW f \in Submit(frame[d]) PROVE f \in Frames /\ FrameOK(f)
  <2>1. PICK s \in {frame[d].signaled, FALSE} :
          f = [frame[d] EXCEPT !.scene = "submitted", !.imaged = FALSE, !.rendered = TRUE,
                               !.pending = @ + 1, !.feeding = @ + 1, !.signaled = s]
    BY DEF Submit
  <2>2. s \in BOOLEAN /\ (s => frame[d].signaled)
    BY FrameTyped
  <2>3. /\ frame[d].pending \in Nat /\ frame[d].feeding \in Nat
        /\ frame[d].pending + 1 \in Nat /\ frame[d].feeding + 1 \in Nat
        /\ frame[d] \in Frames
    BY FrameTyped
  <2>4. /\ frame[d].feeding <= frame[d].pending /\ frame[d].pending <= 1
        /\ frame[d].signaled => frame[d].pending = 0
    BY <1>1, FrameTyped DEF FrameOK
  <2>5. f \in Frames
    BY <2>1, <2>3, <2>2 DEF Frames
  <2>6. /\ f.pending = frame[d].pending + 1 /\ f.feeding = frame[d].feeding + 1
        /\ f.signaled = s /\ f.scene = "submitted"
    BY <2>1, FrameTyped DEF Frames
  <2>7. f.signaled => f.pending <= 1
    BY <2>6, <2>2, <2>4
  <2>8. FrameOK(f)
    BY <2>6, <2>3, <2>7, <2>4 DEF FrameOK
  <2>9. QED
    BY <2>5, <2>8
<1>5. Refuse(frame[d]) \in Frames /\ FrameOK(Refuse(frame[d]))
  <2> DEFINE f == Refuse(frame[d])
  <2>1. f \in Frames
    BY FrameTyped DEF Refuse, Frames
  <2>2. /\ f.pending = frame[d].pending /\ f.feeding = frame[d].feeding
        /\ f.signaled = frame[d].signaled /\ f.scene = "submitted" /\ f.refused
    BY FrameTyped DEF Refuse, Frames
  <2>3. QED
    BY <1>1, <2>1, <2>2, FrameTyped DEF FrameOK
<1>6. ASSUME NEW f \in Submit(frame[d]) \cup {Refuse(frame[d])},
             frame' = [frame EXCEPT ![d] = f],
             caller' = [caller EXCEPT ![d] = r],
             UNCHANGED <<phase, step, refVars, gpuVars, early, fault>>
      PROVE  TypeOK' /\ VulkanInv'
  <2>1. f \in Frames /\ FrameOK(f)
    BY <1>4, <1>5
  <2>2. d \in Objects /\ d # Parent
    BY VulkanAssumption DEF Objects
  <2>3. phase[d] = "live" /\ r \in Pointers(d)
    BY <1>1, <2>2, HeldIsLive
  <2>4. QED
    BY <1>6, <2>1, <2>3, CallStep
<1>7. QED
  BY <1>1, <1>2, <1>3, <1>6

\* ... the wait, and the reset.
LEMMA EndStep ==
  ASSUME TypeOK, VulkanInv, NEW d \in Devices, EndWait(d) \/ EndReset(d)
  PROVE  TypeOK' /\ VulkanInv'
<1>1. phase[d] = "live" /\ caller[d] \in Pointers(d)
  BY DEF EndWait, EndReset, VulkanInv, CallInv
<1>2. CASE ParentLost(d)
  BY <1>1, <1>2, ParentThere, FaultStep DEF EndWait, EndReset, Faults
<1>3. CASE EndWait(d) /\ ~ParentLost(d)
  <2> DEFINE f == [frame[d] EXCEPT !.scene = "waited"]
  <2>1. f \in Frames
    BY FrameTyped DEF Frames
  <2>2. f.signaled = frame[d].signaled /\ f.pending = frame[d].pending
        /\ f.feeding = frame[d].feeding /\ f.scene = "waited"
    BY FrameTyped DEF Frames
  <2>3. FrameOK(f)
    BY <1>3, <2>2, FrameTyped DEF FrameOK, EndWait
  <2>4. frame[d].scene = "submitted" /\ Draws(d, f)
    BY <1>3 DEF EndWait
  <2>5. QED
    BY <2>1, <2>3, <2>4, DrawsStep
<1>4. CASE EndReset(d) /\ ~ParentLost(d)
  <2> SUFFICES ASSUME ~Fault("fence") PROVE TypeOK' /\ VulkanInv'
    BY FaultStep DEF Faults
  <2>1. PICK k \in {frame[d].feeding, 0} :
          /\ frame' = [frame EXCEPT ![d] = [frame[d] EXCEPT !.signaled = FALSE, !.feeding = k,
                                                            !.scene = "idle", !.refused = FALSE]]
          /\ frame[d].scene = "waited"
          /\ caller' = [caller EXCEPT ![d] = Null]
          /\ UNCHANGED <<phase, step, refVars, gpuVars, early, fault>>
    BY <1>4, FrameTyped DEF EndReset, ResetFence, Frames
  <2> DEFINE f == [frame[d] EXCEPT !.signaled = FALSE, !.feeding = k, !.scene = "idle",
                                   !.refused = FALSE]
  <2>0. frame[d] \in Frames /\ k \in Nat
    BY FrameTyped
  <2>2. f \in Frames
    BY <2>0 DEF Frames
  <2>3. f.signaled = FALSE /\ f.pending = frame[d].pending /\ f.feeding = k
        /\ f.scene = "idle"
    BY FrameTyped DEF Frames
  <2>4. FrameOK(f)
    BY <2>1, <2>3, FrameTyped DEF FrameOK
  <2>5. QED
    BY <1>1, <2>1, <2>2, <2>3, <2>4, CallStep
<1>5. QED
  BY <1>2, <1>3, <1>4

\* The GPU.
LEMMA CompleteStep ==
  ASSUME TypeOK, VulkanInv, NEW d \in Devices, Complete(d)
  PROVE  TypeOK' /\ VulkanInv'
<1>1. frame[d].pending > 0
  BY DEF Complete
<1>2. CASE frame[d].feeding = frame[d].pending
  <2> DEFINE f == [frame[d] EXCEPT !.pending = @ - 1, !.feeding = @ - 1, !.signaled = TRUE]
  <2>0. frame[d] \in Frames /\ frame[d].pending - 1 \in Nat /\ frame[d].feeding - 1 \in Nat
    BY <1>1, <1>2, FrameTyped
  <2>1. f \in Frames
    BY <2>0 DEF Frames
  <2>2. f.signaled = TRUE /\ f.pending = frame[d].pending - 1
        /\ f.feeding = frame[d].feeding - 1 /\ f.scene = frame[d].scene
    BY FrameTyped DEF Frames
  <2>3. FrameOK(f)
    BY <1>1, <1>2, <2>2, FrameTyped DEF FrameOK
  <2>4. Draws(d, f)
    BY <1>2 DEF Complete
  <2>5. QED
    BY <2>1, <2>2, <2>3, <2>4, DrawsStep
<1>3. CASE frame[d].feeding # frame[d].pending
  <2> DEFINE f == [frame[d] EXCEPT !.pending = @ - 1]
  <2>1. f \in Frames
    BY <1>1, <1>3, FrameTyped DEF Frames
  <2>2. f.signaled = frame[d].signaled /\ f.pending = frame[d].pending - 1
        /\ f.feeding = frame[d].feeding /\ f.scene = frame[d].scene
    BY FrameTyped DEF Frames
  <2>3. FrameOK(f)
    BY <1>1, <1>3, <2>2, FrameTyped DEF FrameOK
  <2>4. Draws(d, f)
    BY <1>3 DEF Complete
  <2>5. QED
    BY <2>1, <2>2, <2>3, <2>4, DrawsStep
<1>4. QED
  BY <1>2, <1>3

-----------------------------------------------------------------------------
\* Direct3DCreate9 and CreateDevice.
LEMMA CreateStep ==
  ASSUME TypeOK, VulkanInv, NEW r \in Refs,
         Direct3DCreate9(r) \/ \E fresh \in Refs, d \in Devices : CreateDevice(r, fresh, d)
  PROVE  TypeOK' /\ VulkanInv'
<1>1. CASE Direct3DCreate9(r)
  BY <1>1, NewStep DEF Direct3DCreate9, Objects
<1>2. ASSUME NEW fresh \in Refs, NEW d \in Devices, CreateDevice(r, fresh, d)
      PROVE  TypeOK' /\ VulkanInv'
  <2>1. d \in Objects /\ d # Parent
    BY VulkanAssumption DEF Objects
  <2>2. Holds(r, Parent) /\ New(d, fresh, r)
    BY <1>2 DEF CreateDevice
  <2>3. QED
    BY <2>1, <2>2, NewStep
<1>3. QED
  BY <1>1, <1>2

\* Every step of the parent, the devices, their clients and the GPU.
THEOREM StepSafe == TypeOK /\ VulkanInv /\ [Next]_vars => TypeOK' /\ VulkanInv'
<1> SUFFICES ASSUME TypeOK, VulkanInv, [Next]_vars PROVE TypeOK' /\ VulkanInv'
  OBVIOUS
<1>1. ASSUME NEW o \in Objects,
             Construct(o) \/ Throw(o) \/ ConstructFault(o) \/ Constructed(o)
      PROVE  TypeOK' /\ VulkanInv'
  BY <1>1, ConstructStep, ThrowStep, ConstructFaultStep, ConstructedStep
<1>2. ASSUME NEW r \in Refs, Lifetime(r)
      PROVE  TypeOK' /\ VulkanInv'
  <2>1. CASE Direct3DCreate9(r) \/ \E fresh \in Refs, d \in Devices : CreateDevice(r, fresh, d)
    BY <2>1, CreateStep
  <2>2. CASE \E fresh \in Refs : AddRef(r, fresh) \/ GetDirect3D(r, fresh)
    BY <2>2, HandOutStep
  <2>3. CASE Release(r) \/ ReleaseReturns(r) \/ Delete(r) \/ Destroy(r) \/ Destroyed(r)
    BY <2>3, ReleaseStep, ReleaseReturnsStep, DeleteStep, DestroyStep, DestroyedStep
  <2>4. QED
    BY <1>2, <2>1, <2>2, <2>3 DEF Lifetime
<1>3. ASSUME NEW r \in Refs, Rendering(r)
      PROVE  TypeOK' /\ VulkanInv'
  <2>1. CASE (\E list \in Lists : CreateBuffer(r, list)) \/ CreateTexture(r)
    BY <2>1, ObtainStep
  <2>2. CASE BeginScene(r) \/ DrawUP(r) \/ EndScene(r) \/ Present(r)
    BY <2>2, BeginSceneStep, DrawUPStep, EndSceneStep, PresentStep
  <2>3. CASE Reset(r)
    BY <2>3, ResetStep
  <2>4. QED
    BY <1>3, <2>1, <2>2, <2>3 DEF Rendering
<1>4. ASSUME NEW d \in Devices, EndWait(d) \/ EndReset(d) \/ Complete(d)
      PROVE  TypeOK' /\ VulkanInv'
  BY <1>4, EndStep, CompleteStep
<1>5. CASE UNCHANGED vars
  BY <1>5, Stutter
<1>6. QED
  BY <1>1, <1>2, <1>3, <1>4, <1>5 DEF Next

\* The invariant, for any number of pointers and devices.
THEOREM Safety == Spec => [](TypeOK /\ VulkanInv)
BY InitSafe, StepSafe, PTL DEF Spec

\* Types; no count of references goes below zero.
THEOREM TypeCorrect == Spec => []TypeOK
BY Safety, PTL

\* AddRef, Release, QueryInterface and GetDirect3D from any number of threads:
\* each count is the number of pointers, and one thread deletes each object.
THEOREM LifetimesHold == Spec => []LifetimeSafe
<1>1. VulkanInv => LifetimeSafe
  BY DEF VulkanInv
<1>2. QED
  BY <1>1, Safety, PTL

\* A device outlives its parent only when a client released its last pointer to
\* the parent while it had a device.
THEOREM ParentLossExplained == Spec => []ParentLostOnlyEarly
<1>1. VulkanInv => ParentLostOnlyEarly
  BY DEF VulkanInv
<1>2. QED
  BY <1>1, Safety, PTL

\* When a scene begins, at most one earlier one is unfinished.
THEOREM FenceLags == Spec => []FrameLag
<1>1. VulkanInv => FrameLag
  BY DEF VulkanInv, FrameInv, FrameOK, FrameLag
<1>2. QED
  BY <1>1, Safety, PTL

\* WaitAnswered: EndScene waits for a fence that is signaled or is going to be,
\* unless its own submission was refused.
THEOREM WaitsAnswered == Spec => []WaitAnswered
<1>1. VulkanInv => WaitAnswered
  BY DEF VulkanInv, FrameInv, FrameOK, WaitAnswered
<1>2. QED
  BY <1>1, Safety, PTL
=============================================================================

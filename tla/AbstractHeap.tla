---------------------------- MODULE AbstractHeap ----------------------------
(***************************************************************************)
(* What the client of a memory pool relies on, whatever the pool does      *)
(* inside: an extent it is handed lies in the arena, is aligned, and meets *)
(* no extent handed out before and not given back.  Specification of       *)
(* CustomMalloc, CustomFree and CustomRealloc in "src/Redone/Overdrive     *)
(* exe.cpp" for requests the arena serves.                                 *)
(***************************************************************************)
EXTENDS Integers

CONSTANTS Lo, Hi, Alignment   \* the arena is Lo .. Hi - 1

VARIABLE heap                 \* the extents [addr, size] handed out

Apart(e, g) == e.addr + e.size <= g.addr \/ g.addr + g.size <= e.addr

Fresh(e) ==
  /\ Lo <= e.addr /\ e.addr + e.size <= Hi
  /\ e.addr % Alignment = 0
  /\ \A g \in heap : Apart(e, g)

Init == heap = {}

Obtain  == \E e \in heap' \ heap : Fresh(e) /\ heap' = heap \cup {e}
Release == \E g \in heap : heap' = heap \ {g}
\* The copy is made before the old extent is given back, so the two are apart.
Resize  == \E g \in heap, e \in heap' \ heap :
             Fresh(e) /\ heap' = (heap \ {g}) \cup {e}

Next == Obtain \/ Release \/ Resize
Spec == Init /\ [][Next]_heap
=============================================================================

------------------------------- MODULE MCPool -------------------------------
(***************************************************************************)
(* Instances of the memory pool.  A unit of the small arena stands for     *)
(* Alignment = 4 bytes: 3 is the least pooled request (one unit), 5 is the *)
(* most (two units), 1 and 6 and more go to the C heap.  size_t is twice   *)
(* the arena, as 2^32 is twice 2 GiB; the two largest runs make do with 28 *)
(* values, where offset still passes the limit by refusals and then wraps. *)
(***************************************************************************)
EXTENDS PoolProperties

CONSTANTS a, f, g   \* threads

None   == {}
OnlyA  == {a}
OnlyF  == {f}
AandF  == {a, f}
FandG  == {f, g}
Products == {<<8, 4>>}   \* 32 wraps to 4 where size_t has 28 values
=============================================================================

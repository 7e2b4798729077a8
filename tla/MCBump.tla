------------------------------- MODULE MCBump -------------------------------
(***************************************************************************)
(* Instances of MemoryPool.dll: an arena of 5 bytes between two addresses  *)
(* where the C library finds memory, the lower one below POOL_SIZE.        *)
(***************************************************************************)
EXTENDS BumpProperties

CONSTANTS a, b   \* threads

TwoThreads == {a, b}
Both       == {"msvcrt", "ucrtbase"}
Msvcrt     == {"msvcrt"}
=============================================================================

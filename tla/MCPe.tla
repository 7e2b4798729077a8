-------------------------------- MODULE MCPe --------------------------------
(***************************************************************************)
(* Instances of the patch programs: the game's section ends off both       *)
(* alignments, so that rounding matters.                                   *)
(***************************************************************************)
EXTENDS PeProperties

OwnSection == [va |-> 4, vsize |-> 5, raw |-> 2, rawsize |-> 3]
AllTools   == {"redone", "console", "injector", "zero"}
OnlyConsole == {"console"}
=============================================================================

------------------------------ MODULE MCSession ------------------------------
(***************************************************************************)
(* Instances of the sessions: the signature across the end of a region,    *)
(* where it cannot be read, twice, and last in a region.                   *)
(***************************************************************************)
EXTENDS SessionProperties, TLC

Region(prot, bytes) == [prot |-> prot, bytes |-> bytes]
Constant == Region("readonly", <<"00", "75", "40">>)

LowMatch  == <<Region("guard", <<"75", "40">>), Region("readonly", <<"75", "75">>),
               Region("readwrite", <<"40", "75", "40", "75", "40">>), Constant>>
CodeMatch == <<Constant, Region("execute", <<"75", "40">>)>>

Symmetry == Permutations(Procs)

OneLayout  == {CodeMatch}
TwoLayouts == {LowMatch, CodeMatch}
=============================================================================

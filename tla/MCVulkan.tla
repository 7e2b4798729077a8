------------------------------ MODULE MCVulkan ------------------------------
(***************************************************************************)
(* Instances of Direct3D 9 over Vulkan.                                    *)
(***************************************************************************)
EXTENDS VulkanProperties, TLC

Symmetry == Permutations(Refs)
=============================================================================

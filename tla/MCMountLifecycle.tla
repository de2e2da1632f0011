-------------------------- MODULE MCMountLifecycle --------------------------
(* MountLifecycle for TLC.                                                 *)
EXTENDS MountLifecycle, TLC

\* Mount points, trees and tables differ in nothing but their addresses.
Symmetry ==
    Permutations(Mounts) \cup Permutations(Trees) \cup Permutations(Tables)
=============================================================================

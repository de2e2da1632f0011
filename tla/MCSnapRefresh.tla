---------------------------- MODULE MCSnapRefresh ----------------------------
(* SnapRefresh for TLC.                                                    *)
EXTENDS SnapRefresh, TLC

\* Callers, workers and snapshots differ in nothing but their names.
Symmetry ==
    Permutations(Callers) \cup Permutations(Workers) \cup Permutations(Snaps)
=============================================================================

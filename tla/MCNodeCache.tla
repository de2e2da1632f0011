---------------------------- MODULE MCNodeCache ----------------------------
(* Instances of NodeCache for TLC.                                         *)
EXTENDS NodeCache, TLC

\* Threads, identities, node addresses and vnodes are interchangeable.
Symmetry ==
    Permutations(Threads) \cup Permutations(Keys)
        \cup Permutations(Nodes) \cup Permutations(Vnodes)
=============================================================================

------------------------- MODULE NodeCacheRefinement -------------------------
(***************************************************************************)
(* The sfsnode cache implements VnodeTable.  An identity is bound from the *)
(* vnode_create() in the callback until sysfs_vnop_reclaim() frees the     *)
(* sfsnode_t; a thread holds a vnode from the moment it has an iocount.    *)
(***************************************************************************)
EXTENDS NodeCache

\* The vnodes whose sfsnode_t is the node k.
BoundTo(k) ==
    {v \in Vnodes : /\ vnode[v].state \in {"live", "reclaim"}
                    /\ sfsnode[vnode[v].fsnode].key = k}

BindingMap == [k \in Keys |-> IF BoundTo(k) = {} THEN NULL
                              ELSE CHOOSE v \in BoundTo(k) : TRUE]

HoldsMap == [t \in Threads |-> IF pc[t] \in {"attach", "have"} THEN tvnode[t]
                               ELSE NULL]

Table == INSTANCE VnodeTable WITH binding <- BindingMap, holds <- HoldsMap

\* sysfsnode_find() and sysfs_vnop_reclaim(), with every interleaving of their
\* steps, behave like atomic lookups, releases and evictions: no caller ever
\* gets a vnode that is not, at the moment it gets the iocount, the one vnode
\* of the identity it asked for, and none is evicted under a holder.
ImplementsVnodeTable == Table!Spec

\* The refinement follows the call: a thread that asked for one identity never
\* comes to hold the vnode of another, even when the vnode was recycled and
\* given to another node between the unlock and vnode_getwithvid().
GetsWhatItAskedFor ==
    [][\A t \in Threads :
         HoldsMap[t] = NULL /\ HoldsMap'[t] # NULL =>
             HoldsMap'[t] = BindingMap'[key[t]]]_vars
=============================================================================

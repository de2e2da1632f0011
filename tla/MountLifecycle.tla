--------------------------- MODULE MountLifecycle ---------------------------
(***************************************************************************)
(* Loading the kext (kext/sysfs.c), and mounting and unmounting the file   *)
(* system (kext/sysfs_vfsops.c): the data that all mounts share, namely    *)
(* the mount id, the instance count, the structure tree and the hash       *)
(* table, and what each mount takes from it.                               *)
(*                                                                         *)
(* VFS serialises the operations on one mount with the mnt_rwlock of its   *)
(* struct mount.  Operations on different mounts are not serialised by it  *)
(* and may overlap.  The history variables overlapped and plural record    *)
(* whether they have, and whether there have been several mounts at once.  *)
(***************************************************************************)
EXTENDS Naturals, FiniteSets

CONSTANTS
    Mounts,         \* mount points
    Trees,          \* addresses of structure trees (their root nodes)
    Tables,         \* addresses of hash tables
    NULL,
    MaxId           \* bound on the number of mounts

ASSUME MountLifecycleAssumption ==
    /\ NULL \notin Trees \cup Tables
    /\ IsFiniteSet(Mounts)
    /\ MaxId \in Nat

VARIABLES
    kext,           \* how far sysfs_start() or sysfs_stop() has come
    resources,      \* what sysfs_init() has allocated
    mountId,        \* sysfs_mount_id
    instances,      \* mounted_instance_count
    root,           \* root_node
    trees,          \* allocated structure trees
    grown,          \* those that sysfs_structure_init() has completed
    buckets,        \* sfsnode_hash_buckets
    tables,         \* allocated hash tables
    pc,             \* where the mount or unmount of each mount point is
    id,             \* pmnt_id
    node,           \* the tree and the table that the mount's nodes are in
    overlapped,     \* operations on different mounts have overlapped
    plural          \* there have been two mounts at a time

kextVars == <<kext, resources>>
countVars == <<mountId, instances>>
treeVars == <<root, trees, grown>>
tableVars == <<buckets, tables>>
sharedVars == <<countVars, treeVars, tableVars>>
mountVars == <<pc, id, node>>
history == <<overlapped, plural>>
vars == <<kextVars, sharedVars, mountVars, history>>

Mounting == {"id", "count", "structure", "alloc", "grow", "hash"}
Unmounting == {"decrement", "hashfree", "hashclear", "release", "clear"}

Init ==
    /\ kext = "unloaded" /\ resources = {}
    /\ mountId = 0 /\ instances = 0
    /\ root = NULL /\ trees = {} /\ grown = {}
    /\ buckets = NULL /\ tables = {}
    /\ pc = [m \in Mounts |-> "none"]
    /\ id = [m \in Mounts |-> 0]
    /\ node = [m \in Mounts |-> NULL]
    /\ overlapped = FALSE /\ plural = FALSE

Goto(m, where) == pc' = [pc EXCEPT ![m] = where]

-----------------------------------------------------------------------------
(* sysfs_start(), sysfs_init(), sysfs_stop() and sysfs_fini().             *)

\* The allocations of sysfs_init(), in order.
InitTag ==
    /\ kext = "unloaded" /\ \A m \in Mounts : pc[m] = "none"
    /\ kext' = "tag" /\ resources' = {"tag"}
    /\ mountId' = 0
    /\ UNCHANGED <<instances, treeVars, tableVars, mountVars, history>>

InitGrp ==
    /\ kext = "tag"
    /\ kext' = "grp" /\ resources' = resources \cup {"grp"}
    /\ UNCHANGED <<sharedVars, mountVars, history>>

InitMutex ==
    /\ kext = "grp"
    /\ kext' = "mutex" /\ resources' = resources \cup {"mutex"}
    /\ UNCHANGED <<sharedVars, mountVars, history>>

\* One of them fails: what went before is freed (fail_grp, fail_tag).
InitFail ==
    /\ kext \in {"tag", "grp"}
    /\ resources' = resources \ (IF kext = "grp" THEN {"grp", "tag"}
                                 ELSE {"tag"})
    /\ kext' = "unloaded"
    /\ UNCHANGED <<sharedVars, mountVars, history>>

\* vfs_fsadd() succeeds,
FsAdd ==
    /\ kext = "mutex"
    /\ kext' = "loaded"
    /\ UNCHANGED <<resources, sharedVars, mountVars, history>>

\* or fails, and sysfs_fini() undoes sysfs_init().
FsAddFail ==
    /\ kext = "mutex"
    /\ kext' = "unloaded" /\ resources' = {}
    /\ UNCHANGED <<sharedVars, mountVars, history>>

\* vfs_fsremove() is refused as long as a mount exists.
FsRemove ==
    /\ kext = "loaded" /\ \A m \in Mounts : pc[m] = "none"
    /\ kext' = "removed"
    /\ UNCHANGED <<resources, sharedVars, mountVars, history>>

\* Mutant: the mutex is not freed.
FiniKeepsMutex ==
    /\ kext = "removed"
    /\ kext' = "unloaded" /\ resources' = resources \ {"tag", "grp"}
    /\ UNCHANGED <<sharedVars, mountVars, history>>

Fini ==
    /\ kext = "removed"
    /\ kext' = "unloaded" /\ resources' = resources \ {"tag", "grp", "mutex"}
    /\ UNCHANGED <<sharedVars, mountVars, history>>

-----------------------------------------------------------------------------
(* sysfs_mount().                                                          *)

\* An operation on m begins.
Begin(m) ==
    LET others == {o \in Mounts \ {m} : pc[o] # "none"}
    IN /\ plural' = (plural \/ others # {})
       /\ overlapped' = (overlapped \/ \E o \in others : pc[o] # "mounted")

\* The sfsmount_t is allocated and the counter of mount ids incremented.  If the
\* allocation fails, sysfs_mount() returns ENOMEM and nothing has changed.
Mount(m) ==
    /\ kext = "loaded" /\ pc[m] = "none"
    /\ mountId < MaxId
    /\ Begin(m)
    /\ mountId' = mountId + 1
    /\ Goto(m, "id")
    /\ UNCHANGED <<instances, treeVars, tableVars, id, node, kextVars>>

\* Mutant: the id of the mount is the number of instances.
TakeInstanceAsId(m) ==
    /\ pc[m] = "id"
    /\ id' = [id EXCEPT ![m] = instances + 1]
    /\ Goto(m, "count")
    /\ UNCHANGED <<node, sharedVars, kextVars, history>>

\* The id is read back from the counter.
TakeId(m) ==
    /\ pc[m] = "id"
    /\ id' = [id EXCEPT ![m] = mountId]
    /\ Goto(m, "count")
    /\ UNCHANGED <<node, sharedVars, kextVars, history>>

\* populate_statfs_info(), which follows, fills in what nothing here reads.
CountMount(m) ==
    /\ pc[m] = "count"
    /\ instances' = instances + 1
    /\ Goto(m, "structure")
    /\ UNCHANGED <<mountId, treeVars, tableVars, id, node, kextVars, history>>

\* sysfs_structure_init(): is there a tree?
StructureCheck(m) ==
    /\ pc[m] = "structure"
    /\ Goto(m, IF root = NULL THEN "alloc" ELSE "hash")
    /\ UNCHANGED <<id, node, sharedVars, kextVars, history>>

\* Its root is allocated and published,
StructureRoot(m) ==
    /\ pc[m] = "alloc"
    /\ \E t \in Trees \ trees : root' = t /\ trees' = trees \cup {t}
    /\ Goto(m, "grow")
    /\ UNCHANGED <<countVars, grown, tableVars, id, node, kextVars, history>>

\* and the rest of the nodes are added to it.
StructureGrow(m) ==
    /\ pc[m] = "grow"
    /\ grown' = grown \cup ({root} \ {NULL})
    /\ Goto(m, "hash")
    /\ UNCHANGED <<countVars, root, trees, tableVars, id, node, kextVars,
                   history>>

\* sysfs_iokit_prime() has nothing to do with this state (see SnapRefresh).
\* The hash table is made under the mutex, unless there is one.
HashInit(m) ==
    /\ pc[m] = "hash"
    /\ IF buckets = NULL
       THEN \E b \in Tables \ tables :
                buckets' = b /\ tables' = tables \cup {b}
       ELSE UNCHANGED tableVars
    /\ Goto(m, "mounted")
    /\ UNCHANGED <<countVars, treeVars, id, node, kextVars, history>>

-----------------------------------------------------------------------------
(* The mounted file system, seen through its nodes.                        *)

\* sysfs_root() puts a node for the root of the tree into the hash table, and
\* lookups put others of the same tree beside it.
UseRoot(m) ==
    /\ pc[m] = "mounted" /\ node[m] = NULL
    /\ root # NULL /\ buckets # NULL
    /\ node' = [node EXCEPT ![m] = [tree |-> root, table |-> buckets]]
    /\ UNCHANGED <<pc, id, sharedVars, kextVars, history>>

\* All vnodes of the mount are reclaimed, and its nodes freed.
Reclaim(m) ==
    /\ pc[m] = "mounted" /\ node[m] # NULL
    /\ node' = [node EXCEPT ![m] = NULL]
    /\ UNCHANGED <<pc, id, sharedVars, kextVars, history>>

-----------------------------------------------------------------------------
(* sysfs_unmount().                                                        *)

\* vflush() forces every node out, and the sfsmount_t is freed.
Unmount(m) ==
    /\ pc[m] = "mounted"
    /\ Begin(m)
    /\ node' = [node EXCEPT ![m] = NULL]
    /\ id' = [id EXCEPT ![m] = 0]
    /\ Goto(m, "decrement")
    /\ UNCHANGED <<sharedVars, kextVars>>

\* Mutant: the value after the decrement is compared with 1.
DecrementTestsNew(m) ==
    /\ pc[m] = "decrement"
    /\ instances' = instances - 1
    /\ Goto(m, IF instances' = 1 THEN "hashfree" ELSE "release")
    /\ UNCHANGED <<mountId, treeVars, tableVars, id, node, kextVars, history>>

\* Mutant: the count is not decremented.
DecrementForgotten(m) ==
    /\ pc[m] = "decrement"
    /\ Goto(m, IF instances = 1 THEN "hashfree" ELSE "release")
    /\ UNCHANGED <<id, node, sharedVars, kextVars, history>>

\* The last mount destroys the hash table.
Decrement(m) ==
    /\ pc[m] = "decrement"
    /\ instances' = instances - 1
    /\ Goto(m, IF instances = 1 THEN "hashfree" ELSE "release")
    /\ UNCHANGED <<mountId, treeVars, tableVars, id, node, kextVars, history>>

\* hashdestroy(), which does not take the mutex,
HashFree(m) ==
    /\ pc[m] = "hashfree"
    /\ tables' = tables \ {buckets}
    /\ Goto(m, IF buckets = NULL THEN "release" ELSE "hashclear")
    /\ UNCHANGED <<countVars, treeVars, buckets, id, node, kextVars, history>>

\* and then the pointer is reset.
HashClear(m) ==
    /\ pc[m] = "hashclear"
    /\ buckets' = NULL
    /\ Goto(m, "release")
    /\ UNCHANGED <<countVars, treeVars, tables, id, node, kextVars, history>>

\* Mutant: the tree is left allocated.
StructureKeep(m) ==
    /\ pc[m] = "release"
    /\ Goto(m, IF root = NULL THEN "none" ELSE "clear")
    /\ UNCHANGED <<id, node, sharedVars, kextVars, history>>

\* sysfs_structure_free(), called by every unmount: release_node() frees the
\* tree,
StructureRelease(m) ==
    /\ pc[m] = "release"
    /\ trees' = trees \ {root} /\ grown' = grown \ {root}
    /\ Goto(m, IF root = NULL THEN "none" ELSE "clear")
    /\ UNCHANGED <<countVars, root, tableVars, id, node, kextVars, history>>

\* Mutant: the pointer stays.
StructureClearNothing(m) ==
    /\ pc[m] = "clear"
    /\ Goto(m, "none")
    /\ UNCHANGED <<id, node, sharedVars, kextVars, history>>

\* and the pointer is reset.
StructureClear(m) ==
    /\ pc[m] = "clear"
    /\ root' = NULL
    /\ Goto(m, "none")
    /\ UNCHANGED <<countVars, trees, grown, tableVars, id, node, kextVars,
                   history>>

-----------------------------------------------------------------------------
Next ==
    \/ InitTag \/ InitGrp \/ InitMutex \/ InitFail
    \/ FsAdd \/ FsAddFail \/ FsRemove \/ Fini
    \/ \E m \in Mounts :
          \/ Mount(m) \/ TakeId(m) \/ CountMount(m)
          \/ StructureCheck(m) \/ StructureRoot(m) \/ StructureGrow(m)
          \/ HashInit(m)
          \/ UseRoot(m) \/ Reclaim(m)
          \/ Unmount(m) \/ Decrement(m) \/ HashFree(m) \/ HashClear(m)
          \/ StructureRelease(m) \/ StructureClear(m)

Spec == Init /\ [][Next]_vars

-----------------------------------------------------------------------------
(* Properties.                                                             *)

\* Every node of the file system carries pmnt_id, and sysfsnode_find() tells
\* the mounts apart by it: no two mounts have the same, also when some have been
\* unmounted in between, provided that no two mounts run at once.
UniqueIds ==
    ~overlapped =>
        \A m, n \in Mounts : m # n /\ id[m] # 0 => id[m] # id[n]

\* Where a mount is between its increment of the count and its decrement.
Counted == {"structure", "alloc", "grow", "hash", "mounted", "decrement"}

\* mounted_instance_count is right whatever mounts and unmounts overlap, so that
\* exactly the last unmount sees 1 as the value before its decrement.
CountExact ==
    instances = Cardinality({m \in Mounts : pc[m] \in Counted})

\* As long as a file system is mounted there is a hash table for its nodes, and
\* hashdestroy() never frees a table that a node is still linked into.
TableServesMounts ==
    \A m \in Mounts :
        /\ pc[m] = "mounted" => buckets \in tables
        /\ node[m] # NULL => node[m].table = buckets /\ buckets \in tables

\* That holds over any sequence of mounts and unmounts that do not overlap.
TableServesMountsInTurn == ~overlapped => TableServesMounts

\* As long as a file system is mounted, root_node is a complete tree, and the
\* node_structure_node of its nodes is allocated.
StructureServesMounts ==
    \A m \in Mounts :
        /\ pc[m] = "mounted" => root \in trees /\ root \in grown
        /\ node[m] # NULL => node[m].tree \in trees

\* That holds over any sequence of mounts, unmounts and reloads as long as there
\* is one mount at a time.
StructureServesSoleMount == ~plural => StructureServesMounts

\* sysfs_structure_free() "should only be called while unmounting the last
\* instance": the tree would serve several mounts as well, if they come and go
\* in turn.
StructureServesMountsInTurn == ~overlapped => StructureServesMounts

\* The tree and the hash table are never lost while allocated, and when nothing
\* is mounted there is neither, provided that operations do not overlap.
SharedDataOwned ==
    ~overlapped =>
        /\ trees \subseteq {root} /\ tables \subseteq {buckets}
        /\ (\A m \in Mounts : pc[m] = "none") => root = NULL /\ buckets = NULL

\* What sysfs_init() allocates is there as long as a mount may use it, and an
\* unloaded kext has left nothing behind, whichever step of loading it failed.
ResourcesMatch ==
    /\ (\E m \in Mounts : pc[m] # "none") => resources = {"tag", "grp", "mutex"}
    /\ kext = "unloaded" => resources = {}

-----------------------------------------------------------------------------
(* The inductive invariant.                                                *)

TypeOK ==
    /\ kext \in {"unloaded", "tag", "grp", "mutex", "loaded", "removed"}
    /\ resources \subseteq {"tag", "grp", "mutex"}
    /\ mountId \in Nat
    /\ root \in Trees \cup {NULL} /\ trees \subseteq Trees
    /\ buckets \in Tables \cup {NULL} /\ tables \subseteq Tables
    /\ pc \in [Mounts -> Mounting \cup Unmounting \cup {"none", "mounted"}]
    /\ id \in [Mounts -> Nat]
    /\ node \in [Mounts -> [tree : Trees, table : Tables] \cup {NULL}]
    /\ overlapped \in BOOLEAN /\ plural \in BOOLEAN

Busy(m) == pc[m] \notin {"none", "mounted"}

\* What is allocated at each stage of loading; mounts need all of it.
LoadInv ==
    /\ (\E m \in Mounts : pc[m] # "none") => kext = "loaded"
    /\ "tag" \in resources <=> kext # "unloaded"
    /\ "grp" \in resources <=> kext \notin {"unloaded", "tag"}
    /\ "mutex" \in resources <=> kext \in {"mutex", "loaded", "removed"}

\* What the history variables remember.
HistoryInv ==
    /\ overlapped => plural
    /\ ~overlapped => \A m, n \in Mounts : Busy(m) /\ Busy(n) => m = n
    /\ ~plural => \A m, n \in Mounts : pc[m] # "none" /\ pc[n] # "none" => m = n

\* A mount point has an id from TakeId to Unmount, and a mount that is about to
\* take one takes a new one.
IdInv ==
    /\ \A m \in Mounts : /\ id[m] <= mountId
                         /\ id[m] # 0 => pc[m] \notin Unmounting \cup {"none", "id"}
    /\ ~overlapped =>
          \A m, n \in Mounts : pc[m] = "id" => id[n] < mountId

\* Nodes exist on mounted file systems only.  Without overlap the hash table is
\* there for as long as anything is mounted, and an unmount that destroys it is
\* the only mount left.
TableInv ==
    /\ \A m \in Mounts : node[m] # NULL => pc[m] = "mounted"
    /\ ~overlapped =>
          /\ tables \subseteq {buckets}
          /\ buckets \in tables \/ buckets = NULL
                \/ \E m \in Mounts : pc[m] = "hashclear"
          /\ \A m \in Mounts : pc[m] = "hashclear" => tables = {}
          /\ \A m \in Mounts : pc[m] = "mounted" => buckets # NULL
          /\ \A m \in Mounts : pc[m] \in {"hashfree", "hashclear"} =>
                \A n \in Mounts : n # m => pc[n] = "none"
          /\ buckets # NULL => \E m \in Mounts :
                pc[m] \in {"mounted", "decrement", "hashfree", "hashclear"}
          /\ \A m \in Mounts : node[m] # NULL => node[m].table = buckets

\* Without overlap root_node is the only tree, and it is there only on behalf of
\* a mount that has built it or is going to free it.
TreeInv ==
    ~overlapped =>
        /\ trees \subseteq {root}
        /\ \A m \in Mounts : pc[m] = "alloc" => root = NULL
        /\ \A m \in Mounts : pc[m] = "clear" => trees = {}
        /\ root # NULL => \E m \in Mounts :
              pc[m] \in {"grow", "hash", "mounted"} \cup Unmounting

\* The tree of a file system that has always been mounted alone.
SoleInv ==
    ~plural =>
        \A m \in Mounts :
            /\ pc[m] = "grow" => root \in trees
            /\ pc[m] \in {"hash", "mounted"} => root \in trees /\ root \in grown
            /\ node[m] # NULL => node[m].tree = root

\* All of it, with the properties above that are part of the induction.
IInv ==
    /\ TypeOK
    /\ CountExact
    /\ LoadInv /\ ResourcesMatch
    /\ HistoryInv
    /\ IdInv /\ UniqueIds
    /\ TableInv
    /\ TreeInv
    /\ SoleInv

=============================================================================

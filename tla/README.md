# A formal model of mSL/SysFS

This directory holds TLA+ specifications of the mSL/SysFS kernel extension, the
configurations with which TLC checks them, and proofs that TLAPS checks. The
code is C and C++ under `kext/`, a mount helper in `fs/` and a boot script in
`tools/`; line numbers of every definition are in the `map` of `PROJECT.json`.

## The system and its parts

| Part | Code | State it owns | Operations | Hard behaviour |
|---|---|---|---|---|
| node cache | `kext/sysfs_node.c`, reclaim and vnode creation in `sysfs_vnops.c` | hash table of `sfsnode_t`, `node_vnode`, `node_attaching_vnode`, `node_thread_waiting_attach`, `sysfs_stat_live_nodes` | `sysfsnode_find`, `sysfsnode_free_node`, `sysfs_vnop_reclaim` | drops its mutex to allocate, to sleep, to get and to create a vnode; races with reclaim |
| snapshot refresh | `kext/sysfs_iokit.cpp` 173-246, 464-522, 596-604, 703-923 | `g_snapshot`, `g_building`, `g_refresh_pending`, `g_snap_gen`, `g_last_*`, `g_lock`, `g_refresh_call` | init, prime, ensure, refresh, teardown | vnops, a `thread_call` and the stop routine interleave; allocations fail; the registry changes meanwhile |
| snapshot contents | `kext/sysfs_iokit.cpp`, the rest | node table, hash, child lists, modules | build, accessors | capacity limits, orphans, equal names, deep paths |
| mount and unmount | `kext/sysfs_vfsops.c` | mount id, instance count, hash table, per-mount data | mount, unmount, root, getattr, sync | shared data created and freed by the first and last mount |
| kext start and stop | `kext/sysfs.c` | allocation tag, lock group, mutex | init, fini, start, stop | roll-back; order against mounts |
| structure tree | `kext/sysfs_structure.c` | `root_node`, `next_node_id` | init, free, `add_node`, `release_node` | 16-bit ids, inherited flags, bounded stack |
| vnode operations | `kext/sysfs_vnops.c` | none of its own | lookup, readdir, getattr, readlink, read, reclaim | several kinds of node behind one dispatch; readdir resumes across snapshots |
| helpers, CPU files | `kext/sysfs_subr.c`, `kext/sysfs_system.c` | none | pure functions | boundaries in CPU masks and offsets |
| mount helper, boot script | `fs/mount_sysfs.c`, `tools/mount-sysfs` | files and retries | load, wait, mount | time-outs |

A lookup goes from `sysfs_vnop_lookup` through the accessors of the snapshot
(each first calls `sysfs_snap_ensure`) to `sysfsnode_find`, which creates the
vnode. A mount creates the shared data and primes the snapshot. `sysfs_stop`
can only go on once nothing is mounted.

The hazards found in the survey are in `PROJECT.json`, each at its line.

## Modules

**NodeCache** models `sysfsnode_find` and `sysfs_vnop_reclaim`. A section that
holds `sfsnode_hash_mutex` is one action, and each place that drops the mutex
ends one: `ScanMiss`/`Malloc`/`MallocFail` for the allocation, `ScanSleep` for
`msleep`, `ScanVnode`/`GetWithVid`/`GetWithVidFail`/`Retry` for an entry with a
vnode, `ScanAttach`/`CreateVnode`/`Attach`/`AttachFail` for one without. `Put`
and `Recycle` are the VFS layer (external), `Reclaim` and `ReclaimDone` the
vnop. Buckets are left out: the walk is a search of the whole table for the
identity. Addresses are reused after they are freed, and a vnode gets a new vid
when it is recycled.

**VnodeTable** is what `sysfsnode_find` promises: identities bound to at most
one vnode, atomic lookups, no eviction under a holder. **NodeCacheRefinement**
gives the mapping.

**SnapRefresh** models the life of the registry snapshot. Callers mount
(`Mount`, `Prime`) or run vnops (`Vnop`, `Ensure`, `ThreadCallEnter`, `Read`);
workers run the thread_call (`Run`); both share the steps of
`sysfs_snap_refresh` (`RefreshSample`, `BuildStart`, `BuildFail`, `Walk`,
`WalkDegraded`, `Publish`, `FreeOld`). `FsAdd`, `InitLock`, `InitCall`, `Stop`
and the `Teardown*` actions are the kext's start and stop. Of the contents of a
snapshot only the generation walked, the node count and whether it was cut
short are kept. The clock is three ranges: within the TTL of 2 s, within the
30 s between rebuilds, and later.

**MountLifecycle** models `sysfs_init`/`sysfs_fini`, registration, and the
steps of `sysfs_mount` and `sysfs_unmount` with the data the mounts share. The
code's comments assume that mounts and unmounts never overlap, because of
`mnt_rwlock`; that lock is a field of each `struct mount`
(`include/xnu/bsd/sys/mount_internal.h:144`), so it orders only the operations
on one mount point, and the model lets the others overlap. Two history
variables record whether operations have overlapped and whether there were
several mounts at once; most properties are stated for the behaviours where
they have not.

**CpuFiles** has one operator for each read handler of `sysfs_system.c`. A list or
mask of CPUs is modelled by the words or ranges the code prints and by what they
say when read back (`Decode`); the characters are left out.

**StructureTree** has the calls that `sysfs_structure_init` makes for a machine,
in their order (`Calls`), and the tree they build: parents, child lists, and
`SSN_FLAG_DYNAMIC` as `add_node` inherits it. **Structure** builds such a tree on
the first mount (`StructureInit`), numbers it from the 16-bit `next_node_id`, and
releases it one pop of the stack of `release_node` at a time (`ReleasePop`).

**SnapBuild** models `sysfs_snap_build` after its allocations: `Visit` for an
entry of the walk (table, hash, class, BSD name), `Link` for counting, prefix
sums, cursors, ordinals and modules, and `LinkNoCounts` and `LinkNoCursor` for
the two allocations that can fail on the way. The accessors
(`sysfs_iokit_child_at`, `_child_named`, `_parent`, `_class_child_at`, `_path`,
`_name`, `_module_*`) are operators on the result.

**VnodeOps** has lookup, the listing of each kind of directory, readlink, read,
the vnode type (as `sysfs_create_vnode` and as `getattr` work it out) and the file
ids as operators on a snapshot and a structure tree; a node is the triple of
`struct sfsid`. **Namespace** composes the two: a snapshot is built next to the
structure tree of a machine, and its properties state what has to hold between
the operations.

**Readdir** models the same five listings as the loops they are: one step for
each entry, calls with buffers of any size, the offset in the open file, `lseek`
to any `d_seekoff` seen, errors of `uiomove`, and a new snapshot between any two
steps. `sysfs_copy_data` is there as the reading of a file in pieces.

**BootMount** models `tools/mount-sysfs` and the helper it calls. Each look the
script takes at the machine is a step, and between the steps the kext is
approved, loaded by somebody else or unloaded, users log in and out, `/sys` and the
helper appear and disappear, and others mount and unmount.

## Runs

Runs that pass:

| Run | Shows | Bounds and why |
|---|---|---|
| `node_cache` | one node per identity, results pinned, and the proof's inductive invariant `IInv`, from which the other safety properties of the module are proved | 3 threads (one attaching, one sleeping, one arriving), 2 identities, 3 nodes, 2 vnodes that are recycled twice |
| `node_cache_refines` | the cache implements `VnodeTable`; sleepers wake, lookups return | 2 threads, 2 identities, 2 nodes, 2 vnodes, so that a vnode can change identity; no symmetry |
| `snap_refresh` | single flight, accounting, lifetime of `g_lock`, rate limit, and the inductive invariant of the proof | 2 callers and 2 workers (one may still be freeing while the next runs), 3 snapshots, 3 generations; a registry that just fills the arrays at their limit (other sizes are in the next run) |
| `snap_refresh_live` | the snapshot catches up | 1 caller, 1 worker, 2 generations, a registry that may outgrow the arrays (truncated snapshots included), counted before the first build or not |
| `mounts` | the instance count, always; ids, hash table and ownership without overlap; the tree for one mount at a time; and the inductive invariant of the proof, of which roll-back is a part | 2 mount points, 5 mounts per load, 3 trees and 3 tables, so that lost ones do not end the run at once |
| `structure` | a release frees every node, once; the CPU files agree on the CPUs and on the cores | the real bounds (65536 ids, 64 CPU directories, a stack of 256); every number of CPUs from 1 to 64, failed sysctls, more CPUs than directories, and so every tree the code can build; each is built, released and built again |
| `namespace` | hash and child lists are exact; what is listed is found, with the type listed; names are unique but in a class directory; `..` leads back and up to `/sys`; links resolve; attributes belong to their directory | every walk over up to 3 entries in any order, with missing parents, equal, generated and reserved names, two power sources of one name, colliding hashes that probe over the end, both failed allocations, modules without load tag; a path limit of 2, so that paths exceed it |
| `readdir` | nothing twice, nothing lost, the end is the end, EINVAL only for a buffer that is too small, and the listing ends | 6 kinds of file, entries of 3 sizes, buffers of 0, too small, exactly one, between one and two, two, and all entries; 8 lists that replace each other at will; 2 seeks |
| `boot_mount` | when the script gives up and when it mounts; exit 0 means mounted; it ends | the script's own 30 and 300 rounds; the kext loaded before or not; 3 changes of the machine at any time |

`CHECK_DEADLOCK FALSE` is set for the snapshot, where teardown really may sleep
for ever (`snap_teardown`), and for the mounts, where a mount that finds no
memory for the structure tree panics (`add_node`) and the system stops. It is
also set where the modelled activity has an end: the build of a snapshot, a
caller that was told of the end of a directory, and the script.

Premises of the `namespace` properties are stated where the code needs them. The
directories they speak of are all that a process can hold, but for `cpu1`, `cpu2`,
... and what is below them, in which nothing is found (`namespace_system`).
`UniqueNames` and `LinkResolves` assume names that do not look like a generated
one (`x@1`), an attribute file or `system`: the code gives such an entry no other
name, and lookup finds the first. `UniqueNames` also assumes that no two loaded kexts
have one bundle id, and it leaves out the members of a class: they are listed by
`bsdname` without an ordinal, and a power source, which has no BSD name, takes its
IOKit name (`sysfs_iokit.cpp:583`). Two power sources of one name are listed twice in
`/sys/class/power_supply`, and only the first can be looked up; the run has them.
`ListedIsFound` is about the first entry with a name. It does not compare the file ids
of class members and of `..` in directories made from the snapshot, where readdir
and `getattr` differ. `DotDotLeadsBack` leaves out an entry whose parent was not
captured: `/sys/devices` lists it, and its `..` goes to the missing parent, from
where the next `..` leads to `/sys/devices`. `LinkResolves` leaves out paths
deeper than `SYSFS_IOKIT_PATHDEPTH`, which lose their top, and snapshots without
child lists, in which links dangle. `AttributesBelong` assumes that load tags tell
modules apart; kexts without one share tag 0 and the attributes of the first.
`ListedOnce` and `EndMeansAll` speak of callers whose directory only grew at its
end since they began: when a snapshot reorders or removes entries in the middle
of a listing, the offset points elsewhere, and entries come twice or not at all.

Runs that show a disagreement between a comment and the code (the quotations
are in the findings of `PROJECT.json`):

| Run | What happens |
|---|---|
| `snap_teardown` | `thread_call_cancel` removes the run that would have reset `g_building`; teardown never returns |
| `mount_structure` | unmounting one of two mounts, with nothing overlapping, frees the tree of the other |
| `namespace_system` | `cpu1`, `cpu2`, ... and their `topology` carry the CPU number in `ssn_instance` and inherit `SSN_FLAG_DYNAMIC`; `sysfs_is_class_dir` takes them for class directories and their files cannot be reached |

The modules also state five properties that the code does not satisfy and that
no run checks. Added to a configuration of its module, each shows the behaviour
(`TruncationIsBrief` in `SnapRefreshLive.cfg`, which has fairness and a registry
that outgrows the arrays; `AllMemoryCounted` with `MaxLeak = 1`; `UniqueNodeIds` with a width such as
`IdBound = 1024` and without the constraint, as with 65536 the trace is very long):

- `WorkerDrained` (SnapRefresh): `sysfs_snap_refresh` resets `g_building` and wakes
  teardown before it frees the old snapshot (`sysfs_iokit.cpp:740`), so that the
  kext can be unloaded while the thread_call still runs, although teardown means
  to "wait for an in-flight run to finish" (880).
- `TruncationIsBrief` (SnapRefresh): a truncated snapshot of the current generation
  is never rebuilt while the registry rests (780), although "a burst of new
  devices costs freshness briefly rather than truncating for good" (478). The
  doubled estimate is overwritten when the snapshot is published.
- `AllMemoryCounted` (SnapRefresh): the arrays of a half-allocated snapshot are
  neither freed nor counted (500), as `sysfs_free` ignores the length of zero.
- `TableServesMounts` (MountLifecycle): the last unmount takes the hash table from
  a mount that overlaps with it (`sysfs_vfsops.c:301`).
- `UniqueNodeIds` (Structure): "The ssn_base_node_id field is a unique value that
  becomes part of the full id of any sfsnode_t" (`sysfs.h:224`), "Base node id -
  unique" (233). `next_node_id` has 16 bits and goes on from where the last tree
  ended (`sysfs_structure.c:66`), so that it wraps after 80 to 560 remounts of
  one load, depending on the number of CPUs, and a node of the tree gets the id 1, which is the root's:
  `sysfsnode_find` takes the two for one. `NodeIdsDiffer` below says that no other
  id is repeated, and none before the wrap.

Smaller observations: `UniqueIds` fails without its premise (two overlapping
mounts can read the same `sysfs_mount_id`, `sysfs_vfsops.c:161`); mount names
repeat after an unmount in between (442); a mount between `vfs_fsadd` and
`sysfs_iokit_init` (`sysfs.c:288`) builds no snapshot, which the first vnop after
it makes good; `cpu/offline` reads "0" although CPU 0 is online; the boot script
mounts after its wait even if nobody has logged in, and looks for a mount on
`/sys` before it makes one, so that another one can come between
(`mount-sysfs:96`).

## Fairness

`NodeCache`: a thread inside `sysfsnode_find` runs on until it sleeps or returns
and gets the mutex in the end (no section that holds it blocks), and a reclaim
that has begun ends. Nothing obliges the VFS to recycle, or anybody to look up.

`SnapRefresh`: threads inside the kext are scheduled, a queued thread_call is
dispatched, time passes, and memory is not short for ever (strong fairness of
`BuildStart`). Mounts, vnops, registry
changes, load and unload are never forced; `EventuallyFresh` has the arrival of
vnops as its premise.

`Readdir`: a call runs to its end, as it waits for nothing but short critical
sections, and a caller that has not been told of the end or of an error calls
again. Snapshots and seeks are never forced. `BootMount`: the script runs; what the
rest of the machine does is never forced, so that `Ends` holds with no login, no
approval and no `/sys`.

## Proofs

What is proved holds for all values of the constants that satisfy the named
assumption of the module. Every invariant and action property of a passing run of
`NodeCache`, `SnapRefresh`, `MountLifecycle`, `Structure`, `Readdir` and
`BootMount` is proved, and of `namespace` the two about the structures the
snapshot is made of.

| Modules | Component | Assumption on the constants |
|---|---|---|
| `NodeCacheSteps`, `NodeCacheProofs` | node cache, and its refinement of `VnodeTable` | `NULL` is no address, nodes are finitely many |
| `SnapRefreshProofs` | snapshot refresh | `NULL` is no snapshot, callers are no workers, snapshots are finitely many; a registry is not empty; `SYSFS_IOKIT_MAXNODES` and the bound on generations are not 0 |
| `SnapBuildProofs` | hash and child lists | the capacity is between 1 and 16384 (`SYSFS_IOKIT_MAXNODES`, to which the code clips it); id 0 is an id; the hash of an id is a natural number, and otherwise arbitrary |
| `MountLifecycleProofs` | mounts, start and stop | `NULL` is no address, mount points are finitely many |
| `StructureProofs` | structure tree, CPU files | there are ids for all nodes, and the stack takes the tree (`TreeFits`); parents and child lists are linked as `add_node` does it (`TreeShape`); each CPU file has its handler and CPU number (`Layout`); there are no more CPUs than fit a mask |
| `ReaddirProofs` | readdir loops | lists are sequences of entries, a static directory begins with `.` and `..` |
| `BootMountProofs` | boot script | the numbers of rounds are not 0 |

**Node cache.** The invariants are not inductive one by one. `IInv` joins the type invariant
with: what each thread knows at its place in the code (`ThreadInv`; for example
that a thread about to attach has a node in the table marked as being attached,
and an iocount on the new vnode), that no two threads claim one node
(`ClaimsDisjoint`), what holds of each entry (`NodeInv`) and of each vnode
(`VnodeInv`: a live vnode and its node point at each other, or its creator is
about to make it so), and where allocated nodes are (`HeapInv`). A vnode's vid
only grows, which is what makes a successful `vnode_getwithvid` mean that the
vnode is still the same. `NodeCacheSteps` holds the frame lemmas, the steps that
leave the table alone and those of the attachment, `NodeCacheProofs` reclaim, the initial state, `Invariance` and the theorems.
Where sets are counted, the lemmas take the two facts about cardinality they
need as a hypothesis (`CountFacts`), which `NodeCacheProofs` proves.

The refinement (`Refinement`) maps an identity to the vnode that was created for
its node and is not reclaimed yet. `IInv` makes that vnode unique (`MapFacts`), so that the mapping
changes in three places only: `CreateVnode`, where a vnode becomes the identity's,
is the lookup that binds it; `GetWithVid` is the lookup that finds it bound; and
`Reclaim` evicts. All other steps of `sysfsnode_find` are stutters, the sleep and
the failed attachment included. `CallerGetsItsOwn` is the same argument for one
call from beginning to end.

**Snapshot refresh.** The properties rest on each other and are proved together.
`IInv` joins them with: `g_building` is a right that at most one thread or the
queued thread_call has, and while somebody has it no snapshot is recent
(`OwnerInv`, which gives `OneBuildAtATime` and `RateLimited`); what is allocated
and who may run at each stage of loading, unmounting and teardown (`KextInv`);
and for each thread, that it uses `g_lock` only while that exists, has a snapshot
only between allocating and freeing it, and has sampled a generation no older
than the published one (`ActorInv`, which gives `LockOutlivesUsers`, and with
which a walk that publishes the sampled generation makes `SnapshotAccurate`
inductive). `GenerationsAdvance` is an action property from the same invariant.
What `snap_teardown` shows is visible in it: only a teardown that has cancelled
the thread_call may find `g_building` set for nobody.

**Hash and child lists.** `HashInv` says that a probe for the id of a node stops
at that node first (`WellPlaced`), and that a slot in use belongs to one node. An
insertion takes an empty slot, which no probe passes, so it keeps the others
where they are. A probe always ends: the table has more slots than the capacity
(`SizeSuffices`), and the nodes do not fill it (`EverStops`, by the pigeonhole
principle), and a probe comes to every slot (`ProbeCovers`, which needs a little
arithmetic of remainders). `HashIsExact` follows. `ChildListsAreExact` then is a
matter of counting: the cursors number the children of one parent from 0 without
gaps (`Ranks`, an injection between sets of the same size), the prefix sums keep
the lists of two parents apart (`ListsApart`), and so no two entries are written
to the same place (`PlacesDiffer`). `HashInv` also holds in the `namespace` run,
when it is added to `Namespace.cfg`.

**Mounts.** `IInv` has what is allocated at each stage of loading (`LoadInv`), what
the two history variables mean for the places where the mounts are (`HistoryInv`),
when a mount has an id (`IdInv`), and, without overlap, to whom the hash table
and the tree belong (`TableInv`, `TreeInv`) and that the tree of a sole mount is
complete (`SoleInv`). The properties are stated where history permits, as in the
run, and `CountExact` without condition; `LoadingBalances` (`ResourcesMatch`) says
that a failed or undone load leaves nothing allocated.

**Structure.** The calls of `sysfs_structure_init` put paths together from strings,
of which the prover knows nothing. `TreeShape`, `TreeFits` and `Layout` state what
the proofs use of their outcome. They are statements about definitions, not
conditions on a machine, and TLC evaluates them: a tree depends on its machine only
through the smaller of the CPU count and 64, and the `structure` run has a machine
for each of these numbers.

`EveryNodeFreedOnce` is about the loop of `release_node`. `FreedOnce` alone is not
inductive: it does not say that the stack has room, nor that what is not on the
stack will come there. `StackInv` adds that a node waits at the height that the
tree gives it, the number of elder siblings of itself and of the nodes above it
(`Below`), and that an allocated node is on the stack or its parent is allocated.
So the children of a popped node find room by `TreeFits` (`PopEffect`), two nodes
on the stack have different heights, and when the stack is empty the first node
still allocated would have an allocated parent that comes before it (`EndInv`).
`Below` is a recursive function; that its recursion has a solution is proved by
induction (`BelowFacts`), with the sets it needs written out, as the least element
of a set of numbers that is not empty (`LeastElement`). `TreeFits` is a statement
about all nodes of the tree at once and says nothing of the order in which the loop
meets them; that it is what the code needs is the theorem.

`NodeIdsDiffer` is what remains of `UniqueNodeIds`: only the root's id can be given to
a second node, and only when the counter has gone round. It follows from `IdInv`: the counter is what the number of ids taken
makes it, modulo its width, the ids of one tree follow each other, and fewer than
the width in a row have different remainders (`ModInjective`). `CpuFilesAgree` and
`CoresPartitionCpus` hold for every number of cores, of threads, and of CPUs up to the
1792 whose mask fits the buffer of `sysfs_do_cpumap` (`MAP_CPUS`):
`MapDecodes` shows that the mask, whose top group is partial unless the count is a
multiple of 32, names the CPUs of the list, and `SiblingsAreCore` that the range
in `thread_siblings_list` has the CPUs of one `core_id`.

**Readdir.** `ReaddirProofs` proves `ListedOnce`, `EndMeansAll` and `BigBufferSuffices` for all
directories, entry names, buffer sizes, snapshots and seeks, and that a call
without error or end has moved the offset (`CallsAdvance`, the safety part of
`ScanEnds`). `ListedOnce` says nothing of offsets and is not inductive. `ListInv` adds that the `d_seekoff` of each entry
the caller has is the sum of the sizes so far (`GotInv`, with the fact that these
sums grow stated for all pairs, which saves an induction over the list), that
between calls the offset is the last of them (`UserInv`), that the loop in a call
passes over exactly what the caller has before it copies anything (`ScanInv`), and
that a call that has copied nothing still has all its buffer (`RoomInv`). Types
are part of both this invariant and the next, so that `Readdir` and `BootMount`
have no type invariant of their own.

**Boot script.** `BootMountProofs` proves `GivesUpLate`, `NoEarlyMount` and
`SuccessMeansMounted` for all numbers of rounds and any number of changes of the
machine. `BootInv` says, for each phase of the script, how its counter is related
to the failures and waits so far, and that a script past the wait has seen a login
or waited to the end; `MountsSeen`, that a mount on `/sys` was made while it ran.

Only model-checked:

- liveness (`SleepEnds`, `FindReturns`, `EventuallyFresh`, `ScanEnds`, `Ends`), which
  the prover does not do under fairness;
- what lookup, readdir, readlink and read make of a snapshot (`ListedIsFound`,
  `UniqueNames`, `DotDotLeadsBack`, `ClimbEnds`, `LinkResolves`, `AttributesBelong`):
  these are about names put together from strings, of which the prover knows
  nothing, about filtered sequences (`SelectSeq`), of which it knows no more, and
  about file ids mixed with the bitwise operators, whose module it cannot use.

## Not modelled

- The vendored XNU headers under `include/xnu/`, about 48,000 of the repository's
  54,000 lines, declare an interface and have no behaviour to model. What the code
  uses of it appears as external actions. Of the project's own code, about 6,500
  lines with their comments, most that changes state or decides something is in a
  module.
- `sysfs_sync`, `sysfs_getattr` of the file system and the sysctls, which change
  nothing but counters; `open`, `close`, `access`, `inactive`, `pathconf` and
  `getattrlistbulk`, which change nothing.
- Modes, sizes and times of `getattr`, with `sysfs_get_node_size_attr`; mount
  names; `sysfs_atoi`, which nothing calls.
- Log messages and the characters of files, of which only what they say is kept.
- The text of paths: a link target is the sequence of its components, and its
  limit of 1024 characters is left out.

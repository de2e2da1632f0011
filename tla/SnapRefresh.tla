----------------------------- MODULE SnapRefresh -----------------------------
(***************************************************************************)
(* The IORegistry snapshot of kext/sysfs_iokit.cpp: who builds it, when it *)
(* is published, replaced and freed.  A snapshot is built synchronously by *)
(* the first mount (sysfs_iokit_prime) and afterwards by a thread_call     *)
(* that vnops schedule when the snapshot is stale (sysfs_snap_ensure).     *)
(* The kext's stop routine tears everything down.                          *)
(*                                                                         *)
(* A section of code that holds g_lock is one step, since nothing in it    *)
(* blocks but IOLockSleep().  What a snapshot contains is reduced to the   *)
(* registry generation that the walk saw and to the number of nodes.       *)
(***************************************************************************)
EXTENDS Integers, FiniteSets, FiniteSetsExt

CONSTANTS
    Callers,        \* threads that mount the file system or call vnops
    Workers,        \* threads that run thread_calls
    Snaps,          \* addresses of snapshots
    NULL,
    Sizes,          \* how many service-plane entries the registry may have
    Slack,          \* the 64 in sysfs_snap_build()'s margin
    MaxNodes,       \* SYSFS_IOKIT_MAXNODES
    MaxGen,         \* bound on the registry's generation count
    MaxLeak         \* bound on the number of arrays lost

ASSUME SnapRefreshAssumption ==
    /\ NULL \notin Snaps
    /\ Callers \cap Workers = {}
    /\ IsFiniteSet(Snaps)
    /\ Sizes \subseteq Nat \ {0}
    /\ Slack \in Nat /\ MaxLeak \in Nat
    /\ MaxNodes \in Nat \ {0} /\ MaxGen \in Nat \ {0}

Actors == Callers \cup Workers

VARIABLES
    gen,            \* IORegistryEntry::getGenerationCount()
    size,           \* entries of the service plane
    age,            \* time since g_last_build_uptime, "none" if not valid
    snapshot,       \* g_snapshot
    snapGen,        \* g_snap_gen, 0 if not g_snap_gen_valid
    building,       \* g_building
    pending,        \* g_refresh_pending
    lastCount,      \* g_last_node_count
    lock,           \* g_lock is allocated
    call,           \* g_refresh_call is allocated
    queued,         \* the thread_call is waiting to run
    kext,           \* how far the kext is loaded
    tpc,            \* where sysfs_iokit_teardown() is
    told,           \* its old_snap
    mounted,        \* a sysfs file system is mounted
    pc,             \* where each thread is
    sample,         \* the generation a thread has read
    mine,           \* the snapshot it builds, or has to free
    cap,            \* the capacity of the snapshot it builds
    info,           \* contents of the snapshots
    heap,           \* allocated snapshots
    snapBytes,      \* sysfs_stat_snap_bytes, in snapshots
    leaked          \* arrays that are allocated and that nothing points to

registryVars == <<gen, size>>
globalVars == <<age, snapshot, snapGen, building, pending, lastCount>>
kextVars == <<lock, call, queued, kext, tpc, told, mounted>>
threadVars == <<pc, sample, mine, cap>>
memVars == <<info, heap, snapBytes, leaked>>
vars == <<registryVars, globalVars, kextVars, threadVars, memVars>>

\* Time since the last build: within SYSFS_SNAP_TTL_NS, within
\* SYSFS_SNAP_MIN_REBUILD_NS, or longer ago.
Ages == {"ttl", "min", "old"}

\* The steps of sysfs_snap_refresh() up to the unlock.
Building == {"sample", "build", "walk", "publish"}

PCs == Building \cup {"idle", "prime", "ensure", "enter", "read", "free"}

\* What a snapshot shows: the generation it is of, how many nodes it has, whether
\* they fill its arrays, and whether it has child lists.
Contents == [of : 0 .. MaxGen, count : 0 .. MaxNodes,
             full : BOOLEAN, tree : BOOLEAN]

\* The types of the variables, in the groups above.
RegistryType ==
    /\ gen \in 1 .. MaxGen
    /\ size \in Sizes

GlobalType ==
    /\ age \in Ages \cup {"none"}
    /\ snapshot \in Snaps \cup {NULL}
    /\ snapGen \in 0 .. MaxGen
    /\ building \in BOOLEAN /\ pending \in BOOLEAN
    /\ lastCount \in 0 .. MaxNodes

KextType ==
    /\ lock \in BOOLEAN /\ call \in BOOLEAN /\ queued \in BOOLEAN
    /\ kext \in {"unloaded", "added", "locked", "loaded", "removed"}
    /\ tpc \in {"none", "wait", "asleep", "clear", "free"}
    /\ told \in Snaps \cup {NULL}
    /\ mounted \in BOOLEAN

ThreadType ==
    /\ pc \in [Actors -> PCs]
    /\ sample \in [Actors -> 0 .. MaxGen]
    /\ mine \in [Actors -> Snaps \cup {NULL}]
    /\ cap \in [Actors -> 0 .. MaxNodes]

MemType ==
    /\ info \in [Snaps -> Contents]
    /\ heap \subseteq Snaps
    /\ snapBytes \in Nat
    /\ leaked \in 0 .. MaxLeak

TypeOK == RegistryType /\ GlobalType /\ KextType /\ ThreadType /\ MemType

NoContents == [of |-> 0, count |-> 0, full |-> FALSE, tree |-> FALSE]

\* No kext is loaded.  The registry is what the boot has made of it.
Init ==
    /\ gen = 1 /\ size \in Sizes
    /\ age = "none" /\ snapshot = NULL /\ snapGen = 0
    /\ building = FALSE /\ pending = FALSE /\ lastCount = 0
    /\ lock = FALSE /\ call = FALSE /\ queued = FALSE
    /\ kext = "unloaded" /\ tpc = "none" /\ told = NULL /\ mounted = FALSE
    /\ pc = [a \in Actors |-> "idle"]
    /\ sample = [a \in Actors |-> 0]
    /\ mine = [a \in Actors |-> NULL]
    /\ cap = [a \in Actors |-> 0]
    /\ info = [s \in Snaps |-> NoContents]
    /\ heap = {} /\ snapBytes = 0 /\ leaked = 0

Goto(a, where) == pc' = [pc EXCEPT ![a] = where]

-----------------------------------------------------------------------------
(* The registry and the clock.                                             *)

\* Drivers come or go.
RegistryChange ==
    /\ gen < MaxGen
    /\ gen' = gen + 1
    /\ size' \in Sizes
    /\ UNCHANGED <<globalVars, kextVars, threadVars, memVars>>

\* Time passes.  The uptime in the snapshot and g_last_build_uptime, read a
\* few instructions apart, are taken for one.
Tick ==
    /\ age \in {"ttl", "min"}
    /\ age' = IF age = "ttl" THEN "min" ELSE "old"
    /\ UNCHANGED <<snapshot, snapGen, building, pending, lastCount,
                   registryVars, kextVars, threadVars, memVars>>

-----------------------------------------------------------------------------
(* sysfs_snap_refresh(), run by a mounting thread or by the thread_call.   *)

\* The generation is read before the walk.
RefreshSample(a) ==
    /\ pc[a] = "sample"
    /\ sample' = [sample EXCEPT ![a] = gen]
    /\ Goto(a, "build")
    /\ UNCHANGED <<mine, cap, registryVars, globalVars, kextVars, memVars>>

\* The size sysfs_snap_build() gives the arrays, from the last snapshot or, for
\* the first one, from a count of the registry: sysfs_count_entries(), which
\* answers 0 if it can get no iterator.
Capacity(counted) ==
    LET maxe == IF lastCount # 0 THEN lastCount ELSE Min({counted, MaxNodes})
    IN Min({maxe + ((maxe \div 4) + Slack) + 1, MaxNodes})

\* sysfs_snap_build() allocates, and the walk of the registry begins.
BuildStart(a) ==
    /\ pc[a] = "build"
    /\ \E s \in Snaps \ heap :
          /\ mine' = [mine EXCEPT ![a] = s]
          /\ heap' = heap \cup {s}
          /\ info' = [info EXCEPT ![s] = [of |-> gen, count |-> 0,
                                          full |-> FALSE, tree |-> FALSE]]
    /\ snapBytes' = snapBytes + 1
    /\ \E counted \in {0, size} : cap' = [cap EXCEPT ![a] = Capacity(counted)]
    /\ Goto(a, "walk")
    /\ UNCHANGED <<sample, leaked, registryVars, globalVars, kextVars>>

\* An allocation fails.  sysfs_snap_free() is called before the capacities are
\* set, so that it frees none of the arrays that were allocated.
BuildFail(a) ==
    /\ pc[a] = "build"
    /\ \E arrays \in 0 .. 2 : leaked' = Min({leaked + arrays, MaxLeak})
    /\ mine' = [mine EXCEPT ![a] = NULL]
    /\ Goto(a, "publish")
    /\ UNCHANGED <<sample, cap, info, heap, snapBytes, registryVars,
                   globalVars, kextVars>>

\* Mutant: the generation is read after the walk.
WalkThenSample(a) ==
    /\ pc[a] = "walk"
    /\ LET s == mine[a]
           count == Min({size + 1, cap[a]})
       IN /\ info' = [info EXCEPT ![s] =
                        [of |-> IF @.of = gen THEN gen ELSE 0,
                         count |-> count, full |-> count >= cap[a],
                         tree |-> TRUE]]
          /\ lastCount' = IF count >= cap[a] /\ cap[a] < MaxNodes
                          THEN Min({cap[a] * 2, MaxNodes}) ELSE lastCount
    /\ sample' = [sample EXCEPT ![a] = gen]
    /\ Goto(a, "publish")
    /\ UNCHANGED <<mine, cap, age, snapshot, snapGen, building, pending,
                   registryVars, kextVars, heap, snapBytes, leaked>>

\* The walk ends, at the end of the registry or at the capacity; node 0 is the
\* synthetic root.  If the registry has changed meanwhile, the snapshot shows
\* no generation of it.  A walk that filled the arrays asks for more next time.
Walk(a) ==
    /\ pc[a] = "walk"
    /\ LET s == mine[a]
           count == Min({size + 1, cap[a]})
       IN /\ info' = [info EXCEPT ![s] =
                        [of |-> IF @.of = gen THEN gen ELSE 0,
                         count |-> count, full |-> count >= cap[a],
                         tree |-> TRUE]]
          /\ lastCount' = IF count >= cap[a] /\ cap[a] < MaxNodes
                          THEN Min({cap[a] * 2, MaxNodes}) ELSE lastCount
    /\ Goto(a, "publish")
    /\ UNCHANGED <<sample, mine, cap, age, snapshot, snapGen, building,
                   pending, registryVars, kextVars, heap, snapBytes, leaked>>

\* The walk ends short of memory: without an iterator only the root is there,
\* without child_counts no node has children.  The snapshot is used all the
\* same.
WalkDegraded(a) ==
    /\ pc[a] = "walk"
    /\ \E count \in {1, Min({size + 1, cap[a]})} :
          /\ info' = [info EXCEPT ![mine[a]] =
                        [of |-> IF @.of = gen THEN gen ELSE 0,
                         count |-> count, full |-> count >= cap[a],
                         tree |-> FALSE]]
          /\ lastCount' = IF count >= cap[a] /\ cap[a] < MaxNodes
                          THEN Min({cap[a] * 2, MaxNodes}) ELSE lastCount
    /\ Goto(a, "publish")
    /\ UNCHANGED <<sample, mine, cap, age, snapshot, snapGen, building,
                   pending, registryVars, kextVars, heap, snapBytes, leaked>>

\* Under g_lock: the new snapshot, if there is one, replaces the old one, which
\* becomes the thread's to free.  A sleeping teardown is woken.
PublishAs(a, old, stillPending) ==
    /\ pc[a] = "publish"
    /\ IF mine[a] # NULL
       THEN /\ snapshot' = mine[a]
            /\ mine' = [mine EXCEPT ![a] = old]
            /\ snapGen' = sample[a]
            /\ lastCount' = info[mine[a]].count
            /\ age' = "ttl"
       ELSE UNCHANGED <<snapshot, mine, snapGen, lastCount, age>>
    /\ building' = FALSE
    /\ pending' = stillPending
    /\ tpc' = IF tpc = "asleep" THEN "wait" ELSE tpc
    /\ Goto(a, "free")
    /\ UNCHANGED <<sample, cap, lock, call, queued, kext, told, mounted,
                   registryVars, memVars>>

\* Mutants: the old snapshot is forgotten; g_refresh_pending is not reset.
PublishForgetsOld(a) == PublishAs(a, NULL, FALSE)
PublishStaysPending(a) == PublishAs(a, snapshot, pending)

Publish(a) == PublishAs(a, snapshot, FALSE)

\* Mutant: sysfs_snap_free() counts a snapshot down that there was none of.
FreeOldUnchecked(a) ==
    /\ pc[a] = "free"
    /\ heap' = heap \ {mine[a]}
    /\ info' = [s \in Snaps |-> IF s = mine[a] THEN NoContents ELSE info[s]]
    /\ snapBytes' = snapBytes - 1
    /\ mine' = [mine EXCEPT ![a] = NULL]
    /\ sample' = [sample EXCEPT ![a] = 0]
    /\ cap' = [cap EXCEPT ![a] = 0]
    /\ mounted' = (mounted \/ a \in Callers)
    /\ Goto(a, "idle")
    /\ UNCHANGED <<leaked, lock, call, queued, kext, tpc, told, registryVars,
                   globalVars>>

\* sysfs_snap_free() of the replaced snapshot, after the unlock.  A mounting
\* thread returns from sysfs_mount().
FreeOld(a) ==
    /\ pc[a] = "free"
    /\ heap' = heap \ {mine[a]}
    /\ info' = [s \in Snaps |-> IF s = mine[a] THEN NoContents ELSE info[s]]
    /\ snapBytes' = snapBytes - Cardinality({mine[a]} \ {NULL})
    /\ mine' = [mine EXCEPT ![a] = NULL]
    /\ sample' = [sample EXCEPT ![a] = 0]
    /\ cap' = [cap EXCEPT ![a] = 0]
    /\ mounted' = (mounted \/ a \in Callers)
    /\ Goto(a, "idle")
    /\ UNCHANGED <<leaked, lock, call, queued, kext, tpc, told, registryVars,
                   globalVars>>

\* The thread_call is dispatched: sysfs_snap_refresh_cb().
Run(w) ==
    /\ queued /\ pc[w] = "idle"
    /\ queued' = FALSE
    /\ Goto(w, "sample")
    /\ UNCHANGED <<sample, mine, cap, lock, call, kext, tpc, told, mounted,
                   registryVars, globalVars, memVars>>

-----------------------------------------------------------------------------
(* Mounts and vnops.                                                       *)

\* sysfs_mount() arrives at sysfs_iokit_prime(): possible from the moment that
\* the file system is registered.
Mount(c) ==
    /\ kext \in {"added", "locked", "loaded"} /\ pc[c] = "idle"
    /\ Goto(c, "prime")
    /\ UNCHANGED <<sample, mine, cap, registryVars, globalVars, kextVars,
                   memVars>>

\* sysfs_iokit_prime() builds the first snapshot itself, unless there is one,
\* or somebody is building it, or g_lock has not been allocated.
Prime(c) ==
    /\ pc[c] = "prime"
    /\ IF lock /\ snapshot = NULL /\ ~building
       THEN building' = TRUE /\ Goto(c, "sample") /\ UNCHANGED mounted
       ELSE mounted' = TRUE /\ Goto(c, "idle") /\ UNCHANGED building
    /\ UNCHANGED <<age, snapshot, snapGen, pending, lastCount, sample, mine,
                   cap, lock, call, queued, kext, tpc, told, registryVars,
                   memVars>>

\* The last unmount.  The VFS layer lets no vnop run on while it happens.
Unmount ==
    /\ mounted /\ \A c \in Callers : pc[c] \notin {"ensure", "enter", "read"}
    /\ mounted' = FALSE
    /\ UNCHANGED <<lock, call, queued, kext, tpc, told, registryVars,
                   globalVars, threadVars, memVars>>

\* A vnop asks for the snapshot: sysfs_snap_ensure() reads the generation.  An
\* accessor that finds no g_lock returns at once.
Vnop(c) ==
    /\ mounted /\ lock /\ pc[c] = "idle"
    /\ sample' = [sample EXCEPT ![c] = gen]
    /\ Goto(c, "ensure")
    /\ UNCHANGED <<mine, cap, registryVars, globalVars, kextVars, memVars>>

\* The published snapshot will do: nothing has changed, or it is new enough.
Fresh(c) == snapshot # NULL /\ (snapGen = sample[c] \/ age = "ttl")

\* Too little time has passed since the last build.
Recent == snapshot # NULL /\ age \in {"ttl", "min"}

\* The rest of sysfs_snap_ensure() up to its unlock.
EnsureAs(c, due) ==
    /\ pc[c] = "ensure"
    /\ IF due
       THEN pending' = TRUE /\ building' = TRUE /\ Goto(c, "enter")
       ELSE Goto(c, "read") /\ UNCHANGED <<pending, building>>
    /\ UNCHANGED <<age, snapshot, snapGen, lastCount, sample, mine, cap,
                   registryVars, kextVars, memVars>>

\* Mutants: no look at g_building and g_refresh_pending; no rate limit.
EnsureTwice(c) == EnsureAs(c, ~Fresh(c) /\ ~Recent /\ call)
EnsureOften(c) == EnsureAs(c, ~Fresh(c) /\ ~pending /\ ~building /\ call)

Ensure(c) ==
    EnsureAs(c, ~Fresh(c) /\ ~Recent /\ ~pending /\ ~building /\ call)

\* thread_call_enter(), after the unlock.
ThreadCallEnter(c) ==
    /\ pc[c] = "enter"
    /\ queued' = TRUE
    /\ Goto(c, "read")
    /\ UNCHANGED <<sample, mine, cap, lock, call, kext, tpc, told, mounted,
                   registryVars, globalVars, memVars>>

\* The accessor looks into g_snapshot under g_lock, and returns.
Read(c) ==
    /\ pc[c] = "read"
    /\ sample' = [sample EXCEPT ![c] = 0]
    /\ Goto(c, "idle")
    /\ UNCHANGED <<mine, cap, registryVars, globalVars, kextVars, memVars>>

-----------------------------------------------------------------------------
(* sysfs_start() and sysfs_stop().                                         *)

\* vfs_fsadd(): the file system can be mounted.
FsAdd ==
    /\ kext = "unloaded"
    /\ kext' = "added"
    /\ UNCHANGED <<lock, call, queued, tpc, told, mounted, registryVars,
                   globalVars, threadVars, memVars>>

\* sysfs_iokit_init() allocates g_lock,
InitLock ==
    /\ kext = "added"
    /\ kext' = "locked" /\ lock' = TRUE
    /\ UNCHANGED <<call, queued, tpc, told, mounted, registryVars, globalVars,
                   threadVars, memVars>>

\* and then g_refresh_call.
InitCall ==
    /\ kext = "locked"
    /\ kext' = "loaded" /\ call' = TRUE
    /\ UNCHANGED <<lock, queued, tpc, told, mounted, registryVars, globalVars,
                   threadVars, memVars>>

\* sysfs_stop(): vfs_fsremove() succeeds if nothing is mounted, and
\* sysfs_iokit_teardown() begins by cancelling a queued run.
Stop ==
    /\ kext = "loaded" /\ ~mounted /\ \A c \in Callers : pc[c] = "idle"
    /\ kext' = "removed" /\ tpc' = "wait"
    /\ queued' = FALSE
    /\ UNCHANGED <<lock, call, told, mounted, registryVars, globalVars,
                   threadVars, memVars>>

\* Mutant: teardown does not wait for a build.
TeardownNoWait ==
    /\ tpc = "wait"
    /\ tpc' = "clear" /\ call' = FALSE
    /\ UNCHANGED <<lock, queued, kext, told, mounted, registryVars, globalVars,
                   threadVars, memVars>>

\* Teardown sleeps as long as g_building is set, then frees the thread_call.
TeardownWait ==
    /\ tpc = "wait"
    /\ IF building
       THEN tpc' = "asleep" /\ UNCHANGED call
       ELSE tpc' = "clear" /\ call' = FALSE
    /\ UNCHANGED <<lock, queued, kext, told, mounted, registryVars, globalVars,
                   threadVars, memVars>>

\* Under g_lock: everything is reset and the snapshot taken away.
TeardownClear ==
    /\ tpc = "clear"
    /\ told' = snapshot /\ snapshot' = NULL
    /\ snapGen' = 0 /\ age' = "none" /\ lastCount' = 0
    /\ building' = FALSE /\ pending' = FALSE
    /\ tpc' = "free"
    /\ UNCHANGED <<lock, call, queued, kext, mounted, registryVars, threadVars,
                   memVars>>

\* The snapshot and g_lock are freed, and the kext is unloaded.
TeardownFree ==
    /\ tpc = "free"
    /\ heap' = heap \ {told}
    /\ info' = [s \in Snaps |-> IF s = told THEN NoContents ELSE info[s]]
    /\ snapBytes' = snapBytes - Cardinality({told} \ {NULL})
    /\ told' = NULL /\ lock' = FALSE
    /\ tpc' = "none" /\ kext' = "unloaded"
    /\ UNCHANGED <<call, queued, mounted, leaked, registryVars, globalVars,
                   threadVars>>

-----------------------------------------------------------------------------
RefreshStep(a) ==
    \/ RefreshSample(a) \/ BuildStart(a) \/ BuildFail(a)
    \/ Walk(a) \/ WalkDegraded(a) \/ Publish(a) \/ FreeOld(a)

VnopStep(c) == Ensure(c) \/ ThreadCallEnter(c) \/ Read(c)

StartStep == InitLock \/ InitCall

TeardownStep == TeardownWait \/ TeardownClear \/ TeardownFree

Next ==
    \/ RegistryChange \/ Tick
    \/ \E a \in Actors : RefreshStep(a)
    \/ \E w \in Workers : Run(w)
    \/ \E c \in Callers : Mount(c) \/ Prime(c) \/ Vnop(c) \/ VnopStep(c)
    \/ Unmount
    \/ FsAdd \/ StartStep \/ Stop
    \/ TeardownStep

Spec == Init /\ [][Next]_vars

\* Threads inside the kext run on, time passes, and a queued thread_call is
\* dispatched.  Memory is not short for ever: a build that is tried again and
\* again gets its arrays some day.  Nothing obliges anyone to mount, to call a
\* vnop, or to load or unload the kext.
Fairness ==
    /\ WF_vars(Tick)
    /\ \A a \in Actors : WF_vars(RefreshStep(a)) /\ SF_vars(BuildStart(a))
    /\ WF_vars(\E w \in Workers : Run(w))
    /\ \A c \in Callers : WF_vars(Prime(c)) /\ WF_vars(VnopStep(c))
    /\ WF_vars(StartStep) /\ WF_vars(TeardownStep)

FairSpec == Spec /\ Fairness

-----------------------------------------------------------------------------
(* Properties.                                                             *)

\* Those who have set g_building and have not reset it: a vnop about to queue
\* the thread_call, the queued thread_call, and the threads in a refresh.
Owners ==
    Cardinality({c \in Callers : pc[c] = "enter"})
      + Cardinality({a \in Actors : pc[a] \in Building})
      + (IF queued THEN 1 ELSE 0)

\* "Only ever on one thread at a time": g_building is the exclusive right to
\* build.  While the kext is in use it is set exactly when one thread, or one
\* queued thread_call, is bound to reset it; it is never left set for nobody,
\* which would stop all refreshing.
OneBuildAtATime ==
    /\ Owners <= 1
    /\ tpc = "none" => (building <=> Owners = 1)

\* sysfs_snap_refresh() samples the generation before the walk so that a stale
\* snapshot is never mistaken for a current one: if g_snap_gen is the registry's
\* generation, the whole walk took place in that generation.
SnapshotAccurate ==
    snapshot # NULL /\ snapGen = gen => info[snapshot].of = gen

\* The snapshots that somebody still has a pointer to.
Held ==
    ({snapshot, told} \cup {mine[a] : a \in Actors}) \ {NULL}

\* No snapshot is lost or freed under a reader, and none has two owners: the
\* allocated ones are exactly those published, being built or about to be freed,
\* and sysfs_stat_snap_bytes counts them.
SnapshotsAccounted ==
    /\ heap = Held
    /\ snapBytes = Cardinality(heap)
    /\ \A a \in Actors : mine[a] # NULL =>
          /\ mine[a] \notin {snapshot, told}
          /\ \A b \in Actors \ {a} : mine[b] # mine[a]

\* g_lock outlives its users: a thread that is going to take it, in a vnop or in
\* a refresh, finds it allocated, whatever sysfs_stop() does meanwhile.
LockOutlivesUsers ==
    \A a \in Actors : pc[a] \in Building \cup {"ensure", "read"} => lock

\* The 30 s limit holds for the build itself and not only for the decision to
\* make it: nothing is published between the two, so that a thread_call never
\* walks the registry shortly after another walk has been published.
RateLimited ==
    queued \/ (\E w \in Workers : pc[w] \in Building) => ~Recent

\* A late builder never turns the clock back: a snapshot is replaced only by one
\* of the same or a later generation, whichever threads built the two.
SnapshotsAdvance == [][snapshot' # NULL => snapGen <= snapGen']_vars

-----------------------------------------------------------------------------
(* The inductive invariant.                                                *)

\* A thread that has set g_building, or was started by one that has, and has
\* not reset it.
Owner(a) == pc[a] \in Building \cup {"enter"}

\* g_building is the right to build: at most one thread, or the queued
\* thread_call, has it, and as long as somebody has it no snapshot is recent.
\* Only a teardown that has cancelled the thread_call finds it set for nobody.
OwnerInv ==
    /\ \A a, b \in Actors : Owner(a) /\ Owner(b) => a = b
    /\ queued => \A a \in Actors : ~Owner(a)
    /\ queued \/ (\E a \in Actors : Owner(a)) => building /\ ~Recent
    /\ building /\ tpc = "none" => queued \/ \E a \in Actors : Owner(a)

\* What is allocated and who may run at each stage of the kext's life.
KextInv ==
    /\ tpc # "none" <=> kext = "removed"
    /\ lock <=> kext \in {"locked", "loaded", "removed"}
    /\ call => kext = "loaded" \/ tpc \in {"wait", "asleep"}
    /\ queued => kext = "loaded"
    /\ kext \in {"unloaded", "removed"} =>
          ~mounted /\ \A c \in Callers : pc[c] = "idle"
    /\ tpc \in {"clear", "free"} => ~building
    /\ tpc = "free" => snapshot = NULL
    /\ told # NULL => tpc = "free"

\* A thread uses g_lock only while it exists and has a snapshot only where it
\* builds or frees one; it has sampled a generation no older than the published
\* one, and what it has walked is of that generation if it is still current.
ActorInv(a) ==
    /\ Owner(a) \/ pc[a] \in {"ensure", "read"} => lock
    /\ pc[a] = "enter" => kext = "loaded"
    /\ a \in Workers => pc[a] \in Building \cup {"idle", "free"}
    /\ pc[a] = "walk" => mine[a] # NULL
    /\ mine[a] # NULL => pc[a] \in {"walk", "publish", "free"}
    /\ sample[a] <= gen
    /\ pc[a] \in {"build", "walk", "publish"} => snapGen <= sample[a]
    /\ pc[a] \in {"walk", "publish"} /\ mine[a] # NULL /\ sample[a] = gen
          => info[mine[a]].of = gen

\* All of it: single flight, lifetimes, ownership of memory and the generations
\* hold together, and no step of any thread breaks them.
IInv ==
    /\ TypeOK
    /\ OwnerInv
    /\ KextInv
    /\ \A a \in Actors : ActorInv(a)
    /\ snapGen <= gen
    /\ SnapshotAccurate
    /\ SnapshotsAccounted

-----------------------------------------------------------------------------
(* Liveness.                                                               *)

\* sysfs_snap_ensure() is enough to catch up: if vnops keep arriving, then once
\* the registry has settled its generation is the one of the snapshot for good.
EventuallyFresh ==
    ([]<><<\E c \in Callers : Vnop(c)>>_vars /\ <>[]mounted)
      => <>[](snapshot # NULL /\ snapGen = gen)

-----------------------------------------------------------------------------
(* What comments say that the code does not do.                            *)

\* sysfs_iokit_teardown(): "wait for an in-flight run to finish".
WorkerDrained == kext = "unloaded" => \A w \in Workers : pc[w] = "idle"

\* sysfs_iokit_teardown() ends: it means to "cancel any queued run and then wait
\* for a running one".
TeardownEnds == tpc # "none" ~> tpc = "none"

\* sysfs_snap_build(): "a burst of new devices costs freshness briefly rather
\* than truncating for good".  With vnops arriving and the registry settled, a
\* snapshot that lacks entries only because its arrays were too small is
\* replaced.
TruncationIsBrief ==
    ([]<><<\E c \in Callers : Vnop(c)>>_vars /\ <>[]mounted)
      => []<>(/\ snapshot # NULL
              /\ info[snapshot].tree
                   => info[snapshot].count = Min({size + 1, MaxNodes}))

\* The sysctl's comment: snap_bytes "is how much memory live snapshots currently
\* hold"; arrays of a snapshot given up half-way are held and not counted.
AllMemoryCounted == leaked = 0

=============================================================================

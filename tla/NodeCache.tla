------------------------------ MODULE NodeCache ------------------------------
(***************************************************************************)
(* The sfsnode cache of kext/sysfs_node.c: the hash table that maps the    *)
(* identity of a /sys node (mount id and sfsid_t) to the one sfsnode_t     *)
(* that stands for it, the vnode attached to that sfsnode_t, and the two   *)
(* paths that change the table concurrently: sysfsnode_find(), run by any  *)
(* thread that looks a name up, and sysfs_vnop_reclaim(), run by the VFS   *)
(* when it recycles a vnode.                                               *)
(*                                                                         *)
(* sfsnode_hash_mutex protects the table and every field of an sfsnode_t   *)
(* that is in it.  A section of code that runs with the mutex held is one  *)
(* action; each place where the code drops the mutex (the allocation, the  *)
(* sleep, vnode_getwithvid() and the vnode creation callback) ends one     *)
(* action and starts another.  sfsnode_t's and vnodes are addresses drawn  *)
(* from fixed sets and are reused after they are freed.                    *)
(***************************************************************************)
EXTENDS Naturals, FiniteSets

CONSTANTS Threads,    \* threads that call sysfsnode_find()
          Keys,       \* node identities: (node_mnt_id, node_id)
          Nodes,      \* addresses OSMalloc() returns for an sfsnode_t
          Vnodes,     \* vnodes the VFS layer recycles
          NULL,
          MaxVid      \* bound: how often one vnode is recycled

ASSUME NodeCacheAssumption ==
    /\ NULL \notin Nodes /\ NULL \notin Vnodes /\ NULL \notin Keys
    /\ IsFiniteSet(Nodes)
    /\ MaxVid \in Nat

VARIABLES pc,         \* where each thread is in sysfsnode_find()
          key,        \* its argument: (smp->pmnt_id, node_id)
          new,        \* its new_sfsnode
          inserted,   \* its new_sfsnode_inserted
          target,     \* its target_sfsnode; the wait channel while it sleeps
          tvnode,     \* its target_vnode
          tvid,       \* the vid it read while it held the mutex
          heap,       \* sfsnode_t's allocated and not freed
          hash,       \* sfsnode_t's linked into sfsnode_hash_buckets
          sfsnode,    \* the contents of each sfsnode_t
          liveNodes,  \* sysfs_stat_live_nodes
          vnode       \* the VFS state of each vnode

threadVars == <<pc, key, new, inserted, target, tvnode, tvid>>
tableVars  == <<heap, hash, sfsnode, liveNodes>>
vars       == <<threadVars, tableVars, vnode>>

PCs == {"idle", "lock", "malloc", "sleep", "getvid", "retry", "create",
        "attach", "have"}

VnodeStates == {"free", "live", "reclaim", "reclaimed"}

\* struct sfsnode, without the list linkage and the structure node pointer.
SfsnodeType == [key : Keys \cup {NULL}, attaching : BOOLEAN, waiting : BOOLEAN,
                vp : Vnodes \cup {NULL}]

\* A vnode as this file system sees it.  "reclaim": the VFS has decided to
\* recycle it and no iocount is left; "reclaimed": VNOP_RECLAIM has freed the
\* sfsnode_t and has not returned yet.  iocount is the set of threads that
\* hold a reference.
VnodeType == [state : VnodeStates, vid : 0 .. MaxVid,
              fsnode : Nodes \cup {NULL}, iocount : SUBSET Threads,
              fsref : BOOLEAN]

TypeOK ==
    /\ pc \in [Threads -> PCs]
    /\ key \in [Threads -> Keys \cup {NULL}]
    /\ new \in [Threads -> Nodes \cup {NULL}]
    /\ inserted \in [Threads -> BOOLEAN]
    /\ target \in [Threads -> Nodes \cup {NULL}]
    /\ tvnode \in [Threads -> Vnodes \cup {NULL}]
    /\ tvid \in [Threads -> 0 .. MaxVid]
    /\ heap \in SUBSET Nodes
    /\ hash \in SUBSET Nodes
    /\ sfsnode \in [Nodes -> SfsnodeType]
    /\ liveNodes \in Nat
    /\ vnode \in [Vnodes -> VnodeType]

\* An sfsnode_t after memset().  It also stands for memory that is not
\* allocated, which nothing reads.
Zeroed == [key |-> NULL, attaching |-> FALSE, waiting |-> FALSE, vp |-> NULL]

\* The table is empty after hashinit() and no vnode belongs to sysfs.
Init ==
    /\ pc = [t \in Threads |-> "idle"]
    /\ key = [t \in Threads |-> NULL]
    /\ new = [t \in Threads |-> NULL]
    /\ inserted = [t \in Threads |-> FALSE]
    /\ target = [t \in Threads |-> NULL]
    /\ tvnode = [t \in Threads |-> NULL]
    /\ tvid = [t \in Threads |-> 0]
    /\ heap = {}
    /\ hash = {}
    /\ sfsnode = [n \in Nodes |-> Zeroed]
    /\ liveNodes = 0
    /\ vnode = [v \in Vnodes |-> [state |-> "free", vid |-> 0,
                                  fsnode |-> NULL, iocount |-> {},
                                  fsref |-> FALSE]]

-----------------------------------------------------------------------------
(* Steps of sysfsnode_find() and the helpers it is made of.                *)

\* The table entries the walk along the hash bucket stops at.
Matches(t) == {n \in hash : sfsnode[n].key = key[t]}

\* Mutant: the node allocated with the mutex dropped is promoted without
\* looking again for one that another thread has inserted meanwhile.
IsTargetNoRecheck(t, n) ==
    IF new[t] # NULL THEN n = new[t] ELSE n \in Matches(t)

\* target_sfsnode once the walk is over: an entry that matched or, when there
\* is none, the node that this thread allocated earlier.
IsTarget(t, n) ==
    IF Matches(t) # {} THEN n \in Matches(t) ELSE n = new[t]

\* Its contents: those of the entry found, or of the node just initialised.
Contents(t, n) ==
    IF n \in Matches(t) THEN sfsnode[n]
    ELSE [key |-> key[t], attaching |-> FALSE, waiting |-> FALSE, vp |-> NULL]

\* The threads that the end of an attachment to n makes runnable, if
\* node_thread_waiting_attach asks for a wakeup(n).
Woken(n) ==
    {t \in Threads : sfsnode[n].waiting /\ pc[t] = "sleep" /\ target[t] = n}

\* Each of them must lock the mutex again, and looks the node up again.
EndAttaching(t, n, next) ==
    pc' = [s \in Threads |-> IF s = t THEN next
                             ELSE IF s \in Woken(n) THEN "lock" ELSE pc[s]]

\* On the way out, a node that was allocated and not used is freed.
Unused(t) == IF new[t] # target[t] /\ ~inserted[t] THEN {new[t]} ELSE {}

\* sysfsnode_free_node(): out of the table, and its memory released.
FreeNode(n) ==
    /\ hash' = hash \ {n}
    /\ heap' = heap \ {n}
    /\ sfsnode' = [sfsnode EXCEPT ![n] = Zeroed]
    /\ liveNodes' = liveNodes - 1

\* The thread's local variables are dead: it has returned to a caller that
\* holds no vnode.
Forget(t) ==
    /\ key' = [key EXCEPT ![t] = NULL]
    /\ new' = [new EXCEPT ![t] = NULL]
    /\ inserted' = [inserted EXCEPT ![t] = FALSE]
    /\ target' = [target EXCEPT ![t] = NULL]
    /\ tvnode' = [tvnode EXCEPT ![t] = NULL]
    /\ tvid' = [tvid EXCEPT ![t] = 0]

\* A caller (sysfs_root(), sysfs_vnop_lookup()) asks for the node k.
Find(t, k) ==
    /\ pc[t] = "idle"
    /\ pc' = [pc EXCEPT ![t] = "lock"]
    /\ key' = [key EXCEPT ![t] = k]
    /\ UNCHANGED <<new, inserted, target, tvnode, tvid, tableVars, vnode>>

\* No entry, and no node allocated yet: the mutex is dropped to allocate one.
ScanMiss(t) ==
    /\ pc[t] = "lock"
    /\ Matches(t) = {}
    /\ new[t] = NULL
    /\ pc' = [pc EXCEPT ![t] = "malloc"]
    /\ UNCHANGED <<key, new, inserted, target, tvnode, tvid, tableVars, vnode>>

\* OSMalloc() succeeds; the loop starts again with the mutex held.
Malloc(t) ==
    /\ pc[t] = "malloc"
    /\ \E n \in Nodes \ heap :
          /\ heap' = heap \cup {n}
          /\ new' = [new EXCEPT ![t] = n]
    /\ pc' = [pc EXCEPT ![t] = "lock"]
    /\ UNCHANGED <<key, inserted, target, tvnode, tvid, hash, sfsnode,
                   liveNodes, vnode>>

\* OSMalloc() fails: ENOMEM.
MallocFail(t) ==
    /\ pc[t] = "malloc"
    /\ pc' = [pc EXCEPT ![t] = "idle"]
    /\ Forget(t)
    /\ UNCHANGED <<tableVars, vnode>>

\* Another thread is attaching a vnode to the entry: ask for a wakeup, and
\* msleep() on the entry's address, which drops the mutex.
ScanSleep(t) ==
    /\ pc[t] = "lock"
    /\ \E n \in Nodes :
          /\ IsTarget(t, n)
          /\ Contents(t, n).attaching
          /\ sfsnode' = [sfsnode EXCEPT ![n].waiting = TRUE]
          /\ target' = [target EXCEPT ![t] = n]
    /\ pc' = [pc EXCEPT ![t] = "sleep"]
    /\ UNCHANGED <<key, new, inserted, tvnode, tvid, heap, hash, liveNodes,
                   vnode>>

\* The entry has a vnode: read its vid and drop the mutex.
ScanVnode(t) ==
    /\ pc[t] = "lock"
    /\ \E n \in Nodes :
          /\ IsTarget(t, n)
          /\ ~Contents(t, n).attaching
          /\ Contents(t, n).vp # NULL
          /\ target' = [target EXCEPT ![t] = n]
          /\ tvnode' = [tvnode EXCEPT ![t] = Contents(t, n).vp]
          /\ tvid' = [tvid EXCEPT ![t] = vnode[Contents(t, n).vp].vid]
    /\ pc' = [pc EXCEPT ![t] = "getvid"]
    /\ UNCHANGED <<key, new, inserted, tableVars, vnode>>

\* Nobody is attaching a vnode and there is none, as in a node this thread has
\* just inserted: claim the attachment and drop the mutex.
ScanAttach(t) ==
    /\ pc[t] = "lock"
    /\ \E n \in Nodes :
          /\ IsTarget(t, n)
          /\ ~Contents(t, n).attaching
          /\ Contents(t, n).vp = NULL
          /\ sfsnode' = [sfsnode EXCEPT
                           ![n] = [key |-> key[t], attaching |-> TRUE,
                                   waiting |-> Contents(t, n).waiting,
                                   vp |-> NULL]]
          /\ target' = [target EXCEPT ![t] = n]
          /\ hash' = hash \cup {n}
          /\ liveNodes' = IF n \in Matches(t) THEN liveNodes ELSE liveNodes + 1
          /\ inserted' = [inserted EXCEPT ![t] = @ \/ n \notin Matches(t)]
    /\ pc' = [pc EXCEPT ![t] = "create"]
    /\ UNCHANGED <<key, new, tvnode, tvid, heap, vnode>>

\* Mutant: vnode_get() instead of vnode_getwithvid().
GetWithoutVid(t) ==
    /\ pc[t] = "getvid"
    /\ vnode[tvnode[t]].state = "live"
    /\ vnode' = [vnode EXCEPT ![tvnode[t]].iocount = @ \cup {t}]
    /\ heap' = heap \ Unused(t)
    /\ new' = [new EXCEPT ![t] = NULL]
    /\ pc' = [pc EXCEPT ![t] = "have"]
    /\ UNCHANGED <<key, inserted, target, tvnode, tvid, hash, sfsnode,
                   liveNodes>>

\* vnode_getwithvid() finds the vnode it was asked for and adds an iocount.
\* A node that was allocated and not used is freed before the return.
GetWithVid(t) ==
    /\ pc[t] = "getvid"
    /\ vnode[tvnode[t]].state = "live"
    /\ vnode[tvnode[t]].vid = tvid[t]
    /\ vnode' = [vnode EXCEPT ![tvnode[t]].iocount = @ \cup {t}]
    /\ heap' = heap \ Unused(t)
    /\ new' = [new EXCEPT ![t] = NULL]
    /\ pc' = [pc EXCEPT ![t] = "have"]
    /\ UNCHANGED <<key, inserted, target, tvnode, tvid, hash, sfsnode,
                   liveNodes>>

\* It fails: the vnode is being recycled, or already has another identity.
GetWithVidFail(t) ==
    /\ pc[t] = "getvid"
    /\ \/ vnode[tvnode[t]].state # "live"
       \/ vnode[tvnode[t]].vid # tvid[t]
    /\ pc' = [pc EXCEPT ![t] = "retry"]
    /\ UNCHANGED <<key, new, inserted, target, tvnode, tvid, tableVars, vnode>>

\* With the mutex held again, a node that was never inserted is freed, and
\* everything starts from scratch.
Retry(t) ==
    /\ pc[t] = "retry"
    /\ heap' = IF ~inserted[t] THEN heap \ {new[t]} ELSE heap
    /\ new' = [new EXCEPT ![t] = IF ~inserted[t] THEN NULL ELSE @]
    /\ target' = [target EXCEPT ![t] = NULL]
    /\ tvnode' = [tvnode EXCEPT ![t] = NULL]
    /\ tvid' = [tvid EXCEPT ![t] = 0]
    /\ pc' = [pc EXCEPT ![t] = "lock"]
    /\ UNCHANGED <<key, inserted, hash, sfsnode, liveNodes, vnode>>

\* The callback's vnode_create() succeeds: the vnode points to the sfsnode_t
\* and carries an iocount for this thread.  It can be found by the VFS, but
\* the sfsnode_t does not point back to it yet.
CreateVnode(t) ==
    /\ pc[t] = "create"
    /\ \E v \in Vnodes :
          /\ vnode[v].state = "free"
          /\ vnode[v].vid < MaxVid
          /\ vnode' = [vnode EXCEPT
                         ![v] = [state |-> "live", vid |-> @.vid,
                                 fsnode |-> target[t], iocount |-> {t},
                                 fsref |-> @.fsref]]
          /\ tvnode' = [tvnode EXCEPT ![t] = v]
    /\ pc' = [pc EXCEPT ![t] = "attach"]
    /\ UNCHANGED <<key, new, inserted, target, tvid, tableVars>>

\* vnode_create() succeeded.  The mutex is taken, the claim is dropped, the
\* waiters are woken and the vnode is linked to the sfsnode_t, with a file
\* system reference.
Attach(t) ==
    /\ pc[t] = "attach"
    /\ EndAttaching(t, target[t], "have")
    /\ sfsnode' = [sfsnode EXCEPT
                     ![target[t]] = [key |-> @.key, attaching |-> FALSE,
                                     waiting |-> FALSE, vp |-> tvnode[t]]]
    /\ vnode' = [vnode EXCEPT ![tvnode[t]].fsref = TRUE]
    /\ heap' = heap \ Unused(t)
    /\ new' = [new EXCEPT ![t] = NULL]
    /\ UNCHANGED <<key, inserted, target, tvnode, tvid, hash, liveNodes>>

\* Mutant: the waiters are woken on success only.
AttachFailNoWakeup(t) ==
    /\ pc[t] = "create"
    /\ pc' = [pc EXCEPT ![t] = "idle"]
    /\ FreeNode(target[t])
    /\ Forget(t)
    /\ UNCHANGED vnode

\* vnode_create() failed.  The mutex is taken, the waiters are woken, and
\* the sfsnode_t, which is new_sfsnode, is removed and freed.
AttachFail(t) ==
    /\ pc[t] = "create"
    /\ EndAttaching(t, target[t], "idle")
    /\ FreeNode(target[t])
    /\ Forget(t)
    /\ UNCHANGED vnode

\* The caller is done with the vnode: vnode_put().
Put(t) ==
    /\ pc[t] = "have"
    /\ vnode' = [vnode EXCEPT ![tvnode[t]].iocount = @ \ {t}]
    /\ pc' = [pc EXCEPT ![t] = "idle"]
    /\ Forget(t)
    /\ UNCHANGED tableVars

-----------------------------------------------------------------------------
(* The VFS layer and sysfs_vnop_reclaim().                                 *)

\* The VFS decides to recycle a vnode that nobody holds: by age, or in the
\* vflush() of an unmount.  vnode_getwithvid() fails from here on.
Recycle(v) ==
    /\ vnode[v].state = "live"
    /\ vnode[v].iocount = {}
    /\ vnode' = [vnode EXCEPT ![v].state = "reclaim"]
    /\ UNCHANGED <<threadVars, tableVars>>

\* Mutant: the sfsnode_t stays in the table.
ReclaimKeepsNode(v) ==
    /\ vnode[v].state = "reclaim"
    /\ vnode' = [vnode EXCEPT ![v].state = "reclaimed"]
    /\ UNCHANGED <<threadVars, tableVars>>

\* sysfs_vnop_reclaim(), with the mutex held: free the sfsnode_t.
Reclaim(v) ==
    /\ vnode[v].state = "reclaim"
    /\ IF vnode[v].fsnode # NULL THEN FreeNode(vnode[v].fsnode)
                                 ELSE UNCHANGED tableVars
    /\ vnode' = [vnode EXCEPT ![v].state = "reclaimed"]
    /\ UNCHANGED threadVars

\* The rest of it, with the mutex dropped: the file system reference and the
\* link to the sfsnode_t go.  The VFS then gives the vnode a new vid and may
\* use it for anything.
ReclaimDone(v) ==
    /\ vnode[v].state = "reclaimed"
    /\ vnode' = [vnode EXCEPT ![v].state = "free", ![v].vid = @ + 1,
                              ![v].fsref = FALSE, ![v].fsnode = NULL]
    /\ UNCHANGED <<threadVars, tableVars>>

-----------------------------------------------------------------------------
\* What a thread does inside sysfsnode_find() once it has been called.
FindStep(t) ==
    \/ ScanMiss(t) \/ Malloc(t) \/ MallocFail(t)
    \/ ScanSleep(t) \/ ScanVnode(t) \/ ScanAttach(t)
    \/ GetWithVid(t) \/ GetWithVidFail(t) \/ Retry(t)
    \/ CreateVnode(t) \/ Attach(t) \/ AttachFail(t)

ReclaimStep(v) == Reclaim(v) \/ ReclaimDone(v)

Next ==
    \/ \E t \in Threads : (\E k \in Keys : Find(t, k)) \/ FindStep(t) \/ Put(t)
    \/ \E v \in Vnodes : Recycle(v) \/ ReclaimStep(v)

Spec == Init /\ [][Next]_vars

\* A kernel thread inside sysfsnode_find() keeps running until it sleeps or
\* returns, gets the mutex when it waits for it (no section that holds it
\* blocks), and a VNOP_RECLAIM that has started runs to its end.  Nobody has
\* to call sysfsnode_find(), and the VFS never has to recycle a vnode.
Fairness ==
    /\ \A t \in Threads : WF_vars(FindStep(t))
    /\ \A v \in Vnodes : WF_vars(ReclaimStep(v))

FairSpec == Spec /\ Fairness

-----------------------------------------------------------------------------
(* Properties.                                                             *)

\* "There must only ever be one node for each unique identifier in any given
\* instance of the file system": although sysfsnode_find() drops the mutex to
\* allocate, two threads that miss on the same identity never both insert.
UniqueIdentity ==
    \A m, n \in hash : sfsnode[m].key = sfsnode[n].key => m = n

\* An entry of the table is never half-built and abandoned: either its vnode
\* is linked to it in both directions, or exactly one thread is between the
\* claim (node_attaching_vnode) and the end of the attachment.
AttachedOrClaimed ==
    \A n \in hash :
      LET claimers == {t \in Threads : /\ pc[t] \in {"create", "attach"}
                                       /\ target[t] = n}
      IN \/ /\ sfsnode[n].attaching
            /\ sfsnode[n].vp = NULL
            /\ \E t \in claimers : claimers = {t}
         \/ /\ ~sfsnode[n].attaching
            /\ claimers = {}
            /\ sfsnode[n].vp # NULL
            /\ vnode[sfsnode[n].vp].fsnode = n
            /\ vnode[sfsnode[n].vp].state \in {"live", "reclaim"}

\* What the caller of sysfsnode_find() is given: a vnode that cannot be
\* recycled while the caller holds it, whose sfsnode_t is in the table and is
\* the node that was asked for, although the vnode was chosen with the mutex
\* held and referenced after it was dropped.
ResultIsPinned ==
    \A t \in Threads : pc[t] = "have" =>
        /\ t \in vnode[tvnode[t]].iocount
        /\ vnode[tvnode[t]].state = "live"
        /\ vnode[tvnode[t]].fsnode = target[t]
        /\ target[t] \in hash
        /\ sfsnode[target[t]].key = key[t]
        /\ sfsnode[target[t]].vp = tvnode[t]

\* No sfsnode_t leaks and none is used after it is freed: allocated memory is
\* what the table holds plus what each thread has allocated and not inserted,
\* and those are disjoint.  Every exit path frees exactly what it must.
HeapAccounted ==
    LET private == {t \in Threads : new[t] # NULL /\ ~inserted[t]}
    IN /\ heap = hash \cup {new[t] : t \in private}
       /\ \A t \in private : new[t] \notin hash
       /\ \A s, t \in private : new[s] = new[t] => s = t

\* A thread asleep in sysfsnode_find() sleeps on an entry that is still in the
\* table, is for the identity it wants, is being attached, and is marked so
\* that the attaching thread will call wakeup(): no wakeup is lost, and no
\* thread sleeps on a freed (or reused) address.
SleeperIsExpected ==
    \A t \in Threads : pc[t] = "sleep" =>
        /\ target[t] \in hash
        /\ sfsnode[target[t]].key = key[t]
        /\ sfsnode[target[t]].attaching
        /\ sfsnode[target[t]].waiting

\* sysfs_vnop_reclaim() frees the sfsnode_t its vnode points to: when it does,
\* that node is in the table, is linked to this vnode and to no other, and no
\* thread is using it.  Otherwise it would free a node twice, or a live one.
ReclaimOwnsNode ==
    \A v \in Vnodes : vnode[v].state = "reclaim" =>
        /\ vnode[v].fsnode \in hash
        /\ sfsnode[vnode[v].fsnode].vp = v
        /\ \A t \in Threads : pc[t] \in {"create", "attach", "have"} =>
                                target[t] # vnode[v].fsnode

\* sysfs_stat_live_nodes, which the sysfs.live_nodes sysctl reports, is the
\* number of nodes in the table.
LiveNodesExact == liveNodes = Cardinality(hash)

\* vnode_addfsref() and vnode_removefsref() are paired (the kernel panics on
\* a second add or on a remove with none): a vnode to be attached or recycled
\* for another use has no file system reference, one being reclaimed has.
FsrefPaired ==
    /\ \A v \in Vnodes : /\ vnode[v].state = "free" => ~vnode[v].fsref
                         /\ vnode[v].state \in {"reclaim", "reclaimed"}
                              => vnode[v].fsref
    /\ \A t \in Threads : pc[t] = "attach" => ~vnode[tvnode[t]].fsref

\* A thread that sleeps until another thread's attachment ends wakes up,
\* whether that attachment succeeds or fails.
SleepEnds == \A t \in Threads : pc[t] = "sleep" ~> pc[t] # "sleep"

\* The retry loop of sysfsnode_find() ends: if vnode creation does not go on
\* failing for ever (and vnodes are not recycled for ever, which MaxVid rules
\* out), every call returns.
FindReturns ==
    <>[][\A t \in Threads : ~AttachFail(t)]_vars =>
        \A t \in Threads :
            pc[t] \notin {"idle", "have"} ~> pc[t] \in {"idle", "have"}

-----------------------------------------------------------------------------
(* The inductive invariant behind the safety properties above.             *)

\* n's vnode is v, and v's sfsnode_t is n.
Linked(n, v) ==
    /\ n \in hash
    /\ v \in Vnodes
    /\ ~sfsnode[n].attaching
    /\ sfsnode[n].vp = v
    /\ vnode[v].fsnode = n
    /\ vnode[v].state \in {"live", "reclaim"}
    /\ vnode[v].fsref

\* What each step of sysfsnode_find() may rely on about the thread's locals.
LocalsInv(t) ==
    /\ pc[t] # "idle" => key[t] \in Keys
    /\ pc[t] \in {"idle", "malloc", "have"} => new[t] = NULL
    /\ inserted[t] => pc[t] \in {"create", "attach", "have"}
    /\ pc[t] \in {"create", "attach"} => inserted[t] /\ new[t] = target[t]
    /\ pc[t] = "getvid" => target[t] \in Nodes /\ new[t] # target[t]

\* The threads between the claim of an entry and the end of its attachment.
Claiming(t) == pc[t] \in {"create", "attach"}

ClaimInv(t) ==
    Claiming(t) => /\ target[t] \in hash
                   /\ sfsnode[target[t]].attaching
                   /\ sfsnode[target[t]].key = key[t]

\* vnode_create() has returned a vnode that only this thread holds.
CreatedInv(t) ==
    pc[t] = "attach" => /\ tvnode[t] \in Vnodes
                        /\ vnode[tvnode[t]].state = "live"
                        /\ vnode[tvnode[t]].fsnode = target[t]
                        /\ t \in vnode[tvnode[t]].iocount
                        /\ ~vnode[tvnode[t]].fsref

\* As long as the vid has not changed, the entry read earlier is still there.
GetvidInv(t) ==
    pc[t] = "getvid" =>
        /\ tvnode[t] \in Vnodes
        /\ tvid[t] <= vnode[tvnode[t]].vid
        /\ tvid[t] = vnode[tvnode[t]].vid =>
              \/ vnode[tvnode[t]].state = "reclaimed"
              \/ Linked(target[t], tvnode[t]) /\ sfsnode[target[t]].key = key[t]

HaveInv(t) ==
    pc[t] = "have" => /\ Linked(target[t], tvnode[t])
                      /\ vnode[tvnode[t]].state = "live"
                      /\ t \in vnode[tvnode[t]].iocount
                      /\ sfsnode[target[t]].key = key[t]

SleepInv(t) ==
    pc[t] = "sleep" => /\ target[t] \in hash
                       /\ sfsnode[target[t]].key = key[t]
                       /\ sfsnode[target[t]].attaching
                       /\ sfsnode[target[t]].waiting

ThreadInv(t) ==
    /\ LocalsInv(t) /\ ClaimInv(t) /\ CreatedInv(t)
    /\ GetvidInv(t) /\ HaveInv(t) /\ SleepInv(t)

\* No two threads claim one entry.
ClaimsDisjoint ==
    \A s, t \in Threads :
        Claiming(s) /\ Claiming(t) /\ target[s] = target[t] => s = t

\* Every entry of the table is attached or claimed.
NodeInv(n) ==
    n \in hash =>
        /\ sfsnode[n].key \in Keys
        /\ sfsnode[n].attaching =>
              /\ sfsnode[n].vp = NULL
              /\ \E t \in Threads : Claiming(t) /\ target[t] = n
        /\ ~sfsnode[n].attaching => Linked(n, sfsnode[n].vp)

\* Every vnode of this file system has its entry, except between the two
\* halves of sysfs_vnop_reclaim().
VnodeInv(v) ==
    /\ vnode[v].state # "free" => vnode[v].vid < MaxVid
    /\ vnode[v].state = "free" => ~vnode[v].fsref
    /\ vnode[v].state = "live" =>
          \/ Linked(vnode[v].fsnode, v)
          \/ \E t \in Threads : pc[t] = "attach" /\ tvnode[t] = v
    /\ vnode[v].state = "reclaim" => /\ Linked(vnode[v].fsnode, v)
                                     /\ vnode[v].iocount = {}
    /\ vnode[v].state = "reclaimed" => vnode[v].fsref

\* Each allocated node is in the table or private to one thread.
HeapInv ==
    /\ \A n \in Nodes :
          n \in heap <=> \/ n \in hash
                         \/ \E t \in Threads : new[t] = n /\ ~inserted[t]
    /\ \A t \in Threads : ~inserted[t] => new[t] \notin hash
    /\ \A s, t \in Threads :
          s # t /\ new[s] = new[t] /\ ~inserted[s] /\ ~inserted[t]
              => new[s] = NULL

\* The inductive invariant: preserved by every step of sysfsnode_find() and
\* sysfs_vnop_reclaim(), and strong enough to imply every safety property.
IInv ==
    /\ TypeOK
    /\ UniqueIdentity
    /\ LiveNodesExact
    /\ HeapInv
    /\ ClaimsDisjoint
    /\ \A t \in Threads : ThreadInv(t)
    /\ \A n \in Nodes : NodeInv(n)
    /\ \A v \in Vnodes : VnodeInv(v)
=============================================================================

--------------------------- MODULE NodeCacheProofs ---------------------------
(***************************************************************************)
(* Proofs about the sfsnode cache, part 2: the reclaim of a vnode, and the *)
(* theorems.  They hold for any set of threads, identities, node addresses *)
(* and vnodes: IInv of NodeCache is inductive and implies every safety     *)
(* property of NodeCache.                                                  *)
(***************************************************************************)
EXTENDS NodeCacheSteps, NodeCacheRefinement, FiniteSetTheorems

-----------------------------------------------------------------------------
(* The VFS and sysfs_vnop_reclaim().                                       *)

\* The parts of the invariant that are not about vnodes survive a step that
\* changes no thread.
LEMMA ThreadsUnchanged ==
  ASSUME UNCHANGED threadVars
  PROVE  /\ \A t \in Threads : SameThread(t)
         /\ \A t \in Threads : Claiming(t)' <=> Claiming(t)
         /\ ClaimsDisjoint => ClaimsDisjoint'
         /\ \A t \in Threads : new'[t] = new[t] /\ inserted'[t] = inserted[t]
         /\ \A n : \A t \in Threads : Claiming(t) /\ target[t] = n
                                        => Claiming(t)' /\ target'[t] = n
BY Zenon DEF threadVars, SameThread, Claiming, ClaimsDisjoint

\* Choosing an unused vnode for recycling keeps the invariant.
LEMMA RecycleInv ==
  ASSUME IInv, NEW v \in Vnodes, Recycle(v)
  PROVE  IInv'
<1>1. /\ vnode[v].state = "live" /\ vnode[v].iocount = {}
      /\ UNCHANGED threadVars
      /\ hash' = hash /\ heap' = heap /\ sfsnode' = sfsnode
      /\ liveNodes' = liveNodes
  BY Zenon DEF Recycle, tableVars
<1>2. /\ \A w \in Vnodes : w # v => vnode'[w] = vnode[w]
      /\ vnode'[v].state = "reclaim" /\ vnode'[v].vid = vnode[v].vid
      /\ vnode'[v].fsnode = vnode[v].fsnode
      /\ vnode'[v].fsref = vnode[v].fsref /\ vnode'[v].iocount = {}
  BY Zenon DEF Recycle, IInv, TypeOK, VnodeType
<1>3. TypeOK'
  <2>1. vnode \in [Vnodes -> VnodeType]
    BY Zenon DEF IInv, TypeOK
  <2>2. vnode' \in [Vnodes -> VnodeType]
    BY <2>1, Zenon DEF Recycle, VnodeType, VnodeStates
  <2> QED BY <1>1, <2>2, Zenon DEF threadVars, IInv, TypeOK
<1>4. UniqueIdentity' /\ LiveNodesExact' /\ HeapInv' /\ ClaimsDisjoint'
  BY <1>1, ThreadsUnchanged
     DEF IInv, UniqueIdentity, LiveNodesExact, HeapInv
<1>5. \A m : SameNode(m)
  BY <1>1, Zenon DEF SameNode
<1>6. \A m, w : Linked(m, w) => Linked(m, w)'
  BY <1>1, <1>2, Zenon DEF Linked
<1>7. \A s \in Threads : pc[s] \in {"attach", "have"} => tvnode[s] # v
  BY <1>1, Zenon DEF IInv, ThreadInv, CreatedInv, HaveInv
<1>8. ASSUME NEW s \in Threads PROVE ThreadInv(s)'
  <2>1. ThreadInv(s) /\ SameThread(s)
    BY <1>1, ThreadsUnchanged, Zenon DEF IInv
  <2>2. pc[s] \in {"attach", "have"} => SameVnode(tvnode[s], {s})
    BY <1>2, <1>7, <2>1, Zenon
       DEF ThreadInv, CreatedInv, HaveInv, Linked, SameVnode
  <2>3. \A w \in Vnodes :
          /\ vnode'[w].vid \in Int /\ vnode[w].vid <= vnode'[w].vid
          /\ vnode[w].state = "reclaimed" => vnode'[w].state = "reclaimed"
    <3>1. \A w \in Vnodes : vnode[w].vid \in Int
      BY DEF IInv, TypeOK, VnodeType
    <3> QED BY <1>1, <1>2, <3>1
  <2>4. GetvidInv(s)'
    BY <1>5, <1>6, <2>1, <2>3, GetvidFrame, Zenon DEF IInv, ThreadInv
  <2> QED BY <1>5, <2>1, <2>2, <2>4, OtherThread, Zenon
<1>9. ASSUME NEW m \in Nodes PROVE NodeInv(m)'
  <2>1. \A s \in Threads : Claiming(s) /\ target[s] = m
                             => Claiming(s)' /\ target'[s] = m
    BY <1>1, ThreadsUnchanged, Zenon
  <2>2. NodeInv(m)
    BY Zenon DEF IInv
  <2> QED BY <1>1, <1>6, <2>1, <2>2, Zenon DEF NodeInv
<1>10. ASSUME NEW w \in Vnodes PROVE VnodeInv(w)'
  <2>1. VnodeInv(w)
    BY Zenon DEF IInv
  <2>2. CASE w = v
    <3>1. Linked(vnode[v].fsnode, v) /\ vnode[v].vid < MaxVid
      BY <1>1, <1>7, <2>1, <2>2, Zenon DEF VnodeInv
    <3> QED BY <1>2, <1>6, <2>2, <3>1, Zenon DEF VnodeInv
  <2>3. CASE w # v
    <3>1. \A s \in Threads : pc'[s] = pc[s] /\ tvnode'[s] = tvnode[s]
      BY <1>1, Zenon DEF threadVars
    <3>2. vnode'[w] = vnode[w]
      BY <1>2, <2>3, Zenon
    <3> QED BY <1>6, <2>1, <3>1, <3>2, Zenon DEF VnodeInv
  <2> QED BY <2>2, <2>3, Zenon
<1> QED BY <1>3, <1>4, <1>8, <1>9, <1>10, Zenon DEF IInv

\* The first half of sysfs_vnop_reclaim() keeps the invariant.
LEMMA ReclaimInv ==
  ASSUME IInv, CountFacts, NEW v \in Vnodes, Reclaim(v),
         NEW n, n = vnode[v].fsnode
  PROVE  IInv'
<1>1. vnode[v].state = "reclaim" /\ UNCHANGED threadVars
  BY Zenon DEF Reclaim
<1>2. Linked(n, v) /\ vnode[v].vid < MaxVid
  BY <1>1, Zenon DEF IInv, VnodeInv
<1>3. /\ n \in hash /\ n # NULL /\ sfsnode[n].vp = v /\ ~sfsnode[n].attaching
      /\ vnode[v].fsref
  BY <1>2, NodeCacheAssumption, Zenon DEF Linked, IInv, TypeOK
<1>4. FreeNode(n)
  BY <1>3, Zenon DEF Reclaim
<1>5. /\ \A w \in Vnodes : w # v => vnode'[w] = vnode[w]
      /\ vnode'[v].state = "reclaimed" /\ vnode'[v].vid = vnode[v].vid
      /\ vnode'[v].fsref = vnode[v].fsref
  BY Zenon DEF Reclaim, IInv, TypeOK, VnodeType
<1>6. /\ UniqueIdentity' /\ LiveNodesExact' /\ HeapInv'
      /\ heap' \in SUBSET Nodes /\ hash' \in SUBSET Nodes
      /\ sfsnode' \in [Nodes -> SfsnodeType] /\ liveNodes' \in Nat
  BY <1>1, <1>3, <1>4, ThreadsUnchanged, FreeNodeInv, Zenon
<1>7. TypeOK'
  <2>1. vnode' \in [Vnodes -> VnodeType]
    BY DEF Reclaim, IInv, TypeOK, VnodeType, VnodeStates
  <2> QED BY <1>1, <1>6, <2>1, Zenon DEF threadVars, IInv, TypeOK
<1>8. \A m : m # n => SameNode(m)
  BY <1>4, RemoveFrame, Zenon DEF IInv
<1>9. \A w \in Vnodes \ {v} : SameVnode(w, {}) /\ \A s : SameVnode(w, {s})
  BY <1>5, Zenon DEF SameVnode
<1>10. \A m, w : Linked(m, w) /\ w # v => Linked(m, w)' /\ m # n
  <2> SUFFICES ASSUME NEW m, NEW w, Linked(m, w), w # v
               PROVE  Linked(m, w)' /\ m # n
    BY Zenon
  <2>1. m # n /\ w \in Vnodes
    BY <1>3, Zenon DEF Linked
  <2> QED BY <1>8, <1>9, <2>1, LinkedFrame, Zenon
<1>11. ASSUME NEW s \in Threads PROVE ThreadInv(s)'
  <2>1. ThreadInv(s) /\ SameThread(s)
    BY <1>1, ThreadsUnchanged, Zenon DEF IInv
  <2>2. pc[s] \in {"attach", "have"} => tvnode[s] \in Vnodes \ {v}
    BY <1>1, <2>1, Zenon DEF ThreadInv, CreatedInv, HaveInv, Linked
  <2>3. Claiming(s) \/ pc[s] \in {"sleep", "have"} => target[s] # n
    BY <1>3, <2>1, <2>2, Zenon
       DEF ThreadInv, ClaimInv, SleepInv, HaveInv, Linked
  <2>4. \A w \in Vnodes :
          /\ vnode'[w].vid \in Int /\ vnode[w].vid <= vnode'[w].vid
          /\ vnode[w].state = "reclaimed" => vnode'[w].state = "reclaimed"
    <3>1. \A w \in Vnodes : vnode[w].vid \in Int
      BY DEF IInv, TypeOK, VnodeType
    <3> QED BY <1>5, <3>1
  <2>5. \A m, w : Linked(m, w) => \/ vnode'[w].state = "reclaimed"
                                  \/ Linked(m, w)' /\ SameNode(m)
    BY <1>5, <1>8, <1>10, Zenon
  <2>6. GetvidInv(s)'
    BY <2>1, <2>4, <2>5, GetvidFrame, Zenon DEF IInv, ThreadInv
  <2> QED BY <1>8, <1>9, <2>1, <2>2, <2>3, <2>6, OtherThread, ZenonT(60)
<1>12. ASSUME NEW m \in Nodes PROVE NodeInv(m)'
  <2>1. hash' = hash \ {n}
    BY <1>4, Zenon DEF FreeNode
  <2> SUFFICES ASSUME m # n, m \in hash PROVE NodeInv(m)'
    BY <2>1, Zenon DEF NodeInv
  <2>2. \A s \in Threads : Claiming(s) /\ target[s] = m
                             => Claiming(s)' /\ target'[s] = m
    BY <1>1, ThreadsUnchanged, Zenon
  <2>3. NodeInv(m) /\ sfsnode[m].vp # v
    <3>1. NodeInv(m)
      BY Zenon DEF IInv
    <3>2. sfsnode[m].vp = NULL \/ vnode[sfsnode[m].vp].fsnode = m
      BY <3>1, Zenon DEF NodeInv, Linked
    <3>3. vnode[v].fsnode = n /\ NULL \notin Vnodes /\ v \in Vnodes
      BY <1>2, NodeCacheAssumption, Zenon DEF Linked
    <3> QED BY <3>1, <3>2, <3>3, Zenon
  <2> QED BY <1>8, <1>9, <2>2, <2>3, NodeFrame, Zenon
<1>13. ASSUME NEW w \in Vnodes PROVE VnodeInv(w)'
  <2>1. VnodeInv(w)
    BY Zenon DEF IInv
  <2>2. CASE w = v
    BY <1>2, <1>3, <1>5, <2>2, ZenonT(60) DEF VnodeInv
  <2>3. CASE w # v
    <3>1. \A s \in Threads : pc'[s] = pc[s] /\ tvnode'[s] = tvnode[s]
      BY <1>1, Zenon DEF threadVars
    <3>2. vnode'[w] = vnode[w]
      BY <1>5, <2>3, Zenon
    <3> QED BY <1>10, <2>1, <2>3, <3>1, <3>2, Zenon DEF VnodeInv
  <2> QED BY <2>2, <2>3, Zenon
<1>14. ClaimsDisjoint'
  BY <1>1, ThreadsUnchanged, Zenon DEF IInv
<1> QED BY <1>6, <1>7, <1>11, <1>12, <1>13, <1>14, Zenon DEF IInv

\* Its second half keeps the invariant: the vid grows, so nobody who remembers
\* the vnode can take its next life for the one they saw.
LEMMA ReclaimDoneInv ==
  ASSUME IInv, NEW v \in Vnodes, ReclaimDone(v)
  PROVE  IInv'
<1>1. /\ vnode[v].state = "reclaimed" /\ UNCHANGED threadVars
      /\ hash' = hash /\ heap' = heap /\ sfsnode' = sfsnode
      /\ liveNodes' = liveNodes
  BY Zenon DEF ReclaimDone, tableVars
<1>2. /\ \A w \in Vnodes : w # v => vnode'[w] = vnode[w]
      /\ vnode'[v].state = "free" /\ vnode'[v].vid = vnode[v].vid + 1
      /\ ~vnode'[v].fsref
  BY DEF ReclaimDone, IInv, TypeOK, VnodeType
<1>3. \A w \in Vnodes : vnode[w].vid \in Int
  BY DEF IInv, TypeOK, VnodeType
<1>4. TypeOK'
  <2>1. vnode[v].vid + 1 \in 0 .. MaxVid /\ vnode \in [Vnodes -> VnodeType]
    BY <1>1, NodeCacheAssumption DEF IInv, TypeOK, VnodeInv, VnodeType
  <2>2. vnode' \in [Vnodes -> VnodeType]
    BY <2>1 DEF ReclaimDone, VnodeType, VnodeStates
  <2> QED BY <1>1, <2>2, Zenon DEF threadVars, IInv, TypeOK
<1>5. UniqueIdentity' /\ LiveNodesExact' /\ HeapInv' /\ ClaimsDisjoint'
  <2>1. UniqueIdentity /\ LiveNodesExact /\ HeapInv /\ ClaimsDisjoint
    BY Zenon DEF IInv
  <2>2. UniqueIdentity' /\ LiveNodesExact'
    BY <1>1, <2>1, Zenon DEF UniqueIdentity, LiveNodesExact
  <2>3. HeapInv'
    BY <1>1, <2>1, ThreadsUnchanged DEF HeapInv
  <2>4. ClaimsDisjoint'
    BY <1>1, <2>1, ThreadsUnchanged, Zenon
  <2> QED BY <2>2, <2>3, <2>4, Zenon
<1>6. \A m : SameNode(m)
  BY <1>1, Zenon DEF SameNode
<1>7. \A m, w : Linked(m, w) => Linked(m, w)' /\ w # v
  BY <1>1, <1>2, Zenon DEF Linked
<1>8. ASSUME NEW s \in Threads PROVE ThreadInv(s)'
  <2>1. ThreadInv(s) /\ SameThread(s)
    BY <1>1, ThreadsUnchanged, Zenon DEF IInv
  <2>2. pc[s] \in {"attach", "have"} => SameVnode(tvnode[s], {s})
    BY <1>1, <1>2, <2>1, Zenon
       DEF ThreadInv, CreatedInv, HaveInv, Linked, SameVnode
  <2>3. \A w \in Vnodes :
          /\ vnode'[w].vid \in Int /\ vnode[w].vid <= vnode'[w].vid
          /\ vnode'[w].vid = vnode[w].vid /\ vnode[w].state = "reclaimed"
                => vnode'[w].state = "reclaimed"
    BY <1>2, <1>3
  <2>4. GetvidInv(s)'
    BY <1>6, <1>7, <2>1, <2>3, GetvidFrame, Zenon DEF IInv, ThreadInv
  <2> QED BY <1>6, <2>1, <2>2, <2>4, OtherThread, Zenon
<1>9. ASSUME NEW m \in Nodes PROVE NodeInv(m)'
  <2>1. \A s \in Threads : Claiming(s) /\ target[s] = m
                             => Claiming(s)' /\ target'[s] = m
    BY <1>1, ThreadsUnchanged, Zenon
  <2>2. NodeInv(m)
    BY Zenon DEF IInv
  <2> QED BY <1>1, <1>7, <2>1, <2>2, Zenon DEF NodeInv
<1>10. ASSUME NEW w \in Vnodes PROVE VnodeInv(w)'
  <2>1. VnodeInv(w)
    BY Zenon DEF IInv
  <2>2. CASE w = v
    BY <1>2, <2>2, Zenon DEF VnodeInv
  <2>3. CASE w # v
    <3>1. \A s \in Threads : pc'[s] = pc[s] /\ tvnode'[s] = tvnode[s]
      BY <1>1, Zenon DEF threadVars
    <3>2. vnode'[w] = vnode[w]
      BY <1>2, <2>3, Zenon
    <3> QED BY <1>7, <2>1, <3>1, <3>2, Zenon DEF VnodeInv
  <2> QED BY <2>2, <2>3, Zenon
<1> QED BY <1>4, <1>5, <1>8, <1>9, <1>10, Zenon DEF IInv

-----------------------------------------------------------------------------
(* The theorems.                                                           *)

\* Inserting a node adds one to the size of the table, removing one takes one
\* away: there are finitely many nodes.
LEMMA Counting == CountFacts
<1> SUFFICES ASSUME NEW S \in SUBSET Nodes, NEW n \in Nodes
             PROVE  /\ n \notin S =>
                          Cardinality(S \cup {n}) = Cardinality(S) + 1
                    /\ n \in S => /\ Cardinality(S \ {n}) = Cardinality(S) - 1
                                  /\ Cardinality(S) - 1 \in Nat
  BY Zenon DEF CountFacts
<1>1. IsFiniteSet(S)
  BY NodeCacheAssumption, FS_Subset, Zenon
<1>2. n \notin S => Cardinality(S \cup {n}) = Cardinality(S) + 1
  BY <1>1, FS_AddElement, Zenon
<1>3. n \in S => /\ IsFiniteSet(S \ {n})
                 /\ Cardinality(S \ {n}) = Cardinality(S) - 1
  BY <1>1, FS_RemoveElement, Zenon
<1>4. n \in S => Cardinality(S \ {n}) \in Nat
  BY <1>3, FS_CardinalityType, Zenon
<1> QED BY <1>2, <1>3, <1>4, Zenon

\* The empty table satisfies the invariant.
LEMMA InitInv == Init => IInv
<1> SUFFICES ASSUME Init PROVE IInv
  BY Zenon
<1> USE NodeCacheAssumption DEF Init
<1>1. TypeOK
  <2>1. sfsnode \in [Nodes -> SfsnodeType]
    BY Zenon DEF SfsnodeType, Zeroed
  <2>2. vnode \in [Vnodes -> VnodeType]
    BY DEF VnodeType, VnodeStates
  <2>3. /\ pc \in [Threads -> PCs] /\ key \in [Threads -> Keys \cup {NULL}]
        /\ inserted \in [Threads -> BOOLEAN] /\ tvid \in [Threads -> 0 .. MaxVid]
    BY DEF PCs
  <2>4. /\ new \in [Threads -> Nodes \cup {NULL}]
        /\ target \in [Threads -> Nodes \cup {NULL}]
        /\ tvnode \in [Threads -> Vnodes \cup {NULL}]
        /\ heap \in SUBSET Nodes /\ hash \in SUBSET Nodes /\ liveNodes \in Nat
    BY Zenon
  <2> QED BY <2>1, <2>2, <2>3, <2>4, Zenon DEF TypeOK
<1>2. UniqueIdentity /\ HeapInv
  BY Zenon DEF UniqueIdentity, HeapInv
<1>3. LiveNodesExact
  BY FS_EmptySet, Zenon DEF LiveNodesExact
<1>4. ClaimsDisjoint /\ \A t \in Threads : ThreadInv(t)
  BY Zenon DEF ClaimsDisjoint, ThreadInv, LocalsInv, ClaimInv, Claiming, CreatedInv,
         GetvidInv, HaveInv, SleepInv
<1>5. (\A n \in Nodes : NodeInv(n)) /\ (\A v \in Vnodes : VnodeInv(v))
  BY Zenon DEF NodeInv, VnodeInv
<1> QED BY <1>1, <1>2, <1>3, <1>4, <1>5, Zenon DEF IInv

\* Every step of sysfsnode_find(), of the VFS and of sysfs_vnop_reclaim()
\* keeps the invariant.
LEMMA NextInv == IInv /\ [Next]_vars => IInv'
<1> SUFFICES ASSUME IInv, [Next]_vars PROVE IInv'
  BY Zenon
<1>1. CASE UNCHANGED vars
  <2> USE <1>1 DEF vars, threadVars, tableVars
  <2>1. TypeOK' /\ UniqueIdentity' /\ LiveNodesExact' /\ HeapInv'
    BY Zenon DEF IInv, TypeOK, UniqueIdentity, LiveNodesExact, HeapInv
  <2>2. ClaimsDisjoint'
    BY Zenon DEF IInv, ClaimsDisjoint, Claiming
  <2>3. ASSUME NEW t \in Threads PROVE ThreadInv(t)'
    <3>1. ThreadInv(t)
      BY Zenon DEF IInv
    <3> QED BY <3>1, Zenon DEF ThreadInv, LocalsInv, ClaimInv, Claiming, CreatedInv,
                        GetvidInv, HaveInv, SleepInv, Linked
  <2>4. ASSUME NEW n \in Nodes PROVE NodeInv(n)'
    <3>1. NodeInv(n)
      BY Zenon DEF IInv
    <3> QED BY <3>1, Zenon DEF NodeInv, Linked, Claiming
  <2>5. ASSUME NEW v \in Vnodes PROVE VnodeInv(v)'
    <3>1. VnodeInv(v)
      BY Zenon DEF IInv
    <3> QED BY <3>1, Zenon DEF VnodeInv, Linked
  <2> QED BY <2>1, <2>2, <2>3, <2>4, <2>5, Zenon DEF IInv
<1>2. ASSUME NEW t \in Threads, NEW k \in Keys, Find(t, k) PROVE IInv'
  BY <1>2, FindInv, Zenon
<1>3. ASSUME NEW t \in Threads, FindStep(t) PROVE IInv'
  <2>1. CASE ScanMiss(t) \/ Malloc(t) \/ MallocFail(t)
    BY <2>1, ScanMissInv, MallocInv, MallocFailInv, Zenon
  <2>2. CASE ScanSleep(t) \/ ScanVnode(t) \/ ScanAttach(t)
    BY <2>2, Counting, ScanSleepInv, ScanVnodeInv, ScanAttachInv, Zenon
  <2>3. CASE GetWithVid(t) \/ GetWithVidFail(t) \/ Retry(t)
    BY <2>3, GetWithVidInv, GetWithVidFailInv, RetryInv, Zenon
  <2>4. CASE CreateVnode(t) \/ Attach(t) \/ AttachFail(t)
    BY <2>4, Counting, CreateVnodeInv, AttachInv, AttachFailInv, Zenon
  <2> QED BY <1>3, <2>1, <2>2, <2>3, <2>4, Zenon DEF FindStep
<1>4. ASSUME NEW t \in Threads, Put(t) PROVE IInv'
  BY <1>4, PutInv, Zenon
<1>5. ASSUME NEW v \in Vnodes, Recycle(v) \/ ReclaimStep(v) PROVE IInv'
  BY <1>5, Counting, RecycleInv, ReclaimInv, ReclaimDoneInv, Zenon DEF ReclaimStep
<1> QED BY <1>1, <1>2, <1>3, <1>4, <1>5, Zenon DEF Next

\* The inductive invariant holds in every reachable state of the node cache.
THEOREM Invariance == Spec => []IInv
<1>1. Init => IInv
  BY InitInv, Zenon
<1>2. IInv /\ [Next]_vars => IInv'
  BY NextInv, Zenon
<1> QED BY <1>1, <1>2, PTL DEF Spec

\* Every variable of sysfsnode_find() and of the table keeps its type.
THEOREM TypeCorrect == Spec => []TypeOK
<1>1. IInv => TypeOK
  BY Zenon DEF IInv
<1> QED BY <1>1, Invariance, PTL

\* There is only ever one node for each identity, whatever number of threads
\* race to create it.
THEOREM OneNodePerIdentity == Spec => []UniqueIdentity
<1>1. IInv => UniqueIdentity
  BY Zenon DEF IInv
<1> QED BY <1>1, Invariance, PTL

\* sysfsnode_find() only returns a live, pinned vnode of the node asked for.
THEOREM ResultPinned == Spec => []ResultIsPinned
<1>1. IInv => ResultIsPinned
  BY Zenon DEF IInv, ThreadInv, HaveInv, Linked, ResultIsPinned
<1> QED BY <1>1, Invariance, PTL

\* An entry of the table is attached or has exactly one attaching thread.
THEOREM NoAbandonedEntry == Spec => []AttachedOrClaimed
<1>1. IInv => AttachedOrClaimed
  <2> SUFFICES ASSUME IInv, NEW n \in hash
               PROVE  AttachedOrClaimed!(n)
    BY Zenon DEF AttachedOrClaimed
  <2> DEFINE claimers == {t \in Threads : /\ pc[t] \in {"create", "attach"}
                                          /\ target[t] = n}
  <2>1. \A t \in Threads : t \in claimers <=> Claiming(t) /\ target[t] = n
    BY Zenon DEF Claiming
  <2>2. NodeInv(n)
    BY Zenon DEF IInv, TypeOK
  <2>3. CASE sfsnode[n].attaching
    <3>1. PICK t \in Threads : Claiming(t) /\ target[t] = n
      BY <2>2, <2>3, Zenon DEF NodeInv
    <3>2. \A s \in Threads : Claiming(s) /\ target[s] = n => s = t
      BY <3>1, Zenon DEF IInv, ClaimsDisjoint
    <3>3. claimers = {t}
      BY <2>1, <3>1, <3>2, Zenon
    <3>4. \E s \in claimers : claimers = {s}
      BY <3>3, Zenon
    <3>5. sfsnode[n].vp = NULL
      BY <2>2, <2>3, Zenon DEF NodeInv
    <3> QED BY <2>3, <3>4, <3>5, Zenon
  <2>4. CASE ~sfsnode[n].attaching
    <3>1. Linked(n, sfsnode[n].vp)
      BY <2>2, <2>4, Zenon DEF NodeInv
    <3>2. claimers = {}
      BY <2>1, <2>4, Zenon DEF IInv, ThreadInv, ClaimInv
    <3> QED BY <2>4, <3>1, <3>2, NodeCacheAssumption, Zenon DEF Linked
  <2> QED BY <2>3, <2>4, Zenon
<1> QED BY <1>1, Invariance, PTL

\* No sfsnode_t leaks, is freed twice or is used after it is freed.
THEOREM NoLeak == Spec => []HeapAccounted
<1>1. IInv => HeapAccounted
  <2> SUFFICES ASSUME IInv PROVE HeapAccounted
    BY Zenon
  <2> DEFINE private == {t \in Threads : new[t] # NULL /\ ~inserted[t]}
  <2>1. HeapInv /\ heap \subseteq Nodes /\ hash \subseteq Nodes
        /\ \A t \in private : new[t] \in Nodes
    BY Zenon DEF IInv, TypeOK
  <2>2. heap = hash \cup {new[t] : t \in private}
    BY <2>1, NodeCacheAssumption DEF HeapInv
  <2>3. \A t \in private : new[t] \notin hash
    BY <2>1, Zenon DEF HeapInv
  <2>4. \A s, t \in private : new[s] = new[t] => s = t
    BY <2>1, Zenon DEF HeapInv
  <2> QED BY <2>2, <2>3, <2>4, Zenon DEF HeapAccounted
<1> QED BY <1>1, Invariance, PTL

\* No wakeup is lost: a sleeping thread is always waiting for an attachment
\* that is under way and knows of the sleeper.
THEOREM NoLostWakeup == Spec => []SleeperIsExpected
<1>1. IInv => SleeperIsExpected
  BY Zenon DEF IInv, ThreadInv, SleepInv, SleeperIsExpected
<1> QED BY <1>1, Invariance, PTL

\* sysfs_vnop_reclaim() frees a node that is its own and that nobody uses.
THEOREM ReclaimIsSafe == Spec => []ReclaimOwnsNode
<1>1. IInv => ReclaimOwnsNode
  <2> SUFFICES ASSUME IInv, NEW v \in Vnodes, vnode[v].state = "reclaim"
               PROVE  /\ vnode[v].fsnode \in hash
                      /\ sfsnode[vnode[v].fsnode].vp = v
                      /\ \A t \in Threads :
                            pc[t] \in {"create", "attach", "have"} =>
                              target[t] # vnode[v].fsnode
    BY Zenon DEF ReclaimOwnsNode
  <2>1. Linked(vnode[v].fsnode, v)
    BY Zenon DEF IInv, VnodeInv
  <2>2. ASSUME NEW t \in Threads, Claiming(t)
        PROVE  target[t] # vnode[v].fsnode
    BY <2>1, <2>2, Zenon DEF IInv, ThreadInv, ClaimInv, Linked
  <2>3. ASSUME NEW t \in Threads, pc[t] = "have"
        PROVE  target[t] # vnode[v].fsnode
    <3>1. Linked(target[t], tvnode[t]) /\ vnode[tvnode[t]].state = "live"
      BY <2>3, Zenon DEF IInv, ThreadInv, HaveInv
    <3> QED BY <2>1, <3>1, Zenon DEF Linked
  <2> QED BY <2>1, <2>2, <2>3, Zenon DEF Linked, Claiming
<1> QED BY <1>1, Invariance, PTL

\* The live_nodes counter is exact.
THEOREM CounterExact == Spec => []LiveNodesExact
<1>1. IInv => LiveNodesExact
  BY Zenon DEF IInv
<1> QED BY <1>1, Invariance, PTL

\* File system references are added and removed in pairs.
THEOREM FsrefsPaired == Spec => []FsrefPaired
<1>1. IInv => FsrefPaired
  BY Zenon DEF IInv, ThreadInv, CreatedInv, VnodeInv, Linked, FsrefPaired
<1> QED BY <1>1, Invariance, PTL

-----------------------------------------------------------------------------
(* The refinement of VnodeTable.                                           *)

\* A vnode of this file system belongs to an entry of the table.
LEMMA BoundEntry ==
  ASSUME IInv, NEW v \in Vnodes, vnode[v].state \in {"live", "reclaim"}
  PROVE  /\ vnode[v].fsnode \in hash /\ vnode[v].fsnode \in Nodes
         /\ sfsnode[vnode[v].fsnode].key \in Keys
         /\ \/ Linked(vnode[v].fsnode, v)
            \/ \E t \in Threads : /\ pc[t] = "attach" /\ tvnode[t] = v
                                  /\ target[t] = vnode[v].fsnode
<1>1. \/ Linked(vnode[v].fsnode, v)
      \/ \E t \in Threads : /\ pc[t] = "attach" /\ tvnode[t] = v
                            /\ target[t] = vnode[v].fsnode
  BY DEF IInv, VnodeInv, ThreadInv, CreatedInv
<1>2. vnode[v].fsnode \in hash
  BY <1>1, Zenon DEF Linked, IInv, ThreadInv, ClaimInv, Claiming
<1>3. vnode[v].fsnode \in Nodes
  BY <1>2, Zenon DEF IInv, TypeOK
<1> QED BY <1>1, <1>2, <1>3, Zenon DEF IInv, NodeInv

\* No two vnodes belong to one entry.
LEMMA EntryOfOne ==
  ASSUME IInv, NEW v \in Vnodes, NEW w \in Vnodes,
         vnode[v].state \in {"live", "reclaim"},
         vnode[w].state \in {"live", "reclaim"},
         vnode[v].fsnode = vnode[w].fsnode
  PROVE  v = w
<1> DEFINE n == vnode[v].fsnode
<1>1. \/ Linked(n, v)
      \/ \E t \in Threads : pc[t] = "attach" /\ tvnode[t] = v /\ target[t] = n
  BY BoundEntry, Zenon
<1>2. \/ Linked(n, w)
      \/ \E t \in Threads : pc[t] = "attach" /\ tvnode[t] = w /\ target[t] = n
  BY BoundEntry
<1> HIDE DEF n
<1>3. CASE Linked(n, v) \/ Linked(n, w)
  BY <1>1, <1>2, <1>3 DEF Linked, IInv, ThreadInv, ClaimInv, Claiming
<1>4. ASSUME NEW s \in Threads, pc[s] = "attach", tvnode[s] = v, target[s] = n,
             NEW t \in Threads, pc[t] = "attach", tvnode[t] = w, target[t] = n
      PROVE  v = w
  BY <1>4, Zenon DEF IInv, ClaimsDisjoint, Claiming
<1> QED BY <1>1, <1>2, <1>3, <1>4, Zenon

\* What the mapping takes from a state: an identity is bound to the one vnode
\* of its entry, and what a thread holds is bound to the identity it asked for.
MapFacts ==
    /\ BindingMap \in [Keys -> Vnodes \cup {NULL}]
    /\ \A k \in Keys, v \in Vnodes : BindingMap[k] = v <=> v \in BoundTo(k)
    /\ HoldsMap \in [Threads -> Vnodes \cup {NULL}]
    /\ \A t \in Threads : HoldsMap[t] # NULL => /\ key[t] \in Keys
                                                /\ HoldsMap[t] = BindingMap[key[t]]

LEMMA Mapping == IInv => MapFacts
<1> SUFFICES ASSUME IInv PROVE MapFacts
  BY Zenon
<1>1. ASSUME NEW k \in Keys, NEW v \in BoundTo(k), NEW w \in BoundTo(k)
      PROVE  v = w
  <2>1. /\ v \in Vnodes /\ w \in Vnodes
        /\ vnode[v].state \in {"live", "reclaim"}
        /\ vnode[w].state \in {"live", "reclaim"}
        /\ sfsnode[vnode[v].fsnode].key = sfsnode[vnode[w].fsnode].key
    BY Zenon DEF BoundTo
  <2>2. vnode[v].fsnode \in hash /\ vnode[w].fsnode \in hash
    BY <2>1, BoundEntry, Zenon
  <2>3. vnode[v].fsnode = vnode[w].fsnode
    BY <2>1, <2>2, Zenon DEF IInv, UniqueIdentity
  <2> QED BY <2>1, <2>3, EntryOfOne, Zenon
<1>2. \A k \in Keys : BoundTo(k) \subseteq Vnodes
  BY Zenon DEF BoundTo
<1>3. ASSUME NEW k \in Keys
      PROVE  /\ BindingMap[k] \in Vnodes \cup {NULL}
             /\ \A v \in Vnodes : BindingMap[k] = v <=> v \in BoundTo(k)
  <2>1. CASE BoundTo(k) = {}
    BY <2>1, NodeCacheAssumption, Zenon DEF BindingMap
  <2>2. CASE BoundTo(k) # {}
    <3>1. BindingMap[k] \in BoundTo(k)
      BY <2>2, Zenon DEF BindingMap
    <3> QED BY <1>1, <1>2, <3>1, Zenon
  <2> QED BY <2>1, <2>2, Zenon
<1>4. BindingMap \in [Keys -> Vnodes \cup {NULL}]
  BY <1>3, Zenon DEF BindingMap
<1>5. HoldsMap \in [Threads -> Vnodes \cup {NULL}]
  BY Zenon DEF HoldsMap, IInv, TypeOK
<1>6. ASSUME NEW t \in Threads, HoldsMap[t] # NULL
      PROVE  key[t] \in Keys /\ HoldsMap[t] = BindingMap[key[t]]
  <2>1. pc[t] \in {"attach", "have"} /\ HoldsMap[t] = tvnode[t]
    BY <1>6, Zenon DEF HoldsMap
  <2>2. ThreadInv(t)
    BY Zenon DEF IInv
  <2>3. key[t] \in Keys
    BY <2>1, <2>2, Zenon DEF ThreadInv, LocalsInv
  <2>4. tvnode[t] \in BoundTo(key[t])
    BY <2>1, <2>2, Zenon
       DEF ThreadInv, ClaimInv, CreatedInv, HaveInv, Claiming, Linked, BoundTo
  <2> QED BY <1>2, <1>3, <2>1, <2>3, <2>4, Zenon
<1> QED BY <1>3, <1>4, <1>5, <1>6, Zenon DEF MapFacts

LEMMA MappingNext == IInv' => MapFacts'
  BY Mapping, PTL

\* A step that binds no vnode and frees none is none of the table.
LEMMA SameBinding ==
  ASSUME IInv, IInv',
         \A k \in Keys, v \in Vnodes : v \in BoundTo(k)' <=> v \in BoundTo(k)
  PROVE  UNCHANGED BindingMap
<1>1. MapFacts /\ MapFacts'
  BY Mapping, MappingNext, Zenon
<1>2. ASSUME NEW k \in Keys PROVE BindingMap'[k] = BindingMap[k]
  BY <1>1, NodeCacheAssumption DEF MapFacts
<1> QED BY <1>1, <1>2 DEF MapFacts

LEMMA SameHolds ==
  ASSUME \A t \in Threads :
           /\ pc'[t] \in {"attach", "have"} <=> pc[t] \in {"attach", "have"}
           /\ pc[t] \in {"attach", "have"} => tvnode'[t] = tvnode[t]
  PROVE  UNCHANGED HoldsMap
  BY Zenon DEF HoldsMap

\* Vnodes stay bound to the same identities if they keep their state, but for
\* the choice for recycling, and their entry its key.
LEMMA SameBound ==
  ASSUME IInv, IInv',
         \A v \in Vnodes :
            /\ vnode'[v].state \in {"live", "reclaim"} <=>
                  vnode[v].state \in {"live", "reclaim"}
            /\ vnode[v].state \in {"live", "reclaim"} =>
                  vnode'[v].fsnode = vnode[v].fsnode,
         \A v \in Vnodes : vnode[v].state \in {"live", "reclaim"} =>
            sfsnode'[vnode[v].fsnode].key = sfsnode[vnode[v].fsnode].key
  PROVE  UNCHANGED BindingMap
<1>1. \A k \in Keys, v \in Vnodes : v \in BoundTo(k)' <=> v \in BoundTo(k)
  BY Zenon DEF BoundTo
<1> QED BY <1>1, SameBinding, Zenon

\* What a step of the table leaves to show: one binding changes at most.
LEMMA NewBinding ==
  ASSUME IInv, IInv', NEW j \in Keys, NEW w \in Vnodes \cup {NULL},
         \A k \in Keys, v \in Vnodes :
            v \in BoundTo(k)' <=> IF k = j THEN v = w ELSE v \in BoundTo(k)
  PROVE  BindingMap' = [BindingMap EXCEPT ![j] = w]
<1>1. MapFacts /\ MapFacts'
  BY Mapping, MappingNext, Zenon
<1>2. BindingMap'[j] = w
  BY <1>1, NodeCacheAssumption DEF MapFacts
<1>3. ASSUME NEW k \in Keys, k # j PROVE BindingMap'[k] = BindingMap[k]
  BY <1>1, <1>3, NodeCacheAssumption DEF MapFacts
<1> QED BY <1>1, <1>2, <1>3, Zenon DEF MapFacts

\* And what one thread holds changes at most.
LEMMA NewHolds ==
  ASSUME IInv, IInv', NEW t \in Threads,
         \A s \in Threads \ {t} :
           /\ pc'[s] \in {"attach", "have"} <=> pc[s] \in {"attach", "have"}
           /\ pc[s] \in {"attach", "have"} => tvnode'[s] = tvnode[s]
  PROVE  HoldsMap' = [HoldsMap EXCEPT ![t] = IF pc'[t] \in {"attach", "have"}
                                             THEN tvnode'[t] ELSE NULL]
<1>1. ASSUME NEW s \in Threads, s # t PROVE HoldsMap'[s] = HoldsMap[s]
  BY <1>1, Zenon DEF HoldsMap
<1>2. HoldsMap'[t] = IF pc'[t] \in {"attach", "have"} THEN tvnode'[t] ELSE NULL
  BY Zenon DEF HoldsMap
<1>3. MapFacts /\ MapFacts'
  BY Mapping, MappingNext, Zenon
<1> QED BY <1>1, <1>2, <1>3 DEF MapFacts

\* The entry that a thread is about to make a vnode for has none.
LEMMA NoVnodeYet ==
  ASSUME IInv, NEW t \in Threads, pc[t] = "create",
         NEW v \in Vnodes, vnode[v].state \in {"live", "reclaim"}
  PROVE  /\ vnode[v].fsnode # target[t]
         /\ sfsnode[vnode[v].fsnode].key # key[t]
<1>1. /\ target[t] \in hash /\ sfsnode[target[t]].attaching
      /\ sfsnode[target[t]].key = key[t]
  BY Zenon DEF IInv, ThreadInv, ClaimInv, Claiming
<1>2. vnode[v].fsnode # target[t]
  <2>1. ~Linked(target[t], v)
    BY <1>1, Zenon DEF Linked
  <2>2. ASSUME NEW s \in Threads, pc[s] = "attach" PROVE target[s] # target[t]
    BY <2>2, Zenon DEF IInv, ClaimsDisjoint, Claiming
  <2> QED BY <2>1, <2>2, BoundEntry
<1>3. vnode[v].fsnode \in hash
  BY BoundEntry, Zenon
<1> QED BY <1>1, <1>2, <1>3, Zenon DEF IInv, UniqueIdentity

\* The steps inside sysfsnode_find() and sysfs_vnop_reclaim() that callers
\* cannot see.
LEMMA InnerStutter ==
  ASSUME IInv, IInv', NEW t \in Threads,
         \/ \E k \in Keys : Find(t, k)
         \/ ScanMiss(t) \/ Malloc(t) \/ MallocFail(t)
         \/ ScanSleep(t) \/ ScanVnode(t)
         \/ GetWithVidFail(t) \/ Retry(t)
  PROVE  UNCHANGED Table!tableState
<1>1. /\ UNCHANGED vnode
      /\ \A n \in Nodes : sfsnode'[n].key = sfsnode[n].key
      /\ pc[t] \notin {"attach", "have"} /\ pc'[t] \notin {"attach", "have"}
      /\ \A s \in Threads \ {t} : pc'[s] = pc[s] /\ tvnode'[s] = tvnode[s]
  <2>1. CASE \/ \E k \in Keys : Find(t, k)
             \/ ScanMiss(t) \/ Malloc(t) \/ MallocFail(t)
    BY <2>1 DEF Find, ScanMiss, Malloc, MallocFail, Forget, tableVars, IInv, TypeOK
  <2>2. CASE ScanSleep(t)
    BY <2>2 DEF ScanSleep, IInv, TypeOK, SfsnodeType
  <2>3. CASE ScanVnode(t) \/ GetWithVidFail(t) \/ Retry(t)
    <3>1. CASE ScanVnode(t)
      BY <3>1, Zenon DEF ScanVnode, tableVars, IInv, TypeOK
    <3>2. CASE GetWithVidFail(t) \/ Retry(t)
      BY <3>2 DEF GetWithVidFail, Retry, tableVars, IInv, TypeOK
    <3> QED BY <2>3, <3>1, <3>2, Zenon
  <2> QED BY <2>1, <2>2, <2>3, Zenon
<1>2. UNCHANGED BindingMap
  BY <1>1, BoundEntry, SameBound, Zenon
<1>3. UNCHANGED HoldsMap
  BY <1>1, SameHolds, Zenon
<1> QED BY <1>2, <1>3, Zenon DEF Table!tableState

LEMMA ScanAttachStutter ==
  ASSUME IInv, IInv', NEW t \in Threads, ScanAttach(t)
  PROVE  UNCHANGED Table!tableState
<1>1. PICK n \in Nodes :
        /\ IsTarget(t, n) /\ ~Contents(t, n).attaching
        /\ Contents(t, n).vp = NULL
        /\ sfsnode' = [sfsnode EXCEPT
                         ![n] = [key |-> key[t], attaching |-> TRUE,
                                 waiting |-> Contents(t, n).waiting,
                                 vp |-> NULL]]
        /\ target' = [target EXCEPT ![t] = n]
        /\ hash' = hash \cup {n}
        /\ liveNodes' = IF n \in Matches(t) THEN liveNodes ELSE liveNodes + 1
        /\ inserted' = [inserted EXCEPT ![t] = @ \/ n \notin Matches(t)]
  BY ZenonT(60) DEF ScanAttach
<1>2. ASSUME NEW m \in hash PROVE sfsnode'[m].key = sfsnode[m].key
  <2>1. m \in Nodes /\ sfsnode \in [Nodes -> SfsnodeType]
    BY Zenon DEF IInv, TypeOK
  <2>2. CASE m # n
    BY <1>1, <2>1, <2>2, Zenon
  <2>3. CASE m = n
    <3>1. sfsnode[n].key = key[t]
      <4>1. n \in Matches(t) \/ n = new[t]
        BY <1>1, Zenon DEF IsTarget
      <4>2. pc[t] = "lock" /\ LocalsInv(t) /\ HeapInv
        BY Zenon DEF ScanAttach, IInv, ThreadInv
      <4>3. new[t] \notin hash
        BY <4>2, Zenon DEF LocalsInv, HeapInv
      <4> QED BY <2>3, <4>1, <4>3, Zenon DEF Matches
    <3> QED BY <1>1, <2>1, <2>3, <3>1, Zenon
  <2> QED BY <2>2, <2>3, Zenon
<1>3. /\ UNCHANGED vnode /\ UNCHANGED tvnode
      /\ pc[t] \notin {"attach", "have"} /\ pc'[t] \notin {"attach", "have"}
      /\ \A s \in Threads \ {t} : pc'[s] = pc[s]
  BY Zenon DEF ScanAttach, IInv, TypeOK
<1>4. UNCHANGED BindingMap
  BY <1>2, <1>3, BoundEntry, SameBound, Zenon
<1>5. UNCHANGED HoldsMap
  BY <1>3, SameHolds, Zenon
<1> QED BY <1>4, <1>5, Zenon DEF Table!tableState

\* The end of an attachment: callers have had the vnode since its creation.
LEMMA AttachStutter ==
  ASSUME IInv, IInv', NEW t \in Threads, Attach(t)
  PROVE  UNCHANGED Table!tableState
<1>1. /\ \A n \in Nodes : sfsnode'[n].key = sfsnode[n].key
      /\ \A v \in Vnodes : /\ vnode'[v].state = vnode[v].state
                           /\ vnode'[v].fsnode = vnode[v].fsnode
  <2>1. target[t] \in Nodes /\ tvnode[t] \in Vnodes
    BY Zenon DEF Attach, IInv, TypeOK, ThreadInv, ClaimInv, CreatedInv, Claiming
  <2> QED BY <2>1 DEF Attach, IInv, TypeOK, SfsnodeType, VnodeType
<1>2. /\ pc[t] = "attach" /\ pc'[t] = "have" /\ UNCHANGED tvnode
      /\ \A s \in Threads \ {t} :
            pc'[s] = pc[s] \/ (pc[s] = "sleep" /\ pc'[s] = "lock")
  BY Zenon DEF Attach, EndAttaching, Woken, IInv, TypeOK
<1>3. UNCHANGED BindingMap
  BY <1>1, BoundEntry, SameBound, Zenon
<1>4. UNCHANGED HoldsMap
  BY <1>2, SameHolds, Zenon
<1> QED BY <1>3, <1>4 DEF Table!tableState

\* Its failure: the entry that is freed had no vnode.
LEMMA AttachFailStutter ==
  ASSUME IInv, IInv', NEW t \in Threads, AttachFail(t)
  PROVE  UNCHANGED Table!tableState
<1>1. pc[t] = "create" /\ UNCHANGED vnode
  BY Zenon DEF AttachFail
<1>2. \A n \in Nodes : n # target[t] => sfsnode'[n].key = sfsnode[n].key
  BY Zenon DEF AttachFail, FreeNode, IInv, TypeOK
<1>3. /\ pc'[t] = "idle"
      /\ \A s \in Threads \ {t} :
            /\ tvnode'[s] = tvnode[s]
            /\ pc'[s] = pc[s] \/ (pc[s] = "sleep" /\ pc'[s] = "lock")
  BY Zenon DEF AttachFail, EndAttaching, Woken, Forget, IInv, TypeOK
<1>4. UNCHANGED BindingMap
  BY <1>1, <1>2, NoVnodeYet, BoundEntry, SameBound
<1>5. UNCHANGED HoldsMap
  BY <1>1, <1>3, SameHolds, Zenon
<1> QED BY <1>4, <1>5, Zenon DEF Table!tableState

\* vnode_create() is the moment at which an identity gets a vnode.
LEMMA CreateVnodeStep ==
  ASSUME IInv, IInv', NEW t \in Threads, CreateVnode(t)
  PROVE  Table!Next
<1>1. PICK v \in Vnodes :
        /\ vnode[v].state = "free"
        /\ vnode' = [vnode EXCEPT
                       ![v] = [state |-> "live", vid |-> @.vid,
                               fsnode |-> target[t], iocount |-> {t},
                               fsref |-> @.fsref]]
        /\ tvnode' = [tvnode EXCEPT ![t] = v]
  BY ZenonT(60) DEF CreateVnode
<1>2. /\ pc[t] = "create" /\ pc'[t] = "attach" /\ tvnode'[t] = v
      /\ \A s \in Threads \ {t} : pc'[s] = pc[s] /\ tvnode'[s] = tvnode[s]
      /\ UNCHANGED sfsnode
  BY <1>1, Zenon DEF CreateVnode, tableVars, IInv, TypeOK
<1>3. /\ vnode'[v].state = "live" /\ vnode'[v].fsnode = target[t]
      /\ \A w \in Vnodes \ {v} : vnode'[w] = vnode[w]
  BY <1>1, Zenon DEF IInv, TypeOK
<1>4. key[t] \in Keys /\ sfsnode[target[t]].key = key[t]
  BY <1>2, Zenon DEF IInv, ThreadInv, LocalsInv, ClaimInv, Claiming
<1>5. MapFacts
  BY Mapping, Zenon
<1>6. HoldsMap[t] = NULL
  BY <1>2, Zenon DEF HoldsMap
<1>7. \A w \in Vnodes : w \notin BoundTo(key[t])
  BY <1>2, NoVnodeYet, Zenon DEF BoundTo
<1>8. BindingMap[key[t]] = NULL
  BY <1>4, <1>5, <1>7 DEF MapFacts
<1>9. \A k \in Keys : BindingMap[k] # v
  BY <1>1, <1>5, Zenon DEF MapFacts, BoundTo
<1>10. BindingMap' = [BindingMap EXCEPT ![key[t]] = v]
  <2>1. \A k \in Keys, w \in Vnodes :
          w \in BoundTo(k)' <=> IF k = key[t] THEN w = v ELSE w \in BoundTo(k)
    BY <1>1, <1>2, <1>3, <1>4, <1>7 DEF BoundTo
  <2> QED BY <1>4, <2>1, NewBinding, Zenon
<1>11. HoldsMap' = [HoldsMap EXCEPT ![t] = v]
  BY <1>2, NewHolds, Zenon
<1>12. Table!Create(t, key[t], v)
  BY <1>6, <1>8, <1>9, <1>10, <1>11, Zenon DEF Table!Create
<1> QED BY <1>4, <1>12, Zenon DEF Table!Next

\* vnode_getwithvid() returns the vnode that the identity has at that moment.
LEMMA GetWithVidStep ==
  ASSUME IInv, IInv', NEW t \in Threads, GetWithVid(t)
  PROVE  Table!Next
<1>1. /\ pc[t] = "getvid" /\ vnode[tvnode[t]].state = "live"
      /\ vnode[tvnode[t]].vid = tvid[t]
      /\ UNCHANGED sfsnode /\ UNCHANGED tvnode
  BY Zenon DEF GetWithVid
<1>2. /\ pc'[t] = "have" /\ \A s \in Threads \ {t} : pc'[s] = pc[s]
      /\ \A v \in Vnodes : /\ vnode'[v].state = vnode[v].state
                           /\ vnode'[v].fsnode = vnode[v].fsnode
  BY DEF GetWithVid, IInv, TypeOK, VnodeType
<1>3. /\ key[t] \in Keys
      /\ Linked(target[t], tvnode[t]) /\ sfsnode[target[t]].key = key[t]
  BY <1>1, Zenon DEF IInv, ThreadInv, LocalsInv, GetvidInv
<1>4. BindingMap[key[t]] = tvnode[t] /\ tvnode[t] \in Vnodes
  <2>1. tvnode[t] \in BoundTo(key[t]) /\ tvnode[t] \in Vnodes
    BY <1>3, Zenon DEF Linked, BoundTo
  <2> QED BY <1>3, <2>1, Mapping, Zenon DEF MapFacts
<1>5. UNCHANGED BindingMap
  BY <1>1, <1>2, SameBound, Zenon
<1>6. HoldsMap[t] = NULL
  BY <1>1, Zenon DEF HoldsMap
<1>7. HoldsMap' = [HoldsMap EXCEPT ![t] = tvnode[t]]
  BY <1>1, <1>2, NewHolds, Zenon
<1>8. Table!Get(t, key[t])
  BY <1>4, <1>5, <1>6, <1>7, NodeCacheAssumption, Zenon DEF Table!Get
<1> QED BY <1>3, <1>8, Zenon DEF Table!Next

\* vnode_put().
LEMMA PutStep ==
  ASSUME IInv, IInv', NEW t \in Threads, Put(t)
  PROVE  Table!Next
<1>1. pc[t] = "have" /\ UNCHANGED sfsnode
  BY Zenon DEF Put, tableVars
<1>2. /\ pc'[t] = "idle"
      /\ \A s \in Threads \ {t} : pc'[s] = pc[s] /\ tvnode'[s] = tvnode[s]
      /\ \A v \in Vnodes : /\ vnode'[v].state = vnode[v].state
                           /\ vnode'[v].fsnode = vnode[v].fsnode
  BY DEF Put, Forget, IInv, TypeOK, VnodeType
<1>3. HoldsMap[t] # NULL
  <2>1. tvnode[t] \in Vnodes
    BY <1>1, Zenon DEF IInv, ThreadInv, HaveInv, Linked
  <2> QED BY <1>1, <2>1, NodeCacheAssumption, Zenon DEF HoldsMap
<1>4. UNCHANGED BindingMap
  BY <1>1, <1>2, SameBound, Zenon
<1>5. HoldsMap' = [HoldsMap EXCEPT ![t] = NULL]
  BY <1>2, NewHolds, Zenon
<1>6. Table!Put(t)
  BY <1>3, <1>4, <1>5, Zenon DEF Table!Put
<1> QED BY <1>6, Zenon DEF Table!Next

\* Freeing the sfsnode_t is the moment at which the identity loses its vnode,
\* and nobody holds it then.
LEMMA ReclaimEvicts ==
  ASSUME IInv, IInv', NEW v \in Vnodes, Reclaim(v)
  PROVE  Table!Next
<1> DEFINE n == vnode[v].fsnode
           k == sfsnode[n].key
<1>1. vnode[v].state = "reclaim" /\ UNCHANGED threadVars
  BY Zenon DEF Reclaim
<1>2. n \in Nodes /\ n # NULL /\ k \in Keys
  BY <1>1, BoundEntry, NodeCacheAssumption, Zenon
<1>3. /\ vnode'[v].state = "reclaimed"
      /\ \A w \in Vnodes \ {v} : vnode'[w] = vnode[w]
      /\ \A m \in Nodes \ {n} : sfsnode'[m] = sfsnode[m]
  BY <1>2, Zenon DEF Reclaim, FreeNode, IInv, TypeOK, VnodeType
<1>4. \A w \in Vnodes \ {v} :
        vnode[w].state \in {"live", "reclaim"} => vnode[w].fsnode \in Nodes \ {n}
  BY <1>1, BoundEntry, EntryOfOne, Zenon
<1>5. v \in BoundTo(k)
  BY <1>1, Zenon DEF BoundTo
<1>6. BindingMap[k] = v
  BY <1>2, <1>5, Mapping, Zenon DEF MapFacts
<1>7. ASSUME NEW t \in Threads PROVE HoldsMap[t] # v
  <2>1. pc[t] \in {"attach", "have"} => vnode[tvnode[t]].state = "live"
    BY Zenon DEF IInv, ThreadInv, CreatedInv, HaveInv
  <2> QED BY <1>1, <2>1, NodeCacheAssumption, Zenon DEF HoldsMap
<1>8. BindingMap' = [BindingMap EXCEPT ![k] = NULL]
  <2>1. \A j \in Keys, w \in Vnodes :
          w \in BoundTo(j)' <=> w # v /\ w \in BoundTo(j)
    BY <1>3, <1>4 DEF BoundTo
  <2>2. \A j \in Keys, w \in Vnodes : w \in BoundTo(j) => w # v \/ j = k
    BY Zenon DEF BoundTo
  <2>3. \A w \in Vnodes : w \in BoundTo(k) => w = v
    BY <1>2, <1>6, Mapping DEF MapFacts
  <2> HIDE DEF k, n
  <2>4. \A j \in Keys, w \in Vnodes :
          w \in BoundTo(j)' <=> IF j = k THEN w = NULL ELSE w \in BoundTo(j)
    BY <2>1, <2>2, <2>3, NodeCacheAssumption, Zenon
  <2> QED BY <1>2, <2>4, NewBinding, Zenon
<1>9. UNCHANGED HoldsMap
  BY <1>1, Zenon DEF threadVars, HoldsMap
<1> HIDE DEF k, n
<1>10. Table!Evict(k)
  BY <1>6, <1>7, <1>8, <1>9, NodeCacheAssumption, Zenon DEF Table!Evict
<1> QED BY <1>2, <1>10, Zenon DEF Table!Next

\* The choice of a vnode to recycle, and what sysfs_vnop_reclaim() does after it
\* has freed the sfsnode_t.
LEMMA VfsStutter ==
  ASSUME IInv, IInv', NEW v \in Vnodes, Recycle(v) \/ ReclaimDone(v)
  PROVE  UNCHANGED Table!tableState
<1>1. UNCHANGED threadVars /\ UNCHANGED sfsnode
  BY Zenon DEF Recycle, ReclaimDone, tableVars
<1>2. \A w \in Vnodes :
        /\ vnode'[w].state \in {"live", "reclaim"} <=>
              vnode[w].state \in {"live", "reclaim"}
        /\ vnode[w].state \in {"live", "reclaim"} =>
              vnode'[w].fsnode = vnode[w].fsnode
  BY DEF Recycle, ReclaimDone, IInv, TypeOK, VnodeType
<1>3. UNCHANGED BindingMap
  BY <1>1, <1>2, SameBound, Zenon
<1>4. UNCHANGED HoldsMap
  BY <1>1, Zenon DEF threadVars, HoldsMap
<1> QED BY <1>3, <1>4, Zenon DEF Table!tableState

\* Every step of the cache is a step of the table, or none.
LEMMA StepRefines ==
  ASSUME IInv, IInv', [Next]_vars
  PROVE  [Table!Next]_(Table!tableState)
<1>1. CASE UNCHANGED vars
  <2>1. UNCHANGED BindingMap
    BY <1>1, SameBound, Zenon DEF vars, tableVars
  <2>2. UNCHANGED HoldsMap
    BY <1>1, Zenon DEF vars, threadVars, HoldsMap
  <2> QED BY <2>1, <2>2, Zenon DEF Table!tableState
<1>2. ASSUME NEW t \in Threads, (\E k \in Keys : Find(t, k)) \/ FindStep(t)
      PROVE  [Table!Next]_(Table!tableState)
  BY <1>2, InnerStutter, ScanAttachStutter, AttachStutter, AttachFailStutter,
     CreateVnodeStep, GetWithVidStep, Zenon DEF FindStep
<1>3. ASSUME NEW t \in Threads, Put(t) PROVE [Table!Next]_(Table!tableState)
  BY <1>3, PutStep, Zenon
<1>4. ASSUME NEW v \in Vnodes, Recycle(v) \/ ReclaimStep(v)
      PROVE  [Table!Next]_(Table!tableState)
  BY <1>4, VfsStutter, ReclaimEvicts, Zenon DEF ReclaimStep
<1> QED BY <1>1, <1>2, <1>3, <1>4, Zenon DEF Next

\* sysfsnode_find() and sysfs_vnop_reclaim(), in all their interleavings, are
\* atomic lookups and evictions of a table from identities to vnodes.
THEOREM Refinement == Spec => ImplementsVnodeTable
<1>1. Init => Table!Init
  <2> SUFFICES ASSUME Init PROVE Table!Init
    BY Zenon
  <2>1. \A k \in Keys : BoundTo(k) = {}
    BY Zenon DEF Init, BoundTo
  <2>2. BindingMap = [k \in Keys |-> NULL]
    BY <2>1, Zenon DEF BindingMap
  <2>3. HoldsMap = [t \in Threads |-> NULL]
    BY Zenon DEF Init, HoldsMap
  <2> QED BY <2>2, <2>3, Zenon DEF Table!Init
<1>2. IInv /\ IInv' /\ [Next]_vars => [Table!Next]_(Table!tableState)
  BY StepRefines, Zenon
<1> QED BY <1>1, <1>2, Invariance, PTL DEF Spec, ImplementsVnodeTable, Table!Spec

\* No call of sysfsnode_find() returns the vnode of another identity than the
\* one it was asked for.
THEOREM CallerGetsItsOwn == Spec => GetsWhatItAskedFor
<1> DEFINE Gets == \A t \in Threads :
                     HoldsMap[t] = NULL /\ HoldsMap'[t] # NULL =>
                         HoldsMap'[t] = BindingMap'[key[t]]
<1>1. ASSUME IInv, IInv', [Next]_vars PROVE Gets \/ UNCHANGED vars
  <2> SUFFICES ASSUME ~UNCHANGED vars, NEW t \in Threads,
                      HoldsMap[t] = NULL, HoldsMap'[t] # NULL
               PROVE  HoldsMap'[t] = BindingMap'[key[t]]
    BY Zenon
  <2>1. HoldsMap'[t] = BindingMap'[key'[t]]
    BY <1>1, MappingNext, Zenon DEF MapFacts
  <2>2. pc'[t] \in {"attach", "have"}
    BY Zenon DEF HoldsMap
  <2>3. ASSUME key'[t] # key[t] PROVE FALSE
    <3>1. ASSUME NEW s \in Threads, NEW k \in Keys, Find(s, k) PROVE FALSE
      BY <1>1, <2>2, <2>3, <3>1, Zenon DEF Find, IInv, TypeOK
    <3>2. ASSUME NEW s \in Threads, FindStep(s) \/ Put(s) PROVE FALSE
      <4>1. CASE MallocFail(s) \/ AttachFail(s) \/ Put(s)
        BY <1>1, <2>2, <2>3, <4>1, Zenon
           DEF MallocFail, AttachFail, EndAttaching, Put, Forget, IInv, TypeOK
      <4> QED BY <2>3, <3>2, <4>1, Zenon
                 DEF FindStep, ScanMiss, Malloc, ScanSleep, ScanVnode, ScanAttach,
                     GetWithVid, GetWithVidFail, Retry, CreateVnode, Attach
    <3>3. ASSUME NEW v \in Vnodes, Recycle(v) \/ ReclaimStep(v) PROVE FALSE
      BY <2>3, <3>3, Zenon DEF Recycle, ReclaimStep, Reclaim, ReclaimDone, threadVars
    <3> QED BY <1>1, <3>1, <3>2, <3>3, Zenon DEF Next
  <2> QED BY <2>1, <2>3, Zenon
<1>2. Spec => [][Gets]_vars
  BY <1>1, Invariance, PTL DEF Spec
<1> QED BY <1>2, Zenon DEF GetsWhatItAskedFor
=============================================================================

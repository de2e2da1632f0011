---------------------------- MODULE NodeCacheSteps ---------------------------
(***************************************************************************)
(* Proofs about the sfsnode cache, part 1: what a step leaves alone, and   *)
(* the steps of sysfsnode_find().  Each lemma shows that one step keeps    *)
(* the inductive invariant IInv of NodeCache.                              *)
(***************************************************************************)
EXTENDS NodeCache, Integers, TLAPS

-----------------------------------------------------------------------------
(* What a step leaves alone.                                               *)

\* The step does not change t's local variables.
SameThread(t) ==
    /\ pc'[t] = pc[t] /\ key'[t] = key[t] /\ new'[t] = new[t]
    /\ inserted'[t] = inserted[t] /\ target'[t] = target[t]
    /\ tvnode'[t] = tvnode[t] /\ tvid'[t] = tvid[t]

\* If n is in the table, it stays there and the step changes nothing of it,
\* except that it may mark it as waited for.
SameNode(n) ==
    n \in hash =>
        /\ n \in hash' /\ sfsnode'[n].key = sfsnode[n].key
        /\ sfsnode'[n].attaching <=> sfsnode[n].attaching
        /\ sfsnode'[n].vp = sfsnode[n].vp
        /\ sfsnode[n].waiting => sfsnode'[n].waiting

\* The step changes at most the iocounts of v, and keeps those in S.
SameVnode(v, S) ==
    /\ vnode'[v].state = vnode[v].state /\ vnode'[v].vid = vnode[v].vid
    /\ vnode'[v].fsnode = vnode[v].fsnode
    /\ vnode[v].fsref <=> vnode'[v].fsref
    /\ \A s \in S : s \in vnode[v].iocount => s \in vnode'[v].iocount

\* A link between a node and a vnode that the step does not touch survives.
LEMMA LinkedFrame ==
  ASSUME NEW n, NEW v, Linked(n, v), SameNode(n), SameVnode(v, {})
  PROVE  Linked(n, v)'
BY Zenon DEF Linked, SameNode, SameVnode

\* So does everything a thread relies on, when neither the thread nor its
\* entry nor its vnode is touched.
LEMMA ThreadFrame ==
  ASSUME NEW t \in Threads, ThreadInv(t), SameThread(t), SameNode(target[t]),
         tvnode[t] \in Vnodes => SameVnode(tvnode[t], {t})
  PROVE  ThreadInv(t)'
<1>1. LocalsInv(t)'
  BY Zenon DEF ThreadInv, LocalsInv, SameThread
<1>2. ClaimInv(t)'
  BY Zenon DEF ThreadInv, ClaimInv, Claiming, SameThread, SameNode
<1>3. CreatedInv(t)'
  BY Zenon DEF ThreadInv, CreatedInv, SameThread, SameVnode
<1>4. GetvidInv(t)'
  BY DEF ThreadInv, GetvidInv, Linked, SameThread, SameNode, SameVnode
<1>5. HaveInv(t)'
  BY Zenon DEF ThreadInv, HaveInv, Linked, SameThread, SameNode, SameVnode
<1>6. SleepInv(t)'
  BY Zenon DEF ThreadInv, SleepInv, SameThread, SameNode
<1> QED BY <1>1, <1>2, <1>3, <1>4, <1>5, <1>6, Zenon DEF ThreadInv

\* What a thread remembers of an entry when it calls vnode_getwithvid()
\* survives if vids only grow, and a link is only broken by a reclaim.
LEMMA GetvidFrame ==
  ASSUME NEW t \in Threads, GetvidInv(t), SameThread(t), TypeOK,
         \A v \in Vnodes :
            /\ vnode'[v].vid \in Int /\ vnode[v].vid <= vnode'[v].vid
            /\ vnode'[v].vid = vnode[v].vid /\ vnode[v].state = "reclaimed"
                  => vnode'[v].state = "reclaimed",
         \A n, v : Linked(n, v) => \/ vnode'[v].state = "reclaimed"
                                   \/ Linked(n, v)' /\ SameNode(n)
  PROVE  GetvidInv(t)'
<1> SUFFICES ASSUME pc[t] = "getvid" PROVE GetvidInv(t)'
  BY Zenon DEF GetvidInv, SameThread
<1>1. PICK n, v : n = target[t] /\ v = tvnode[t]
  BY Zenon
<1>2. /\ v \in Vnodes /\ tvid[t] <= vnode[v].vid
      /\ tvid[t] = vnode[v].vid =>
            \/ vnode[v].state = "reclaimed"
            \/ Linked(n, v) /\ sfsnode[n].key = key[t]
  BY <1>1, Zenon DEF GetvidInv
<1>3. tvid[t] \in Int /\ vnode[v].vid \in Int
  BY <1>2 DEF TypeOK, VnodeType
<1>4. tvid[t] <= vnode'[v].vid
  BY <1>2, <1>3
<1>5. ASSUME tvid[t] = vnode'[v].vid, vnode'[v].state # "reclaimed"
      PROVE  Linked(n, v)' /\ sfsnode'[n].key = key[t]
  <2>1. vnode'[v].vid = vnode[v].vid /\ vnode[v].state # "reclaimed"
    BY <1>2, <1>3, <1>5
  <2>2. Linked(n, v) /\ sfsnode[n].key = key[t]
    BY <1>2, <1>5, <2>1, Zenon
  <2> QED BY <1>5, <2>2 DEF SameNode, Linked
<1> QED BY <1>1, <1>2, <1>4, <1>5, Zenon DEF GetvidInv, SameThread

\* All that a thread relies on survives if what it relies on, at the point it
\* has reached, is not touched.
LEMMA OtherThread ==
  ASSUME NEW t \in Threads, ThreadInv(t), SameThread(t), GetvidInv(t)',
         Claiming(t) \/ pc[t] \in {"sleep", "have"} => SameNode(target[t]),
         pc[t] \in {"attach", "have"} => SameVnode(tvnode[t], {t})
  PROVE  ThreadInv(t)'
<1>1. LocalsInv(t)'
  BY Zenon DEF ThreadInv, LocalsInv, SameThread
<1>2. ClaimInv(t)' /\ SleepInv(t)'
  BY Zenon DEF ThreadInv, ClaimInv, Claiming, SleepInv, SameThread, SameNode
<1>3. CreatedInv(t)'
  BY Zenon DEF ThreadInv, CreatedInv, SameThread, SameVnode
<1>4. HaveInv(t)'
  BY Zenon DEF ThreadInv, HaveInv, Linked, SameThread, SameNode, SameVnode
<1> QED BY <1>1, <1>2, <1>3, <1>4, Zenon DEF ThreadInv

\* An entry stays attached or claimed when neither it nor its vnode is
\* touched, and the thread that claims it goes on claiming it.
LEMMA NodeFrame ==
  ASSUME NEW n, NodeInv(n), n \in hash' => n \in hash, SameNode(n),
         sfsnode[n].vp \in Vnodes => SameVnode(sfsnode[n].vp, {}),
         \A t \in Threads : Claiming(t) /\ target[t] = n
                              => Claiming(t)' /\ target'[t] = n
  PROVE  NodeInv(n)'
<1> SUFFICES ASSUME n \in hash' PROVE NodeInv(n)'
  BY Zenon DEF NodeInv
<1>1. /\ n \in hash /\ sfsnode'[n].key = sfsnode[n].key
      /\ sfsnode'[n].attaching <=> sfsnode[n].attaching
      /\ sfsnode'[n].vp = sfsnode[n].vp
  BY Zenon DEF SameNode
<1>2. CASE sfsnode[n].attaching
  BY <1>1, <1>2, Zenon DEF NodeInv
<1>3. CASE ~sfsnode[n].attaching
  <2>1. Linked(n, sfsnode[n].vp)
    BY <1>1, <1>3, Zenon DEF NodeInv
  <2>2. Linked(n, sfsnode[n].vp)'
    BY <1>1, <2>1, Zenon DEF Linked, SameVnode
  <2> QED BY <1>1, <1>3, <2>2, Zenon DEF NodeInv
<1> QED BY <1>2, <1>3, Zenon

\* A vnode keeps its entry when neither is touched.
LEMMA VnodeFrame ==
  ASSUME NEW v \in Vnodes, VnodeInv(v), SameVnode(v, {}),
         SameNode(vnode[v].fsnode),
         vnode[v].state = "reclaim" => vnode'[v].iocount = vnode[v].iocount,
         \A t \in Threads : pc[t] = "attach" /\ tvnode[t] = v
                              => pc'[t] = "attach" /\ tvnode'[t] = v
  PROVE  VnodeInv(v)'
<1>1. Linked(vnode[v].fsnode, v) => Linked(vnode[v].fsnode, v)'
  BY Zenon DEF Linked, SameNode, SameVnode
<1> QED BY <1>1, Zenon DEF VnodeInv, SameVnode

\* A step that changes no table entry (but for the waiting mark) and no vnode
\* (but for its iocounts), made by
\* a thread that claims nothing before or after it, keeps the invariant if it
\* keeps the parts about that thread and about the heap.
LEMMA LocalStep ==
  ASSUME IInv, NEW t \in Threads, TypeOK', HeapInv', ThreadInv(t)',
         UNCHANGED <<hash, liveNodes>>, \A n \in hash : SameNode(n),
         ~Claiming(t), ~Claiming(t)',
         \A s \in Threads \ {t} : SameThread(s),
         \A v \in Vnodes : SameVnode(v, Threads \ {t}),
         \A v \in Vnodes : vnode[v].state # "live" => vnode'[v] = vnode[v]
  PROVE  IInv'
<1>1. \A n : SameNode(n)
  BY Zenon DEF SameNode
<1>2. UniqueIdentity' /\ LiveNodesExact'
  BY DEF IInv, UniqueIdentity, LiveNodesExact, SameNode
<1>3. ClaimsDisjoint'
  <2>1. \A s \in Threads : Claiming(s)' => Claiming(s) /\ target'[s] = target[s]
    BY Zenon DEF Claiming, SameThread
  <2>2. ClaimsDisjoint
    BY Zenon DEF IInv
  <2> QED BY <2>1, <2>2, Zenon DEF ClaimsDisjoint
<1>4. ASSUME NEW s \in Threads \ {t} PROVE ThreadInv(s)'
  <2>1. tvnode[s] \in Vnodes => SameVnode(tvnode[s], {s})
    BY Zenon DEF SameVnode
  <2>2. ThreadInv(s) /\ SameThread(s)
    BY Zenon DEF IInv
  <2> QED BY <1>1, <2>1, <2>2, ThreadFrame, Zenon
<1>5. ASSUME NEW n \in Nodes PROVE NodeInv(n)'
  <2>1. sfsnode[n].vp \in Vnodes => SameVnode(sfsnode[n].vp, {})
    BY Zenon DEF SameVnode
  <2>2. \A s \in Threads : Claiming(s) /\ target[s] = n
                             => Claiming(s)' /\ target'[s] = n
    BY Zenon DEF Claiming, SameThread
  <2>3. NodeInv(n)
    BY Zenon DEF IInv
  <2> QED BY <1>1, <2>1, <2>2, <2>3, NodeFrame, Zenon
<1>6. ASSUME NEW v \in Vnodes PROVE VnodeInv(v)'
  <2>1. SameVnode(v, {})
    BY Zenon DEF SameVnode
  <2>2. \A s \in Threads : pc[s] = "attach" /\ tvnode[s] = v
                             => pc'[s] = "attach" /\ tvnode'[s] = v
    BY Zenon DEF Claiming, SameThread
  <2>3. VnodeInv(v)
    BY Zenon DEF IInv
  <2>4. vnode[v].state = "reclaim" => vnode'[v].iocount = vnode[v].iocount
    BY Zenon
  <2> QED BY <1>1, <2>1, <2>2, <2>3, <2>4, VnodeFrame, Zenon
<1> QED BY <1>2, <1>3, <1>4, <1>5, <1>6, Zenon DEF IInv

\* The same for a step that does not touch the vnodes at all.
LEMMA QuietStep ==
  ASSUME IInv, NEW t \in Threads, TypeOK', HeapInv', ThreadInv(t)',
         UNCHANGED <<hash, sfsnode, liveNodes, vnode>>,
         ~Claiming(t), ~Claiming(t)',
         \A s \in Threads \ {t} : SameThread(s)
  PROVE  IInv'
<1>1. \A v \in Vnodes : SameVnode(v, Threads \ {t})
  BY Zenon DEF SameVnode
<1>2. \A n \in hash : SameNode(n)
  BY Zenon DEF SameNode
<1> QED BY <1>1, <1>2, LocalStep, Zenon

\* What the proofs need to know about counting nodes (proved in part 2).
CountFacts ==
    \A S \in SUBSET Nodes : \A n \in Nodes :
        /\ n \notin S => Cardinality(S \cup {n}) = Cardinality(S) + 1
        /\ n \in S => /\ Cardinality(S \ {n}) = Cardinality(S) - 1
                      /\ Cardinality(S) - 1 \in Nat

-----------------------------------------------------------------------------
(* The steps of sysfsnode_find() that change the table or make a vnode.    *)

\* Claiming the attachment keeps the invariant: the entry is always the node
\* this thread allocated, and no entry for its identity is in the table.
LEMMA ScanAttachInv ==
  ASSUME IInv, CountFacts, NEW t \in Threads, ScanAttach(t)
  PROVE  IInv'
<1>1. PICK n \in Nodes :
        /\ IsTarget(t, n) /\ ~Contents(t, n).attaching
        /\ Contents(t, n).vp = NULL
        /\ sfsnode' = [sfsnode EXCEPT
                         ![n] = [key |-> key[t], attaching |-> TRUE,
                                 waiting |-> Contents(t, n).waiting,
                                 vp |-> NULL]]
        /\ target' = [target EXCEPT ![t] = n]
        /\ hash' = hash \cup {n}
        /\ liveNodes' = IF n \in Matches(t) THEN liveNodes ELSE liveNodes + 1
        /\ inserted' = [inserted EXCEPT ![t] = @ \/ n \notin Matches(t)]
  BY ZenonT(60) DEF ScanAttach
<1>2. n \notin Matches(t)
  BY <1>1, NodeCacheAssumption, Zenon DEF Matches, Contents, IInv, NodeInv, Linked
<1>3. n = new[t] /\ \A m \in hash : sfsnode[m].key # key[t]
  BY <1>1, <1>2, Zenon DEF IsTarget, Matches
<1>4. /\ pc[t] = "lock" /\ ~inserted[t] /\ key[t] \in Keys /\ n \notin hash
      /\ ~Claiming(t)
  BY <1>3, Zenon DEF ScanAttach, IInv, ThreadInv, LocalsInv, HeapInv, Claiming
<1>5. /\ pc'[t] = "create" /\ target'[t] = n /\ new'[t] = n /\ inserted'[t]
      /\ key'[t] = key[t] /\ vnode' = vnode /\ liveNodes' = liveNodes + 1
      /\ \A s \in Threads \ {t} : SameThread(s)
  <2>1. t \in DOMAIN pc /\ t \in DOMAIN target /\ t \in DOMAIN inserted
    BY Zenon DEF IInv, TypeOK
  <2>2. /\ pc' = [pc EXCEPT ![t] = "create"]
        /\ UNCHANGED <<key, new, tvnode, tvid, heap, vnode>>
    BY Zenon DEF ScanAttach
  <2>3. pc'[t] = "create" /\ target'[t] = n /\ inserted'[t]
    BY <1>1, <1>2, <2>1, <2>2, Zenon
  <2>4. \A s \in Threads \ {t} : SameThread(s)
    BY <1>1, <2>2, Zenon DEF IInv, TypeOK, SameThread
  <2> QED BY <1>1, <1>2, <1>3, <2>2, <2>3, <2>4, Zenon
<1>6. /\ \A m \in Nodes : m # n => sfsnode'[m] = sfsnode[m]
      /\ sfsnode'[n].key = key[t] /\ sfsnode'[n].attaching
      /\ sfsnode'[n].vp = NULL
  BY <1>1, Zenon DEF IInv, TypeOK
<1>7. hash' = hash \cup {n} /\ hash \in SUBSET Nodes
  BY <1>1, Zenon DEF IInv, TypeOK
<1>8. \A m : SameNode(m)
  BY <1>4, <1>6, <1>7, Zenon DEF SameNode
<1>9. \A v \in Vnodes : SameVnode(v, {}) /\ \A s : SameVnode(v, {s})
  BY <1>5, Zenon DEF SameVnode
<1>10. TypeOK'
  <2>1. sfsnode' \in [Nodes -> SfsnodeType]
    <3>1. Contents(t, n).waiting \in BOOLEAN
      BY <1>2, Zenon DEF Contents
    <3> QED BY <1>1, <1>4, <3>1, Zenon DEF IInv, TypeOK, SfsnodeType
  <2>2. inserted' \in [Threads -> BOOLEAN] /\ hash' \in SUBSET Nodes
        /\ liveNodes' \in Nat /\ target' \in [Threads -> Nodes \cup {NULL}]
    BY <1>1, <1>5 DEF IInv, TypeOK
  <2> QED BY <2>1, <2>2, Zenon DEF ScanAttach, IInv, TypeOK, PCs
<1>11. UniqueIdentity'
  BY <1>3, <1>4, <1>6, <1>7 DEF IInv, UniqueIdentity
<1>12. LiveNodesExact'
  BY <1>4, <1>5, <1>7, Zenon DEF CountFacts, IInv, LiveNodesExact
<1>13. HeapInv'
  <2>1. heap' = heap /\ new' = new /\ HeapInv
    BY Zenon DEF ScanAttach, IInv
  <2>2. \A s \in Threads : s # t => inserted'[s] = inserted[s]
    BY <1>1, Zenon DEF IInv, TypeOK
  <2>3. \A m \in Nodes :
          m \in heap' <=> \/ m \in hash'
                          \/ \E s \in Threads : new'[s] = m /\ ~inserted'[s]
    BY <1>3, <1>4, <1>5, <1>7, <2>1, <2>2 DEF HeapInv
  <2>4. \A s \in Threads : ~inserted'[s] => new'[s] \notin hash'
    BY <1>3, <1>4, <1>5, <1>7, <2>1, <2>2, NodeCacheAssumption DEF HeapInv
  <2>5. \A r, s \in Threads : r # s /\ new'[r] = new'[s] /\ ~inserted'[r]
                                /\ ~inserted'[s] => new'[r] = NULL
    BY <1>5, <2>1, <2>2 DEF HeapInv
  <2> QED BY <2>3, <2>4, <2>5, Zenon DEF HeapInv
<1>14. ClaimsDisjoint'
  <2>1. \A s \in Threads \ {t} : Claiming(s)' => Claiming(s) /\ target'[s] # n
    BY <1>4, <1>5 DEF IInv, ThreadInv, ClaimInv, Claiming, SameThread
  <2> QED BY <1>5, <2>1 DEF IInv, ClaimsDisjoint, SameThread
<1>15. ThreadInv(t)'
  BY <1>4, <1>5, <1>6, <1>7, Zenon
     DEF ThreadInv, LocalsInv, ClaimInv, Claiming, CreatedInv, GetvidInv,
         HaveInv, SleepInv
<1>16. ASSUME NEW s \in Threads \ {t} PROVE ThreadInv(s)'
  <2>1. ThreadInv(s) /\ SameThread(s)
    BY <1>5, Zenon DEF IInv
  <2> QED BY <1>8, <1>9, <2>1, ThreadFrame, ZenonT(60)
<1>17. ASSUME NEW m \in Nodes PROVE NodeInv(m)'
  <2>1. CASE m = n
    <3>1. Claiming(t)' /\ target'[t] = n
      BY <1>5, Zenon DEF Claiming
    <3> QED BY <1>4, <1>6, <2>1, <3>1, Zenon DEF NodeInv
  <2>2. CASE m # n
    <3>1. \A s \in Threads : Claiming(s) /\ target[s] = m
                               => Claiming(s)' /\ target'[s] = m
      BY <1>4, <1>5, Zenon DEF Claiming, SameThread
    <3>2. NodeInv(m) /\ (m \in hash' => m \in hash)
      BY <1>7, <2>2, Zenon DEF IInv
    <3> QED BY <1>8, <1>9, <3>1, <3>2, NodeFrame, Zenon
  <2> QED BY <2>1, <2>2, Zenon
<1>18. ASSUME NEW v \in Vnodes PROVE VnodeInv(v)'
  <2>1. \A s \in Threads : pc[s] = "attach" /\ tvnode[s] = v
                             => pc'[s] = "attach" /\ tvnode'[s] = v
    BY <1>4, <1>5, Zenon DEF SameThread
  <2>2. VnodeInv(v) /\ vnode'[v] = vnode[v]
    BY <1>5, Zenon DEF IInv
  <2> QED BY <1>8, <1>9, <2>1, <2>2, VnodeFrame, Zenon
<1> QED BY <1>10, <1>11, <1>12, <1>13, <1>14, <1>15, <1>16, <1>17, <1>18, Zenon
        DEF IInv

\* A successful vnode_create() keeps the invariant: whoever remembers the new
\* vnode from an earlier life has read another vid.
LEMMA CreateVnodeInv ==
  ASSUME IInv, NEW t \in Threads, CreateVnode(t)
  PROVE  IInv'
<1>1. PICK v \in Vnodes :
        /\ vnode[v].state = "free" /\ vnode[v].vid < MaxVid
        /\ vnode' = [vnode EXCEPT
                       ![v] = [state |-> "live", vid |-> @.vid,
                               fsnode |-> target[t], iocount |-> {t},
                               fsref |-> @.fsref]]
        /\ tvnode' = [tvnode EXCEPT ![t] = v]
  BY ZenonT(60) DEF CreateVnode
<1>2. /\ pc[t] = "create" /\ pc'[t] = "attach" /\ target'[t] = target[t]
      /\ tvnode'[t] = v /\ key'[t] = key[t] /\ new'[t] = new[t]
      /\ inserted'[t] = inserted[t] /\ \A s \in Threads \ {t} : SameThread(s)
  BY <1>1, Zenon DEF CreateVnode, IInv, TypeOK, SameThread
<1>3. /\ hash' = hash /\ sfsnode' = sfsnode /\ liveNodes' = liveNodes
      /\ heap' = heap /\ new' = new /\ inserted' = inserted
      /\ target' = target
  BY Zenon DEF CreateVnode, tableVars
<1>4. /\ \A w \in Vnodes : w # v => vnode'[w] = vnode[w]
      /\ vnode'[v].state = "live" /\ vnode'[v].fsnode = target[t]
      /\ vnode'[v].iocount = {t} /\ vnode'[v].fsref = vnode[v].fsref
      /\ vnode'[v].vid = vnode[v].vid
  BY <1>1, Zenon DEF IInv, TypeOK, VnodeType
<1>5. LocalsInv(t) /\ ClaimInv(t) /\ target[t] \in hash /\ ~vnode[v].fsref
  BY <1>1, <1>2, Zenon DEF IInv, ThreadInv, ClaimInv, Claiming, VnodeInv
<1>6. \A m : SameNode(m)
  BY <1>3, Zenon DEF SameNode
<1>7. \A w \in Vnodes \ {v} : SameVnode(w, {}) /\ \A s : SameVnode(w, {s})
  BY <1>4, Zenon DEF SameVnode
<1>8. TypeOK'
  <2>1. vnode \in [Vnodes -> VnodeType] /\ target[t] \in Nodes \cup {NULL}
    BY Zenon DEF IInv, TypeOK
  <2>2. vnode' \in [Vnodes -> VnodeType]
    BY <1>1, <2>1, Zenon DEF VnodeType, VnodeStates
  <2> QED BY <1>1, <2>2, Zenon DEF CreateVnode, tableVars, IInv, TypeOK, PCs
<1>9. UniqueIdentity' /\ LiveNodesExact' /\ HeapInv'
  BY <1>3, Zenon DEF IInv, UniqueIdentity, LiveNodesExact, HeapInv
<1>10. \A s \in Threads : Claiming(s)' <=> Claiming(s)
  BY <1>2, Zenon DEF Claiming, SameThread
<1>11. ClaimsDisjoint'
  BY <1>3, <1>10, Zenon DEF IInv, ClaimsDisjoint
<1>12. ThreadInv(t)'
  <2>1. LocalsInv(t)' /\ ClaimInv(t)' /\ CreatedInv(t)'
    BY <1>1, <1>2, <1>3, <1>4, <1>5, Zenon
       DEF LocalsInv, ClaimInv, Claiming, CreatedInv
  <2> QED BY <1>2, <2>1, Zenon DEF ThreadInv, GetvidInv, HaveInv, SleepInv
<1>13. ASSUME NEW s \in Threads \ {t} PROVE ThreadInv(s)'
  <2>1. ThreadInv(s) /\ SameThread(s)
    BY <1>2, Zenon DEF IInv
  <2>2. CASE tvnode[s] # v
    BY <1>6, <1>7, <2>1, <2>2, ThreadFrame, ZenonT(60)
  <2>3. CASE tvnode[s] = v
    <3>1. LocalsInv(s)' /\ ClaimInv(s)' /\ SleepInv(s)'
      BY <1>3, <2>1, Zenon DEF ThreadInv, LocalsInv, ClaimInv, Claiming, SleepInv,
                        SameThread
    <3>2. pc[s] # "attach" /\ pc[s] # "have"
      BY <1>1, <2>1, <2>3, Zenon DEF ThreadInv, CreatedInv, HaveInv
    <3>3. pc[s] = "getvid" => tvid[s] <= vnode[v].vid /\ tvid[s] # vnode[v].vid
      BY <1>1, <2>1, <2>3, Zenon DEF ThreadInv, GetvidInv, Linked
    <3>4. GetvidInv(s)'
      BY <1>4, <2>1, <2>3, <3>3, Zenon DEF GetvidInv, SameThread
    <3> QED BY <2>1, <3>1, <3>2, <3>4, Zenon DEF ThreadInv, CreatedInv, HaveInv,
                                          SameThread
  <2> QED BY <2>2, <2>3, Zenon
<1>14. ASSUME NEW m \in Nodes PROVE NodeInv(m)'
  <2> SUFFICES ASSUME m \in hash PROVE NodeInv(m)'
    BY <1>3, Zenon DEF NodeInv
  <2>1. NodeInv(m) /\ sfsnode[m].vp # v
    <3>1. NodeInv(m)
      BY Zenon DEF IInv
    <3>2. \/ sfsnode[m].vp = NULL
          \/ vnode[sfsnode[m].vp].state \in {"live", "reclaim"}
      BY <3>1, Zenon DEF NodeInv, Linked
    <3> QED BY <1>1, <3>1, <3>2, NodeCacheAssumption, Zenon
  <2>2. \A s \in Threads : Claiming(s) /\ target[s] = m
                             => Claiming(s)' /\ target'[s] = m
    BY <1>3, <1>10, Zenon
  <2> QED BY <1>3, <1>6, <1>7, <2>1, <2>2, NodeFrame, Zenon
<1>15. ASSUME NEW w \in Vnodes PROVE VnodeInv(w)'
  <2>1. CASE w = v
    <3>1. \E s \in Threads : pc'[s] = "attach" /\ tvnode'[s] = v
      BY <1>2, Zenon
    <3>2. vnode'[v].state = "live" /\ vnode'[v].vid < MaxVid
      BY <1>1, <1>4, Zenon
    <3> QED BY <2>1, <3>1, <3>2, Zenon DEF VnodeInv
  <2>2. CASE w # v
    <3>1. \A s \in Threads : pc[s] = "attach" /\ tvnode[s] = w
                               => pc'[s] = "attach" /\ tvnode'[s] = w
      BY <1>2, Zenon DEF SameThread
    <3>2. VnodeInv(w) /\ vnode'[w] = vnode[w]
      BY <1>4, <2>2, Zenon DEF IInv
    <3> QED BY <1>6, <1>7, <2>2, <3>1, <3>2, VnodeFrame, Zenon
  <2> QED BY <2>1, <2>2, Zenon
<1> QED BY <1>8, <1>9, <1>11, <1>12, <1>13, <1>14, <1>15, Zenon DEF IInv

\* What the thread whose attachment ends knows of all others: whoever else
\* relies on an entry or a vnode relies on another one, or is woken.
LEMMA OthersElsewhere ==
  ASSUME IInv, NEW t \in Threads, Claiming(t), NEW s \in Threads \ {t},
         s \notin Woken(target[t])
  PROVE  /\ Claiming(s) \/ pc[s] \in {"sleep", "have"} => target[s] # target[t]
         /\ \A v : Linked(target[s], v) => target[s] # target[t]
<1>1. ClaimInv(t) /\ ThreadInv(s)
  BY Zenon DEF IInv, ThreadInv
<1>2. Claiming(s) => target[s] # target[t]
  BY Zenon DEF IInv, ClaimsDisjoint
<1>3. pc[s] = "sleep" => target[s] # target[t]
  BY <1>1, Zenon DEF ThreadInv, SleepInv, Woken
<1>4. \A v : Linked(target[s], v) => target[s] # target[t]
  BY <1>1, Zenon DEF ClaimInv, Linked
<1>5. pc[s] = "have" => target[s] # target[t]
  BY <1>1, <1>4, Zenon DEF ThreadInv, HaveInv
<1> QED BY <1>2, <1>3, <1>4, <1>5, Zenon

\* A thread that is woken looks the node up again, and relies on nothing.
LEMMA WokenInv ==
  ASSUME IInv, NEW s \in Threads, pc[s] = "sleep", pc'[s] = "lock",
         key'[s] = key[s], inserted'[s] = inserted[s]
  PROVE  ThreadInv(s)'
BY Zenon DEF IInv, ThreadInv, LocalsInv, ClaimInv, Claiming, CreatedInv,
       GetvidInv, HaveInv, SleepInv

\* The end of a successful attachment keeps the invariant.
LEMMA AttachInv ==
  ASSUME IInv, NEW t \in Threads, Attach(t),
         NEW n, n = target[t], NEW v, v = tvnode[t]
  PROVE  IInv'
<1>1. pc[t] = "attach" /\ Claiming(t) /\ ThreadInv(t)
  BY Zenon DEF Attach, Claiming, IInv
<1>2. /\ n \in hash /\ n \in Nodes /\ sfsnode[n].attaching
      /\ sfsnode[n].key = key[t] /\ v \in Vnodes /\ vnode[v].state = "live"
      /\ vnode[v].fsnode = n /\ t \in vnode[v].iocount /\ key[t] \in Keys
      /\ inserted[t] /\ new[t] = n
  BY <1>1, Zenon DEF IInv, TypeOK, ThreadInv, LocalsInv, ClaimInv, CreatedInv, Claiming
<1>3. /\ pc'[t] = "have" /\ key' = key /\ inserted' = inserted
      /\ target' = target /\ tvnode' = tvnode /\ hash' = hash
      /\ new'[t] = NULL /\ tvid' = tvid /\ liveNodes' = liveNodes
      /\ \A s \in Threads : s # t => new'[s] = new[s]
  BY Zenon DEF Attach, EndAttaching, IInv, TypeOK
<1>4. \A s \in Threads \ {t} :
        IF s \in Woken(n) THEN pc[s] = "sleep" /\ pc'[s] = "lock"
                          ELSE SameThread(s)
  BY <1>3, Zenon DEF Attach, EndAttaching, Woken, SameThread
<1>5. /\ \A m \in Nodes : m # n => sfsnode'[m] = sfsnode[m]
      /\ sfsnode'[n].key = key[t] /\ ~sfsnode'[n].attaching
      /\ sfsnode'[n].vp = v
  BY <1>2, Zenon DEF Attach, IInv, TypeOK, SfsnodeType
<1>6. /\ \A w \in Vnodes : w # v => vnode'[w] = vnode[w]
      /\ vnode'[v].state = "live" /\ vnode'[v].vid = vnode[v].vid
      /\ vnode'[v].fsnode = n /\ vnode'[v].iocount = vnode[v].iocount
      /\ vnode'[v].fsref
  BY <1>2 DEF Attach, IInv, TypeOK, VnodeType
<1>7. heap' = heap
  BY <1>2, Zenon DEF Attach, Unused
<1>8. TypeOK'
  <2>1. sfsnode' \in [Nodes -> SfsnodeType]
    BY <1>2, Zenon DEF Attach, IInv, TypeOK, SfsnodeType
  <2>2. vnode' \in [Vnodes -> VnodeType]
    <3>1. vnode \in [Vnodes -> VnodeType]
      BY Zenon DEF IInv, TypeOK
    <3> QED BY <1>2, <3>1, ZenonT(60) DEF Attach, VnodeType
  <2>3. pc' \in [Threads -> PCs]
    BY Zenon DEF Attach, EndAttaching, IInv, TypeOK, PCs
  <2>4. new' \in [Threads -> Nodes \cup {NULL}]
    BY Zenon DEF Attach, IInv, TypeOK
  <2> QED BY <1>3, <1>7, <2>1, <2>2, <2>3, <2>4, Zenon DEF IInv, TypeOK
<1>9. hash \subseteq Nodes
  BY Zenon DEF IInv, TypeOK
<1>10. UniqueIdentity' /\ LiveNodesExact'
  <2>1. UniqueIdentity /\ LiveNodesExact
    BY Zenon DEF IInv
  <2>2. \A m \in hash : sfsnode'[m].key = sfsnode[m].key
    BY <1>2, <1>5, <1>9, Zenon
  <2>3. UniqueIdentity'
    BY <1>3, <2>1, <2>2 DEF UniqueIdentity
  <2>4. LiveNodesExact'
    BY <1>3, <2>1, Zenon DEF LiveNodesExact
  <2> QED BY <2>3, <2>4, Zenon
<1>11. HeapInv'
  <2>1. HeapInv /\ NULL \notin Nodes /\ hash \subseteq Nodes /\ n \in hash
    BY <1>2, <1>9, NodeCacheAssumption, Zenon DEF IInv
  <2>2. /\ inserted' = inserted /\ hash' = hash
        /\ \A s \in Threads : new'[s] = IF s = t THEN NULL ELSE new[s]
    BY <1>3, Zenon DEF Attach, IInv, TypeOK
  <2>3. inserted[t]
    BY <1>2, Zenon
  <2> QED BY <1>7, <2>1, <2>2, <2>3 DEF HeapInv
<1>12. \A s \in Threads : Claiming(s)' <=> Claiming(s) /\ s # t
  BY <1>3, <1>4, Zenon DEF Claiming, SameThread
<1>13. ClaimsDisjoint'
  BY <1>3, <1>12, Zenon DEF IInv, ClaimsDisjoint
<1>14. Linked(n, v)'
  BY <1>2, <1>3, <1>5, <1>6, Zenon DEF Linked
<1>15. ThreadInv(t)'
  <2>1. HaveInv(t)'
    BY <1>2, <1>3, <1>5, <1>6, <1>14, Zenon DEF HaveInv
  <2>2. LocalsInv(t)'
    BY <1>2, <1>3, Zenon DEF LocalsInv
  <2> QED BY <1>3, <2>1, <2>2, Zenon DEF ThreadInv, ClaimInv, Claiming, CreatedInv,
                                  GetvidInv, SleepInv
<1>16. \A m \in hash \ {n} : SameNode(m)
  BY <1>3, <1>5, <1>9, Zenon DEF SameNode
<1>17. \A w \in Vnodes \ {v} : SameVnode(w, {}) /\ \A s : SameVnode(w, {s})
  BY <1>6, Zenon DEF SameVnode
<1>18. \A m, w : Linked(m, w) => Linked(m, w)' /\ SameNode(m)
                                    /\ m # n /\ w # v
  <2> SUFFICES ASSUME NEW m, NEW w, Linked(m, w)
               PROVE  Linked(m, w)' /\ SameNode(m) /\ m # n /\ w # v
    BY Zenon
  <2>1. m # n /\ w # v /\ m \in hash /\ w \in Vnodes
    BY <1>2, Zenon DEF Linked
  <2> QED BY <1>16, <1>17, <2>1, LinkedFrame, Zenon
<1>19. \A w \in Vnodes : /\ vnode'[w].vid \in Int
                         /\ vnode[w].vid <= vnode'[w].vid
                         /\ vnode[w].state = vnode'[w].state
  <2>1. \A w \in Vnodes : vnode[w].vid \in Int
    BY DEF IInv, TypeOK, VnodeType
  <2> QED BY <1>2, <1>6, <2>1
<1>20. ASSUME NEW s \in Threads \ {t} PROVE ThreadInv(s)'
  <2>1. CASE s \in Woken(n)
    BY <1>3, <1>4, <2>1, WokenInv, Zenon
  <2>2. CASE s \notin Woken(n)
    <3>1. /\ ThreadInv(s) /\ SameThread(s)
          /\ Claiming(s) \/ pc[s] \in {"sleep", "have"} => target[s] # n
      BY <1>1, <1>4, <2>2, OthersElsewhere, Zenon DEF IInv
    <3>2. Claiming(s) \/ pc[s] \in {"sleep", "have"} => SameNode(target[s])
      BY <1>16, <3>1, Zenon DEF ThreadInv, ClaimInv, SleepInv, HaveInv, Linked
    <3>3. pc[s] \in {"attach", "have"} => SameVnode(tvnode[s], {s})
      <4>1. tvnode[s] \in Vnodes \ {v} => SameVnode(tvnode[s], {s})
        BY <1>17, Zenon
      <4>2. CASE pc[s] = "attach"
        BY <1>2, <3>1, <4>1, <4>2, Zenon DEF ThreadInv, Claiming, CreatedInv
      <4>3. CASE pc[s] = "have"
        <5>1. Linked(target[s], tvnode[s]) /\ target[s] # n
          BY <3>1, <4>3, Zenon DEF ThreadInv, HaveInv
        <5> QED BY <1>2, <4>1, <5>1, Zenon DEF Linked
      <4> QED BY <4>2, <4>3, Zenon
    <3>4. GetvidInv(s)'
      BY <1>18, <1>19, <3>1, GetvidFrame, Zenon DEF IInv, ThreadInv
    <3> QED BY <3>1, <3>2, <3>3, <3>4, OtherThread, Zenon
  <2> QED BY <2>1, <2>2, Zenon
<1>21. ASSUME NEW m \in Nodes PROVE NodeInv(m)'
  <2>1. CASE m = n
    BY <1>2, <1>5, <1>14, <2>1, Zenon DEF NodeInv
  <2>2. CASE m # n
    <3> SUFFICES ASSUME m \in hash PROVE NodeInv(m)'
      BY <1>3, Zenon DEF NodeInv
    <3>1. NodeInv(m) /\ sfsnode[m].vp # v
      <4>1. NodeInv(m)
        BY Zenon DEF IInv
      <4>2. CASE sfsnode[m].attaching
        <5>1. sfsnode[m].vp = NULL
          BY <4>1, <4>2, Zenon DEF NodeInv
        <5> QED BY <1>2, <4>1, <5>1, NodeCacheAssumption, Zenon
      <4>3. CASE ~sfsnode[m].attaching
        <5>1. Linked(m, sfsnode[m].vp)
          BY <4>1, <4>3, Zenon DEF NodeInv
        <5> QED BY <1>18, <4>1, <5>1, Zenon
      <4> QED BY <4>2, <4>3, Zenon
    <3>2. \A s \in Threads : Claiming(s) /\ target[s] = m
                               => Claiming(s)' /\ target'[s] = m
      BY <1>3, <1>12, <2>2, Zenon
    <3> QED BY <1>3, <1>16, <1>17, <2>2, <3>1, <3>2, NodeFrame, Zenon
  <2> QED BY <2>1, <2>2, Zenon
<1>22. ASSUME NEW w \in Vnodes PROVE VnodeInv(w)'
  <2>1. VnodeInv(w)
    BY Zenon DEF IInv
  <2>2. CASE w = v
    <3>1. vnode[v].vid < MaxVid
      BY <1>2, <2>1, <2>2, Zenon DEF VnodeInv
    <3> QED BY <1>6, <1>14, <2>2, <3>1, Zenon DEF VnodeInv
  <2>3. CASE w # v
    <3>1. \A s \in Threads : pc[s] = "attach" /\ tvnode[s] = w
                               => pc'[s] = "attach" /\ tvnode'[s] = w
      BY <1>4, <2>3, Zenon DEF SameThread
    <3>2. vnode'[w] = vnode[w]
      BY <1>6, <2>3, Zenon
    <3> QED BY <1>18, <2>1, <3>1, <3>2, Zenon DEF VnodeInv
  <2> QED BY <2>2, <2>3, Zenon
<1> QED BY <1>8, <1>10, <1>11, <1>13, <1>15, <1>20, <1>21, <1>22, Zenon DEF IInv

\* Taking an entry out of the table breaks no other link.
LEMMA RemoveFrame ==
  ASSUME NEW n, TypeOK, FreeNode(n)
  PROVE  \A m : m # n => SameNode(m)
BY Zenon DEF TypeOK, FreeNode, SameNode

\* Freeing a node of the table keeps the global parts of the invariant, if
\* whoever allocated it does not hold it as a private node.
LEMMA FreeNodeInv ==
  ASSUME IInv, CountFacts, NEW n \in hash, FreeNode(n),
         \A t \in Threads : \/ new'[t] = new[t] /\ inserted'[t] = inserted[t]
                            \/ new'[t] = NULL /\ (new[t] = NULL \/ inserted[t])
  PROVE  /\ UniqueIdentity' /\ LiveNodesExact' /\ HeapInv'
         /\ heap' \in SUBSET Nodes /\ hash' \in SUBSET Nodes
         /\ sfsnode' \in [Nodes -> SfsnodeType] /\ liveNodes' \in Nat
<1>1. /\ hash' = hash \ {n} /\ heap' = heap \ {n}
      /\ liveNodes' = liveNodes - 1
      /\ \A m \in Nodes : m # n => sfsnode'[m] = sfsnode[m]
  BY Zenon DEF FreeNode, IInv, TypeOK
<1>2. hash \subseteq Nodes /\ heap \subseteq Nodes /\ n \in Nodes
  BY Zenon DEF IInv, TypeOK
<1>3. UniqueIdentity'
  BY <1>1, <1>2 DEF IInv, UniqueIdentity
<1>4. LiveNodesExact' /\ liveNodes' \in Nat
  BY <1>1, <1>2, Zenon DEF CountFacts, IInv, LiveNodesExact
<1>5. sfsnode' \in [Nodes -> SfsnodeType]
  BY <1>2, NodeCacheAssumption, Zenon
     DEF FreeNode, Zeroed, IInv, TypeOK, SfsnodeType
<1>6. HeapInv /\ NULL \notin Nodes
  BY NodeCacheAssumption, Zenon DEF IInv
<1>7. ASSUME NEW m \in Nodes
      PROVE  m \in heap' <=> \/ m \in hash'
                             \/ \E s \in Threads : new'[s] = m /\ ~inserted'[s]
  <2>1. (\E s \in Threads : new'[s] = m /\ ~inserted'[s])
          <=> (\E s \in Threads : new[s] = m /\ ~inserted[s])
    BY <1>6, Zenon
  <2>2. CASE m = n
    BY <1>1, <1>6, <2>1, <2>2, Zenon DEF HeapInv
  <2>3. CASE m # n
    BY <1>1, <1>6, <2>1, <2>3, Zenon DEF HeapInv
  <2> QED BY <2>2, <2>3, Zenon
<1>8. \A s \in Threads : ~inserted'[s] => new'[s] \notin hash'
  BY <1>1, <1>2, <1>6, Zenon DEF HeapInv
<1>9. \A r, s \in Threads : r # s /\ new'[r] = new'[s] /\ ~inserted'[r]
                              /\ ~inserted'[s] => new'[r] = NULL
  BY <1>6, Zenon DEF HeapInv
<1>10. HeapInv'
  BY <1>7, <1>8, <1>9, Zenon DEF HeapInv
<1> QED BY <1>1, <1>2, <1>3, <1>4, <1>5, <1>10, Zenon

\* The end of a failed attachment keeps the invariant.
LEMMA AttachFailInv ==
  ASSUME IInv, CountFacts, NEW t \in Threads, AttachFail(t),
         NEW n, n = target[t]
  PROVE  IInv'
<1>1. pc[t] = "create" /\ Claiming(t) /\ ThreadInv(t) /\ FreeNode(n)
  BY Zenon DEF AttachFail, Claiming, IInv
<1>2. n \in hash /\ sfsnode[n].attaching /\ inserted[t]
  BY <1>1, Zenon DEF ThreadInv, LocalsInv, ClaimInv, Claiming
<1>3. pc'[t] = "idle" /\ new'[t] = NULL /\ ~inserted'[t] /\ vnode' = vnode
  BY Zenon DEF AttachFail, EndAttaching, Forget, IInv, TypeOK
<1>4. \A s \in Threads \ {t} :
        /\ key'[s] = key[s] /\ new'[s] = new[s] /\ inserted'[s] = inserted[s]
        /\ target'[s] = target[s]
        /\ IF s \in Woken(n) THEN pc[s] = "sleep" /\ pc'[s] = "lock"
                             ELSE SameThread(s)
  BY Zenon DEF AttachFail, EndAttaching, Woken, Forget, IInv, TypeOK, SameThread
<1>5. hash' = hash \ {n}
  BY <1>1, Zenon DEF FreeNode
<1>6. /\ UniqueIdentity' /\ LiveNodesExact' /\ HeapInv'
      /\ heap' \in SUBSET Nodes /\ hash' \in SUBSET Nodes
      /\ sfsnode' \in [Nodes -> SfsnodeType] /\ liveNodes' \in Nat
  BY <1>1, <1>2, <1>3, <1>4, FreeNodeInv, Zenon
<1>7. TypeOK'
  <2>1. pc' \in [Threads -> PCs]
    BY Zenon DEF AttachFail, EndAttaching, IInv, TypeOK, PCs
  <2>2. /\ key' \in [Threads -> Keys \cup {NULL}]
        /\ new' \in [Threads -> Nodes \cup {NULL}]
        /\ inserted' \in [Threads -> BOOLEAN]
        /\ target' \in [Threads -> Nodes \cup {NULL}]
        /\ tvnode' \in [Threads -> Vnodes \cup {NULL}]
    BY Zenon DEF AttachFail, Forget, IInv, TypeOK
  <2>3. tvid' \in [Threads -> 0 .. MaxVid]
    <3>1. tvid' = [tvid EXCEPT ![t] = 0]
      BY Zenon DEF AttachFail, Forget
    <3>2. tvid \in [Threads -> 0 .. MaxVid]
      BY Zenon DEF IInv, TypeOK
    <3> QED BY <3>1, <3>2, NodeCacheAssumption
  <2> QED BY <1>3, <1>6, <2>1, <2>2, <2>3, Zenon DEF IInv, TypeOK
<1>8. \A m : m # n => SameNode(m)
  BY <1>1, RemoveFrame, Zenon DEF IInv
<1>9. \A v : SameVnode(v, {}) /\ \A s : SameVnode(v, {s})
  BY <1>3, Zenon DEF SameVnode
<1>10. \A m, v : Linked(m, v) => Linked(m, v)' /\ SameNode(m) /\ m # n
  <2> SUFFICES ASSUME NEW m, NEW v, Linked(m, v)
               PROVE  Linked(m, v)' /\ SameNode(m) /\ m # n
    BY Zenon
  <2>1. m # n
    BY <1>2, Zenon DEF Linked
  <2> QED BY <1>8, <1>9, <2>1, LinkedFrame, Zenon
<1>11. \A s \in Threads : Claiming(s)' => Claiming(s) /\ s # t
  BY <1>3, <1>4, Zenon DEF Claiming, SameThread
<1>12. ClaimsDisjoint'
  BY <1>4, <1>11, Zenon DEF IInv, ClaimsDisjoint
<1>13. ThreadInv(t)'
  BY <1>3, Zenon DEF ThreadInv, LocalsInv, ClaimInv, Claiming, CreatedInv,
              GetvidInv, HaveInv, SleepInv
<1>14. \A v \in Vnodes : vnode'[v].vid \in Int /\ vnode[v].vid <= vnode'[v].vid
                         /\ vnode[v].state = vnode'[v].state
  <2>1. \A v \in Vnodes : vnode[v].vid \in Int
    <3> SUFFICES ASSUME NEW v \in Vnodes PROVE vnode[v].vid \in Int
      BY Zenon
    <3>1. vnode[v] \in VnodeType
      BY Zenon DEF IInv, TypeOK
    <3>2. vnode[v].vid \in 0 .. MaxVid
      BY <3>1, Zenon DEF VnodeType
    <3> QED BY <3>2, NodeCacheAssumption
  <2>2. \A i \in Int : i <= i
    OBVIOUS
  <2>3. vnode' = vnode
    BY <1>3, Zenon
  <2> QED BY <2>1, <2>2, <2>3, Zenon
<1>15. ASSUME NEW s \in Threads \ {t} PROVE ThreadInv(s)'
  <2>1. CASE s \in Woken(n)
    BY <1>4, <2>1, WokenInv, Zenon
  <2>2. CASE s \notin Woken(n)
    <3>1. /\ ThreadInv(s) /\ SameThread(s)
          /\ Claiming(s) \/ pc[s] \in {"sleep", "have"} => target[s] # n
      BY <1>1, <1>4, <2>2, OthersElsewhere, Zenon DEF IInv
    <3>2. GetvidInv(s)'
      BY <1>10, <1>14, <3>1, GetvidFrame, Zenon DEF IInv, ThreadInv
    <3> QED BY <1>8, <1>9, <3>1, <3>2, OtherThread, ZenonT(60)
  <2> QED BY <2>1, <2>2, Zenon
<1>16. ASSUME NEW m \in Nodes PROVE NodeInv(m)'
  <2> SUFFICES ASSUME m # n PROVE NodeInv(m)'
    BY <1>5, Zenon DEF NodeInv
  <2>1. \A s \in Threads : Claiming(s) /\ target[s] = m
                             => Claiming(s)' /\ target'[s] = m
    BY <1>4, Zenon DEF Claiming, SameThread
  <2>2. NodeInv(m) /\ (m \in hash' => m \in hash)
    BY <1>5, Zenon DEF IInv
  <2> QED BY <1>8, <1>9, <2>1, <2>2, NodeFrame, Zenon
<1>17. ASSUME NEW v \in Vnodes PROVE VnodeInv(v)'
  <2>1. \A s \in Threads : pc[s] = "attach" /\ tvnode[s] = v
                             => pc'[s] = "attach" /\ tvnode'[s] = v
    BY <1>1, <1>4, Zenon DEF SameThread
  <2>2. VnodeInv(v) /\ vnode'[v] = vnode[v]
    BY <1>3, Zenon DEF IInv
  <2> QED BY <1>10, <2>1, <2>2, Zenon DEF VnodeInv
<1> QED BY <1>6, <1>7, <1>12, <1>13, <1>15, <1>16, <1>17, Zenon DEF IInv

-----------------------------------------------------------------------------
(* The steps of sysfsnode_find() that only change the thread's own state.  *)

\* The call keeps the invariant.
LEMMA FindInv ==
  ASSUME IInv, NEW t \in Threads, NEW k \in Keys, Find(t, k)
  PROVE  IInv'
<1> USE DEF Find, tableVars
<1>1. TypeOK'
  BY Zenon DEF IInv, TypeOK, PCs
<1>2. HeapInv'
  BY Zenon DEF IInv, HeapInv
<1>3. ~Claiming(t) /\ ~Claiming(t)' /\ \A s \in Threads \ {t} : SameThread(s)
  BY Zenon DEF IInv, TypeOK, Claiming, SameThread
<1>4. pc'[t] = "lock" /\ key'[t] = k /\ new'[t] = new[t]
      /\ inserted'[t] = inserted[t] /\ ThreadInv(t)
  BY Zenon DEF IInv, TypeOK
<1>5. ThreadInv(t)'
  BY <1>4, Zenon DEF ThreadInv, LocalsInv, ClaimInv, Claiming, CreatedInv,
              GetvidInv, HaveInv, SleepInv
<1> QED BY <1>1, <1>2, <1>3, <1>5, QuietStep, Zenon

\* Dropping the mutex to allocate keeps the invariant.
LEMMA ScanMissInv ==
  ASSUME IInv, NEW t \in Threads, ScanMiss(t)
  PROVE  IInv'
<1> USE DEF ScanMiss, tableVars
<1>1. TypeOK'
  BY Zenon DEF IInv, TypeOK, PCs
<1>2. HeapInv'
  BY Zenon DEF IInv, HeapInv
<1>3. ~Claiming(t) /\ ~Claiming(t)' /\ \A s \in Threads \ {t} : SameThread(s)
  BY Zenon DEF IInv, TypeOK, Claiming, SameThread
<1>4. pc[t] = "lock" /\ pc'[t] = "malloc" /\ new'[t] = NULL
      /\ ThreadInv(t)
  BY Zenon DEF IInv, TypeOK
<1>5. ThreadInv(t)'
  BY <1>4, Zenon DEF ThreadInv, LocalsInv, ClaimInv, Claiming, CreatedInv,
              GetvidInv, HaveInv, SleepInv
<1> QED BY <1>1, <1>2, <1>3, <1>5, QuietStep, Zenon

\* The allocation, made without the mutex, keeps the invariant.
LEMMA MallocInv ==
  ASSUME IInv, NEW t \in Threads, Malloc(t)
  PROVE  IInv'
<1> USE DEF Malloc
<1>1. PICK n \in Nodes \ heap : /\ heap' = heap \cup {n}
                                /\ new' = [new EXCEPT ![t] = n]
  BY Zenon
<1>2. TypeOK'
  BY <1>1, Zenon DEF IInv, TypeOK, PCs
<1>3. ~Claiming(t) /\ ~Claiming(t)' /\ \A s \in Threads \ {t} : SameThread(s)
  BY <1>1, Zenon DEF IInv, TypeOK, Claiming, SameThread
<1>4. /\ pc[t] = "malloc" /\ pc'[t] = "lock" /\ new'[t] = n /\ new[t] = NULL
      /\ ThreadInv(t) /\ ~inserted[t] /\ n \notin hash /\ n # NULL
  BY <1>1, NodeCacheAssumption
     DEF IInv, TypeOK, HeapInv, ThreadInv, LocalsInv
<1>5. ThreadInv(t)'
  BY <1>4, Zenon DEF ThreadInv, LocalsInv, ClaimInv, Claiming, CreatedInv,
              GetvidInv, HaveInv, SleepInv
<1>6. HeapInv'
  <2>1. \A s \in Threads : new[s] = n => inserted[s]
    BY Zenon DEF IInv, HeapInv
  <2>2. \A s \in Threads : s # t => new'[s] = new[s]
    BY <1>1, Zenon DEF IInv, TypeOK
  <2>3. HeapInv /\ hash' = hash /\ inserted' = inserted
    BY Zenon DEF IInv
  <2> HIDE DEF Malloc
  <2>4. ASSUME NEW m \in Nodes
        PROVE  m \in heap' <=>
                 \/ m \in hash'
                 \/ \E s \in Threads : new'[s] = m /\ ~inserted'[s]
    <3>1. CASE m = n
      BY <1>1, <1>4, <2>3, <3>1, Zenon
    <3>2. CASE m # n
      <4>1. m \in heap' <=> m \in heap
        BY <1>1, <3>2, Zenon
      <4>2. \A s \in Threads : new'[s] = m <=> new[s] = m
        BY <1>4, <2>2, <3>2, NodeCacheAssumption, Zenon
      <4> QED BY <2>3, <4>1, <4>2, Zenon DEF HeapInv
    <3> QED BY <3>1, <3>2, Zenon
  <2>5. \A s \in Threads : ~inserted'[s] => new'[s] \notin hash'
    BY <1>4, <2>2, <2>3, Zenon DEF HeapInv
  <2>6. \A r, s \in Threads : r # s /\ new'[r] = new'[s] /\ ~inserted'[r]
                                /\ ~inserted'[s] => new'[r] = NULL
    BY <1>4, <2>1, <2>2, <2>3 DEF HeapInv
  <2> QED BY <2>4, <2>5, <2>6, Zenon DEF HeapInv
<1> QED BY <1>2, <1>3, <1>5, <1>6, QuietStep, Zenon

\* Returning ENOMEM keeps the invariant.
LEMMA MallocFailInv ==
  ASSUME IInv, NEW t \in Threads, MallocFail(t)
  PROVE  IInv'
<1> USE DEF MallocFail, Forget, tableVars
<1>1. TypeOK'
  BY NodeCacheAssumption DEF IInv, TypeOK, PCs
<1>2. ~Claiming(t) /\ ~Claiming(t)' /\ \A s \in Threads \ {t} : SameThread(s)
  BY Zenon DEF IInv, TypeOK, Claiming, SameThread
<1>3. /\ pc[t] = "malloc" /\ pc'[t] = "idle" /\ new'[t] = NULL /\ ~inserted'[t]
      /\ new[t] = NULL /\ NULL \notin hash
  BY NodeCacheAssumption, Zenon DEF IInv, TypeOK, ThreadInv, LocalsInv
<1>4. ThreadInv(t)'
  BY <1>3, Zenon DEF ThreadInv, LocalsInv, ClaimInv, Claiming, CreatedInv,
              GetvidInv, HaveInv, SleepInv
<1>5. HeapInv'
  BY <1>2, <1>3, NodeCacheAssumption DEF IInv, HeapInv, SameThread
<1> QED BY <1>1, <1>2, <1>4, <1>5, QuietStep, Zenon

\* Reading the vid of the entry's vnode keeps the invariant: the entry and
\* the vnode are linked at that moment.
LEMMA ScanVnodeInv ==
  ASSUME IInv, NEW t \in Threads, ScanVnode(t)
  PROVE  IInv'
<1>1. PICK n \in Nodes :
        /\ IsTarget(t, n) /\ ~Contents(t, n).attaching
        /\ Contents(t, n).vp # NULL
        /\ target' = [target EXCEPT ![t] = n]
        /\ tvnode' = [tvnode EXCEPT ![t] = Contents(t, n).vp]
        /\ tvid' = [tvid EXCEPT ![t] = vnode[Contents(t, n).vp].vid]
  BY ZenonT(60) DEF ScanVnode
<1>2. n \in Matches(t)
  BY <1>1, Zenon DEF IsTarget, Contents
<1>3. /\ n \in hash /\ sfsnode[n].key = key[t] /\ Contents(t, n) = sfsnode[n]
      /\ Linked(n, sfsnode[n].vp)
  BY <1>1, <1>2, Zenon DEF Matches, Contents, IInv, NodeInv
<1>4. sfsnode[n].vp \in Vnodes /\ vnode[sfsnode[n].vp].vid \in 0 .. MaxVid
  BY <1>3, Zenon DEF Linked, IInv, TypeOK, VnodeType
<1>5. TypeOK'
  BY <1>1, <1>3, <1>4, Zenon DEF ScanVnode, tableVars, IInv, TypeOK, PCs
<1>6. HeapInv'
  BY Zenon DEF ScanVnode, tableVars, IInv, HeapInv
<1>7. ~Claiming(t) /\ ~Claiming(t)' /\ \A s \in Threads \ {t} : SameThread(s)
  BY <1>1, Zenon DEF ScanVnode, IInv, TypeOK, Claiming, SameThread
<1>8. /\ pc[t] = "lock" /\ pc'[t] = "getvid" /\ target'[t] = n
      /\ tvnode'[t] = sfsnode[n].vp /\ tvid'[t] = vnode[sfsnode[n].vp].vid
      /\ key'[t] = key[t] /\ new'[t] = new[t] /\ inserted'[t] = inserted[t]
      /\ sfsnode' = sfsnode /\ vnode' = vnode /\ hash' = hash
  BY <1>1, <1>3, Zenon DEF ScanVnode, tableVars, IInv, TypeOK
<1>9. LocalsInv(t) /\ (~inserted[t] => new[t] # n)
  BY <1>3, Zenon DEF IInv, ThreadInv, HeapInv
<1>10. LocalsInv(t)'
  BY <1>8, <1>9, Zenon DEF LocalsInv
<1>11. Linked(n, sfsnode[n].vp)'
  BY <1>3, <1>8, Zenon DEF Linked
<1>12. GetvidInv(t)'
  <2>1. tvid'[t] <= vnode'[tvnode'[t]].vid
    <3>1. \A i \in 0 .. MaxVid : i <= i
      BY NodeCacheAssumption
    <3> QED BY <1>4, <1>8, <3>1, Zenon
  <2> QED BY <1>3, <1>4, <1>8, <1>11, <2>1, Zenon DEF GetvidInv
<1>13. ThreadInv(t)'
  BY <1>8, <1>10, <1>12, Zenon DEF ThreadInv, ClaimInv, Claiming, CreatedInv,
                            HaveInv, SleepInv
<1> QED BY <1>5, <1>6, <1>7, <1>13, QuietStep, Zenon DEF ScanVnode, tableVars

\* A failed vnode_getwithvid() keeps the invariant.
LEMMA GetWithVidFailInv ==
  ASSUME IInv, NEW t \in Threads, GetWithVidFail(t)
  PROVE  IInv'
<1> USE DEF GetWithVidFail, tableVars
<1>1. TypeOK'
  BY Zenon DEF IInv, TypeOK, PCs
<1>2. HeapInv'
  BY Zenon DEF IInv, HeapInv
<1>3. ~Claiming(t) /\ ~Claiming(t)' /\ \A s \in Threads \ {t} : SameThread(s)
  BY Zenon DEF IInv, TypeOK, Claiming, SameThread
<1>4. /\ pc[t] = "getvid" /\ pc'[t] = "retry" /\ key'[t] = key[t]
      /\ inserted'[t] = inserted[t] /\ ThreadInv(t)
  BY Zenon DEF IInv, TypeOK
<1>5. ThreadInv(t)'
  BY <1>4, Zenon DEF ThreadInv, LocalsInv, ClaimInv, Claiming, CreatedInv,
              GetvidInv, HaveInv, SleepInv
<1> QED BY <1>1, <1>2, <1>3, <1>5, QuietStep, Zenon

\* A thread that frees the node it has not inserted, and forgets it, keeps the
\* accounting of the heap.
LEMMA FreeUnused ==
  ASSUME IInv, NEW t \in Threads, ~inserted[t], HeapInv,
         UNCHANGED <<hash, inserted>>, heap' = heap \ {new[t]},
         new' = [new EXCEPT ![t] = NULL]
  PROVE  HeapInv'
<1>1. new'[t] = NULL /\ \A s \in Threads : s # t => new'[s] = new[s]
  BY Zenon DEF IInv, TypeOK
<1>2. NULL \notin hash /\ NULL \notin Nodes
  BY NodeCacheAssumption, Zenon DEF IInv, TypeOK
<1>3. ASSUME NEW m \in Nodes
      PROVE  m \in heap' <=> \/ m \in hash'
                             \/ \E s \in Threads : new'[s] = m /\ ~inserted'[s]
  <2>1. CASE m = new[t]
    <3>1. m \notin heap' /\ m \notin hash'
      BY <2>1, Zenon DEF HeapInv
    <3>2. ASSUME NEW s \in Threads, new'[s] = m, ~inserted'[s] PROVE FALSE
      BY <1>1, <1>2, <2>1, <3>2 DEF HeapInv
    <3> QED BY <3>1, <3>2, Zenon
  <2>2. CASE m # new[t]
    BY <1>1, <1>2, <2>2, Zenon DEF HeapInv
  <2> QED BY <2>1, <2>2, Zenon
<1>4. \A s \in Threads : ~inserted'[s] => new'[s] \notin hash'
  BY <1>1, <1>2 DEF HeapInv
<1>5. \A r, s \in Threads : r # s /\ new'[r] = new'[s] /\ ~inserted'[r]
                              /\ ~inserted'[s] => new'[r] = NULL
  BY <1>1 DEF HeapInv
<1> QED BY <1>3, <1>4, <1>5, Zenon DEF HeapInv

\* Starting again after that failure keeps the invariant.
LEMMA RetryInv ==
  ASSUME IInv, NEW t \in Threads, Retry(t)
  PROVE  IInv'
<1>1. pc[t] = "retry" /\ ~inserted[t] /\ ThreadInv(t) /\ HeapInv
  BY Zenon DEF Retry, IInv, ThreadInv, LocalsInv
<1>2. heap' = heap \ {new[t]} /\ new' = [new EXCEPT ![t] = NULL]
  BY <1>1, Zenon DEF Retry
<1>3. TypeOK'
  BY <1>2, NodeCacheAssumption DEF Retry, IInv, TypeOK, PCs
<1>4. HeapInv'
  BY <1>1, <1>2, FreeUnused, ZenonT(60) DEF Retry
<1>5. ~Claiming(t) /\ ~Claiming(t)' /\ \A s \in Threads \ {t} : SameThread(s)
  BY <1>2, Zenon DEF Retry, IInv, TypeOK, Claiming, SameThread
<1>6. pc'[t] = "lock" /\ key'[t] = key[t] /\ inserted'[t] = inserted[t]
  BY Zenon DEF Retry, IInv, TypeOK
<1>7. ThreadInv(t)'
  BY <1>1, <1>6, Zenon DEF ThreadInv, LocalsInv, ClaimInv, Claiming, CreatedInv,
                    GetvidInv, HaveInv, SleepInv
<1> QED BY <1>3, <1>4, <1>5, <1>7, QuietStep, Zenon DEF Retry

\* A successful vnode_getwithvid() keeps the invariant: the vid has not changed
\* since the entry was read, so the entry is still linked to the vnode.
LEMMA GetWithVidInv ==
  ASSUME IInv, NEW t \in Threads, GetWithVid(t)
  PROVE  IInv'
<1> DEFINE v == tvnode[t]
<1>1. /\ pc[t] = "getvid" /\ vnode[v].state = "live" /\ vnode[v].vid = tvid[t]
      /\ ThreadInv(t) /\ HeapInv
  BY Zenon DEF GetWithVid, IInv
<1>2. /\ v \in Vnodes /\ Linked(target[t], v) /\ sfsnode[target[t]].key = key[t]
      /\ ~inserted[t] /\ new[t] # target[t]
  BY <1>1, Zenon DEF ThreadInv, GetvidInv, LocalsInv
<1>3. heap' = heap \ {new[t]} /\ new' = [new EXCEPT ![t] = NULL]
  BY <1>2, Zenon DEF GetWithVid, Unused
<1>4. HeapInv'
  BY <1>1, <1>2, <1>3, FreeUnused, ZenonT(60) DEF GetWithVid
<1>5. TypeOK'
  <2>1. vnode' \in [Vnodes -> VnodeType]
    <3>1. vnode \in [Vnodes -> VnodeType]
      BY Zenon DEF IInv, TypeOK
    <3>2. vnode[v] \in VnodeType
      BY <1>2, <3>1, Zenon
    <3>3. [vnode[v] EXCEPT !.iocount = @ \cup {t}] \in VnodeType
      BY <3>2, Zenon DEF VnodeType
    <3>4. vnode' = [vnode EXCEPT ![v] = [vnode[v] EXCEPT !.iocount = @ \cup {t}]]
      BY <1>2, <3>1, Zenon DEF GetWithVid
    <3> HIDE DEF v
    <3> QED BY <3>1, <3>3, <3>4, Zenon
  <2> QED BY <1>3, <2>1, Zenon DEF GetWithVid, IInv, TypeOK, PCs
<1>6. ~Claiming(t) /\ ~Claiming(t)' /\ \A s \in Threads \ {t} : SameThread(s)
  BY <1>3, Zenon DEF GetWithVid, IInv, TypeOK, Claiming, SameThread
<1>7. /\ \A w \in Vnodes : w # v => vnode'[w] = vnode[w]
      /\ vnode'[v].state = vnode[v].state /\ vnode'[v].vid = vnode[v].vid
      /\ vnode'[v].fsnode = vnode[v].fsnode
      /\ vnode'[v].fsref = vnode[v].fsref
      /\ vnode'[v].iocount = vnode[v].iocount \cup {t}
  BY <1>2, Zenon DEF GetWithVid, IInv, TypeOK, VnodeType
<1>8. \A w \in Vnodes : SameVnode(w, Threads \ {t})
  BY <1>7, Zenon DEF SameVnode
<1>9. \A w \in Vnodes : vnode[w].state # "live" => vnode'[w] = vnode[w]
  BY <1>1, <1>7, Zenon
<1>10. /\ pc'[t] = "have" /\ key'[t] = key[t] /\ target'[t] = target[t]
       /\ tvnode'[t] = v /\ new'[t] = NULL /\ inserted'[t] = inserted[t]
       /\ hash' = hash /\ sfsnode' = sfsnode /\ liveNodes' = liveNodes
  BY <1>3, Zenon DEF GetWithVid, IInv, TypeOK
<1>11. Linked(target[t], v)'
  BY <1>2, <1>7, <1>10, ZenonT(60) DEF Linked
<1>12. HaveInv(t)'
  BY <1>1, <1>2, <1>7, <1>10, <1>11, Zenon DEF HaveInv
<1>13. ThreadInv(t)'
  BY <1>1, <1>10, <1>12, Zenon DEF ThreadInv, LocalsInv, ClaimInv, Claiming,
                            CreatedInv, GetvidInv, SleepInv
<1>14. \A n \in hash : SameNode(n)
  BY <1>10, Zenon DEF SameNode
<1> HIDE DEF v
<1> QED BY <1>4, <1>5, <1>6, <1>8, <1>9, <1>10, <1>13, <1>14, LocalStep, Zenon

\* The caller's vnode_put() keeps the invariant.
LEMMA PutInv ==
  ASSUME IInv, NEW t \in Threads, Put(t)
  PROVE  IInv'
<1> DEFINE v == tvnode[t]
<1>1. /\ pc[t] = "have" /\ vnode[v].state = "live" /\ v \in Vnodes
      /\ new[t] = NULL /\ HeapInv /\ NULL \notin hash
  BY NodeCacheAssumption, Zenon DEF Put, IInv, TypeOK, ThreadInv, HaveInv, LocalsInv,
                             Linked
<1>2. TypeOK'
  <2>1. vnode' \in [Vnodes -> VnodeType]
    <3>1. vnode \in [Vnodes -> VnodeType] /\ vnode[v] \in VnodeType
      BY <1>1, Zenon DEF IInv, TypeOK
    <3>2. [vnode[v] EXCEPT !.iocount = @ \ {t}] \in VnodeType
      BY <3>1, Zenon DEF VnodeType
    <3>3. vnode' = [vnode EXCEPT ![v] = [vnode[v] EXCEPT !.iocount = @ \ {t}]]
      BY <3>1, Zenon DEF Put
    <3> QED BY <1>1, <3>1, <3>2, <3>3, Zenon
  <2> QED BY <2>1, NodeCacheAssumption
          DEF Put, Forget, tableVars, IInv, TypeOK, PCs
<1>3. ~Claiming(t) /\ ~Claiming(t)' /\ \A s \in Threads \ {t} : SameThread(s)
  BY Zenon DEF Put, Forget, IInv, TypeOK, Claiming, SameThread
<1>4. /\ \A w \in Vnodes : w # v => vnode'[w] = vnode[w]
      /\ vnode'[v].state = vnode[v].state /\ vnode'[v].vid = vnode[v].vid
      /\ vnode'[v].fsnode = vnode[v].fsnode
      /\ vnode'[v].fsref = vnode[v].fsref
      /\ vnode'[v].iocount = vnode[v].iocount \ {t}
  BY <1>1 DEF Put, IInv, TypeOK, VnodeType
<1>5. \A w \in Vnodes : SameVnode(w, Threads \ {t})
  BY <1>4, Zenon DEF SameVnode
<1>6. \A w \in Vnodes : vnode[w].state # "live" => vnode'[w] = vnode[w]
  BY <1>1, <1>4, Zenon
<1>7. pc'[t] = "idle" /\ new'[t] = NULL /\ ~inserted'[t]
  BY Zenon DEF Put, Forget, IInv, TypeOK
<1>8. ThreadInv(t)'
  BY <1>7, Zenon DEF ThreadInv, LocalsInv, ClaimInv, Claiming, CreatedInv,
              GetvidInv, HaveInv, SleepInv
<1>9. HeapInv'
  BY <1>1, <1>3, <1>7, NodeCacheAssumption
     DEF Put, tableVars, HeapInv, SameThread
<1>10. UNCHANGED <<hash, sfsnode, liveNodes>>
  BY Zenon DEF Put, tableVars
<1>11. \A n \in hash : SameNode(n)
  BY <1>10, Zenon DEF SameNode
<1> HIDE DEF v
<1> QED BY <1>2, <1>3, <1>5, <1>6, <1>8, <1>9, <1>10, <1>11, LocalStep, Zenon

\* Going to sleep until another thread's attachment ends keeps the invariant.
LEMMA ScanSleepInv ==
  ASSUME IInv, NEW t \in Threads, ScanSleep(t)
  PROVE  IInv'
<1>1. PICK n \in Nodes :
        /\ IsTarget(t, n) /\ Contents(t, n).attaching
        /\ sfsnode' = [sfsnode EXCEPT ![n].waiting = TRUE]
        /\ target' = [target EXCEPT ![t] = n]
  BY ZenonT(60) DEF ScanSleep
<1>2. n \in hash /\ sfsnode[n].key = key[t] /\ sfsnode[n].attaching
  BY <1>1, Zenon DEF IsTarget, Contents, Matches
<1>3. TypeOK'
  <2>1. sfsnode' \in [Nodes -> SfsnodeType]
    <3>1. sfsnode \in [Nodes -> SfsnodeType]
      BY Zenon DEF IInv, TypeOK
    <3>2. sfsnode[n] \in SfsnodeType
      BY <3>1, Zenon
    <3>3. [sfsnode[n] EXCEPT !.waiting = TRUE] \in SfsnodeType
      BY <3>2, Zenon DEF SfsnodeType
    <3>4. sfsnode' = [sfsnode EXCEPT ![n] = [sfsnode[n] EXCEPT !.waiting = TRUE]]
      BY <1>1, <3>1, Zenon
    <3> QED BY <3>1, <3>3, <3>4, Zenon
  <2> QED BY <1>1, <2>1, Zenon DEF ScanSleep, IInv, TypeOK, PCs
<1>4. HeapInv'
  BY Zenon DEF ScanSleep, IInv, HeapInv
<1>5. ~Claiming(t) /\ ~Claiming(t)' /\ \A s \in Threads \ {t} : SameThread(s)
  BY <1>1, Zenon DEF ScanSleep, IInv, TypeOK, Claiming, SameThread
<1>6. /\ \A m \in Nodes : m # n => sfsnode'[m] = sfsnode[m]
      /\ sfsnode'[n].key = sfsnode[n].key /\ sfsnode'[n].vp = sfsnode[n].vp
      /\ sfsnode'[n].attaching = sfsnode[n].attaching /\ sfsnode'[n].waiting
  BY <1>1, Zenon DEF IInv, TypeOK, SfsnodeType
<1>7. hash' = hash /\ hash \in SUBSET Nodes /\ liveNodes' = liveNodes
      /\ vnode' = vnode
  BY Zenon DEF ScanSleep, IInv, TypeOK
<1>8. \A m \in hash : SameNode(m)
  BY <1>6, <1>7, Zenon DEF SameNode
<1>9. \A v \in Vnodes : SameVnode(v, Threads \ {t})
  BY <1>7, Zenon DEF SameVnode
<1>10. /\ pc[t] = "lock" /\ pc'[t] = "sleep" /\ key'[t] = key[t]
       /\ target'[t] = n /\ inserted'[t] = inserted[t] /\ LocalsInv(t)
  BY <1>1, Zenon DEF ScanSleep, IInv, TypeOK, ThreadInv
<1>11. SleepInv(t)'
  BY <1>2, <1>6, <1>7, <1>10, Zenon DEF SleepInv
<1>12. ThreadInv(t)'
  BY <1>10, <1>11, Zenon DEF ThreadInv, LocalsInv, ClaimInv, Claiming, CreatedInv,
                      GetvidInv, HaveInv
<1> QED BY <1>3, <1>4, <1>5, <1>7, <1>8, <1>9, <1>12, LocalStep, Zenon
=============================================================================

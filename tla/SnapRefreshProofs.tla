-------------------------- MODULE SnapRefreshProofs --------------------------
(***************************************************************************)
(* Proofs about the registry snapshot, for any number of mounting threads, *)
(* vnops, thread_call threads and snapshots, any registry and any sizes:   *)
(* IInv of SnapRefresh is inductive and implies every safety property of   *)
(* that module.                                                            *)
(***************************************************************************)
EXTENDS SnapRefresh, FiniteSetTheorems, TLAPS

-----------------------------------------------------------------------------
(* Minima, sizes and the parts of the state that a step leaves alone.      *)

\* Min of FiniteSetsExt for two integers.
LEMMA MinOfTwo ==
  ASSUME NEW x \in Int, NEW y \in Int
  PROVE  Min({x, y}) = IF x <= y THEN x ELSE y
<1>1. \E m \in {x, y} : \A z \in {x, y} : m <= z
  BY SMT
<1>2. Min({x, y}) \in {x, y} /\ \A z \in {x, y} : Min({x, y}) <= z
  BY <1>1, Zenon DEF Min
<1> QED BY <1>2, SMT

\* The arrays of a new snapshot have room for the root and are not larger than
\* SYSFS_IOKIT_MAXNODES.
LEMMA CapacityBound ==
  ASSUME TypeOK, NEW counted \in {0, size}
  PROVE  Capacity(counted) \in 1 .. MaxNodes
<1> DEFINE m == IF lastCount # 0 THEN lastCount ELSE Min({counted, MaxNodes})
           c == m + ((m \div 4) + Slack) + 1
<1>1. counted \in Nat /\ MaxNodes \in Nat \ {0} /\ Slack \in Nat /\ lastCount \in Nat
  BY SnapRefreshAssumption DEF TypeOK, RegistryType, GlobalType
<1>2. m \in Nat
  BY <1>1, MinOfTwo
<1>3. c \in Nat \ {0}
  <2> HIDE DEF m
  <2>1. m \div 4 \in Nat
    BY <1>2
  <2> QED BY <1>1, <1>2, <2>1
<1>4. Capacity(counted) = Min({c, MaxNodes})
  BY Zenon DEF Capacity
<1> HIDE DEF c
<1> QED BY <1>1, <1>3, <1>4, MinOfTwo

\* A walk never counts more nodes than the arrays hold.
LEMMA CountBound ==
  ASSUME TypeOK, NEW a \in Actors
  PROVE  /\ Min({size + 1, cap[a]}) \in 0 .. MaxNodes
         /\ Min({cap[a] * 2, MaxNodes}) \in 0 .. MaxNodes
<1>1. size \in Nat /\ cap[a] \in 0 .. MaxNodes /\ MaxNodes \in Nat
  BY SnapRefreshAssumption, Zenon DEF TypeOK, RegistryType, ThreadType
<1>2. /\ Min({size + 1, cap[a]}) = IF size + 1 <= cap[a] THEN size + 1 ELSE cap[a]
      /\ Min({cap[a] * 2, MaxNodes})
           = IF cap[a] * 2 <= MaxNodes THEN cap[a] * 2 ELSE MaxNodes
  BY <1>1, MinOfTwo
<1> QED BY <1>1, <1>2

\* Who holds a snapshot.
LEMMA HeldBy ==
  \A s : s \in Held <=> /\ s # NULL
                        /\ s = snapshot \/ s = told \/ \E a \in Actors : s = mine[a]
BY Zenon DEF Held

LEMMA HeldByNext ==
  \A s : s \in Held' <=> /\ s # NULL
                         /\ \/ s = snapshot' \/ s = told'
                            \/ \E a \in Actors : s = mine'[a]
BY Zenon DEF Held

\* The accounting is about these variables and no others.
LEMMA AccountedSame ==
  ASSUME SnapshotsAccounted, UNCHANGED <<snapshot, told, mine, heap, snapBytes>>
  PROVE  SnapshotsAccounted'
BY Zenon DEF SnapshotsAccounted, Held

\* So are the generations.
LEMMA AccurateSame ==
  ASSUME SnapshotAccurate, UNCHANGED <<snapshot, snapGen, gen, info>>
  PROVE  SnapshotAccurate'
BY Zenon DEF SnapshotAccurate

\* A group of variables stays as it is if every variable of the group does.
LEMMA Kept ==
  /\ UNCHANGED registryVars => gen' = gen /\ size' = size
  /\ UNCHANGED globalVars =>
       /\ age' = age /\ snapshot' = snapshot /\ snapGen' = snapGen
       /\ building' = building /\ pending' = pending /\ lastCount' = lastCount
  /\ UNCHANGED kextVars =>
       /\ lock' = lock /\ call' = call /\ queued' = queued /\ kext' = kext
       /\ tpc' = tpc /\ told' = told /\ mounted' = mounted
  /\ UNCHANGED threadVars =>
       pc' = pc /\ sample' = sample /\ mine' = mine /\ cap' = cap
  /\ UNCHANGED memVars =>
       info' = info /\ heap' = heap /\ snapBytes' = snapBytes /\ leaked' = leaked
BY Zenon DEF registryVars, globalVars, kextVars, threadVars, memVars

\* A group of variables that a step leaves alone keeps its types.
LEMMA TypesSame ==
  ASSUME TypeOK
  PROVE  /\ UNCHANGED registryVars => RegistryType'
         /\ UNCHANGED globalVars => GlobalType'
         /\ UNCHANGED kextVars => KextType'
         /\ UNCHANGED threadVars => ThreadType'
         /\ UNCHANGED memVars => MemType'
<1>1. UNCHANGED registryVars => RegistryType'
  BY Zenon DEF TypeOK, RegistryType, registryVars
<1>2. UNCHANGED globalVars => GlobalType'
  BY Zenon DEF TypeOK, GlobalType, globalVars
<1>3. UNCHANGED kextVars => KextType'
  BY Zenon DEF TypeOK, KextType, kextVars
<1>4. UNCHANGED threadVars => ThreadType'
  BY Zenon DEF TypeOK, ThreadType, threadVars
<1>5. UNCHANGED memVars => MemType'
  BY Zenon DEF TypeOK, MemType, memVars
<1> QED BY <1>1, <1>2, <1>3, <1>4, <1>5, Zenon

\* A thread that does not move keeps its part of the invariant, unless the kext,
\* the registry, or the snapshot it works on changes.
LEMMA ActorSame ==
  ASSUME NEW b \in Actors, ActorInv(b),
         pc'[b] = pc[b], mine'[b] = mine[b], sample'[b] = sample[b],
         lock' = lock, kext' = kext, gen' = gen,
         pc[b] \in {"build", "walk", "publish"} => snapGen' = snapGen,
         mine[b] # NULL => info'[mine[b]] = info[mine[b]]
  PROVE  ActorInv(b)'
<1>1. Owner(b)' <=> Owner(b)
  BY Zenon DEF Owner
<1> QED BY <1>1, Zenon DEF ActorInv

\* A change of the registry leaves every thread's part true: a sample of the
\* generation before it is an old one.
LEMMA ActorAfterChange ==
  ASSUME NEW b \in Actors, ActorInv(b), gen \in Nat, sample[b] \in Nat,
         gen' = gen + 1, pc' = pc, mine' = mine, sample' = sample,
         lock' = lock, kext' = kext, snapGen' = snapGen, info' = info
  PROVE  ActorInv(b)'
<1>1. Owner(b)' <=> Owner(b)
  BY Zenon DEF Owner
<1>2. sample'[b] <= gen' /\ sample'[b] # gen'
  BY DEF ActorInv
<1> QED BY <1>1, <1>2, Zenon DEF ActorInv

\* What is asked of a caller that neither builds nor holds a new snapshot.
LEMMA ActorQuiet ==
  ASSUME NEW c \in Actors, c \notin Workers, pc'[c] \in {"idle", "ensure"},
         lock', mine'[c] = NULL, sample'[c] <= gen'
  PROVE  ActorInv(c)'
<1>1. ~Owner(c)'
  BY Zenon DEF Owner, Building
<1> QED BY <1>1, Zenon DEF ActorInv

\* The stages of the kext's life stay as they are while no caller wakes up.
LEMMA KextKept ==
  ASSUME KextInv, UNCHANGED globalVars, UNCHANGED kextVars,
         \A c \in Callers : pc[c] = "idle" => pc'[c] = "idle"
  PROVE  KextInv'
BY Kept DEF KextInv

\* What a step of thread a means for who has the right to build.
LEMMA OwnersAfter ==
  ASSUME IInv, NEW a \in Actors, NEW w \in PCs, pc' = [pc EXCEPT ![a] = w]
  PROVE  /\ pc'[a] = w
         /\ \A b \in Actors \ {a} : pc'[b] = pc[b]
         /\ \A b \in Actors \ {a} : Owner(b)' <=> Owner(b)
         /\ Owner(a)' <=> w \in Building \cup {"enter"}
BY Zenon DEF IInv, TypeOK, ThreadType, Owner

\* A caller that is inside the kext keeps it from being stopped.
LEMMA CallerInside ==
  ASSUME IInv, NEW c \in Callers
  PROVE  /\ c \in Actors /\ c \notin Workers
         /\ pc[c] # "idle" => kext \in {"added", "locked", "loaded"} /\ tpc = "none"
         /\ mounted => kext \in {"added", "locked", "loaded"} /\ tpc = "none"
BY SnapRefreshAssumption, Zenon DEF IInv, TypeOK, KextType, KextInv, Actors

-----------------------------------------------------------------------------
(* Steps that make, fill, publish and free snapshots.                      *)

\* The number of allocated snapshots after one is allocated or freed; freeing
\* NULL frees none.
LEMMA HeapSize ==
  ASSUME IInv
  PROVE  /\ \A s \in Snaps \ heap : Cardinality(heap \cup {s}) = snapBytes + 1
         /\ \A s \in heap \cup {NULL} :
              /\ Cardinality(heap \ {s}) = snapBytes - Cardinality({s} \ {NULL})
              /\ Cardinality(heap \ {s}) \in Nat
<1>1. heap \subseteq Snaps /\ NULL \notin Snaps /\ snapBytes = Cardinality(heap)
  BY SnapRefreshAssumption, Zenon DEF IInv, TypeOK, MemType, SnapshotsAccounted
<1>2. IsFiniteSet(heap)
  BY <1>1, SnapRefreshAssumption, FS_Subset, Zenon
<1>3. snapBytes \in Nat
  BY <1>1, <1>2, FS_CardinalityType, Zenon
<1>4. ASSUME NEW s \in Snaps \ heap PROVE Cardinality(heap \cup {s}) = snapBytes + 1
  BY <1>1, <1>2, FS_AddElement, Zenon
<1>5. Cardinality(heap \ {NULL}) = snapBytes - Cardinality({NULL} \ {NULL})
  <2>1. heap \ {NULL} = heap /\ {NULL} \ {NULL} = {}
    BY <1>1, Zenon
  <2> QED BY <1>1, <1>3, <2>1, FS_EmptySet
<1>6. ASSUME NEW s \in heap
      PROVE  Cardinality(heap \ {s}) = snapBytes - Cardinality({s} \ {NULL})
  <2>1. {s} \ {NULL} = {s}
    BY <1>1, Zenon
  <2>2. Cardinality(heap \ {s}) = Cardinality(heap) - 1
    BY <1>2, FS_RemoveElement, Zenon
  <2>3. Cardinality({s}) = 1
    BY FS_Singleton, Zenon
  <2> QED BY <1>1, <2>1, <2>2, <2>3, Zenon
<1>7. \A s : IsFiniteSet(heap \ {s})
  BY <1>2, FS_Subset, Zenon
<1> QED BY <1>4, <1>5, <1>6, <1>7, FS_CardinalityType, Zenon

LEMMA BuildStartInv ==
  ASSUME IInv, NEW a \in Actors, BuildStart(a)
  PROVE  IInv'
<1> DEFINE new == [of |-> gen, count |-> 0, full |-> FALSE, tree |-> FALSE]
<1>1. PICK s \in Snaps \ heap :
         /\ mine' = [mine EXCEPT ![a] = s]
         /\ heap' = heap \cup {s}
         /\ info' = [info EXCEPT ![s] = new]
  BY Zenon DEF BuildStart
<1>2. /\ pc[a] = "build" /\ pc' = [pc EXCEPT ![a] = "walk"]
      /\ snapBytes' = snapBytes + 1
      /\ UNCHANGED <<sample, leaked>> /\ UNCHANGED registryVars
      /\ UNCHANGED globalVars /\ UNCHANGED kextVars
  BY Zenon DEF BuildStart, Goto
<1>3. /\ "walk" \in PCs /\ pc'[a] = "walk"
      /\ \A b \in Actors \ {a} : pc'[b] = pc[b]
      /\ \A b \in Actors : Owner(b)' <=> Owner(b)
  BY <1>2, OwnersAfter, Zenon DEF Owner, Building, PCs
<1>4. TypeOK'
  <2>0. PICK counted \in {0, size} : cap' = [cap EXCEPT ![a] = Capacity(counted)]
    BY Zenon DEF BuildStart
  <2>1. Capacity(counted) \in 0 .. MaxNodes
    BY CapacityBound, SnapRefreshAssumption DEF IInv
  <2>2. cap' \in [Actors -> 0 .. MaxNodes] /\ pc' \in [Actors -> PCs]
    BY <1>2, <1>3, <2>0, <2>1, Zenon DEF IInv, TypeOK, ThreadType
  <2>3. mine' \in [Actors -> Snaps \cup {NULL}] /\ heap' \subseteq Snaps
    BY <1>1, Zenon DEF IInv, TypeOK, ThreadType, MemType
  <2>4. new \in Contents
    BY SnapRefreshAssumption DEF IInv, TypeOK, RegistryType, Contents
  <2>5. info' \in [Snaps -> Contents]
    <3> HIDE DEF new
    <3> QED BY <1>1, <2>4, Zenon DEF IInv, TypeOK, MemType
  <2>6. snapBytes' \in Nat
    BY <1>2 DEF IInv, TypeOK, MemType
  <2>7. ThreadType' /\ MemType'
    BY <1>2, <2>2, <2>3, <2>5, <2>6, Zenon DEF IInv, TypeOK, ThreadType, MemType
  <2> QED BY <1>2, <2>7, TypesSame, Zenon DEF IInv, TypeOK
<1>5. OwnerInv'
  BY <1>2, <1>3, Kept DEF IInv, OwnerInv, Recent
<1>6. KextInv'
  BY <1>2, <1>3, Kept DEF IInv, KextInv
<1>7. /\ s # NULL /\ s # snapshot /\ s # told /\ \A b \in Actors : s # mine[b]
      /\ mine[a] = NULL /\ mine'[a] = s
      /\ \A b \in Actors \ {a} : mine'[b] = mine[b]
      /\ info'[s].of = gen /\ \A t \in Snaps \ {s} : info'[t] = info[t]
  <2>1. s # NULL /\ s # snapshot /\ s # told /\ \A b \in Actors : s # mine[b]
    BY HeldBy, SnapRefreshAssumption, Zenon DEF IInv, SnapshotsAccounted
  <2>2. mine[a] = NULL
    BY <1>2, Zenon DEF IInv, ActorInv
  <2>3. mine'[a] = s /\ \A b \in Actors \ {a} : mine'[b] = mine[b]
    BY <1>1, Zenon DEF IInv, TypeOK, ThreadType
  <2>4. info'[s].of = gen /\ \A t \in Snaps \ {s} : info'[t] = info[t]
    BY <1>1, Zenon DEF IInv, TypeOK, MemType
  <2> QED BY <2>1, <2>2, <2>3, <2>4, Zenon
<1>8. ASSUME NEW b \in Actors PROVE ActorInv(b)'
  <2>1. CASE b = a
    BY <1>2, <1>3, <1>7, <2>1, Zenon
       DEF IInv, ActorInv, Owner, Building, registryVars, globalVars, kextVars
  <2>2. CASE b # a
    <3>1. mine[b] \in Snaps \cup {NULL}
      BY Zenon DEF IInv, TypeOK, ThreadType
    <3>2. gen' = gen /\ snapGen' = snapGen /\ lock' = lock /\ kext' = kext
          /\ sample' = sample
      BY <1>2, Kept, Zenon
    <3>3. mine[b] # NULL => info'[mine[b]] = info[mine[b]]
      BY <1>7, <3>1, Zenon
    <3> QED BY <1>3, <1>7, <2>2, <3>2, <3>3, ActorSame, Zenon DEF IInv
  <2> QED BY <2>1, <2>2, Zenon
<1>9. (snapGen <= gen)' /\ SnapshotAccurate'
  <2>1. snapshot \in Snaps \cup {NULL}
    BY Zenon DEF IInv, TypeOK, GlobalType
  <2> QED BY <1>2, <1>7, <2>1, Zenon
             DEF IInv, SnapshotAccurate, registryVars, globalVars
<1>10. SnapshotsAccounted'
  <2>1. heap = Held /\ snapshot' = snapshot /\ told' = told
    BY <1>2, Kept, Zenon DEF IInv, SnapshotsAccounted
  <2>2. heap' = Held'
    BY <1>1, <1>7, <2>1, HeldBy, HeldByNext
  <2>3. snapBytes' = Cardinality(heap')
    BY <1>1, <1>2, HeapSize, Zenon
  <2>4. \A b \in Actors : mine'[b] # NULL =>
           /\ mine'[b] \notin {snapshot', told'}
           /\ \A d \in Actors \ {b} : mine'[d] # mine'[b]
    <3>1. \A b \in Actors : mine[b] # NULL =>
             /\ mine[b] \notin {snapshot, told}
             /\ \A d \in Actors \ {b} : mine[d] # mine[b]
      BY Zenon DEF IInv, SnapshotsAccounted
    <3> QED BY <1>7, <2>1, <3>1
  <2> QED BY <2>2, <2>3, <2>4, Zenon DEF SnapshotsAccounted
<1> QED BY <1>4, <1>5, <1>6, <1>8, <1>9, <1>10, Zenon DEF IInv

\* The end of a walk, complete or not: the snapshot gets its contents, and
\* g_last_node_count may grow.
LEMMA WalkStep ==
  ASSUME IInv, NEW a \in Actors, NEW r, NEW n \in 0 .. MaxNodes,
         pc[a] = "walk", pc' = [pc EXCEPT ![a] = "publish"],
         r \in Contents,
         info[mine[a]].of = gen => r.of = gen,
         info' = [info EXCEPT ![mine[a]] = r],
         lastCount' = n,
         UNCHANGED <<sample, mine, cap, age, snapshot, snapGen, building, pending>>,
         UNCHANGED registryVars, UNCHANGED kextVars,
         UNCHANGED <<heap, snapBytes, leaked>>
  PROVE  IInv'
<1>1. /\ "publish" \in PCs /\ pc'[a] = "publish"
      /\ \A b \in Actors \ {a} : pc'[b] = pc[b]
      /\ \A b \in Actors : Owner(b)' <=> Owner(b)
  BY OwnersAfter, Zenon DEF Owner, Building, PCs
<1>2. TypeOK'
  <2>1. pc' \in [Actors -> PCs]
    BY <1>1, Zenon DEF IInv, TypeOK, ThreadType
  <2>2. info' \in [Snaps -> Contents]
    BY Zenon DEF IInv, TypeOK, MemType
  <2>3. GlobalType' /\ ThreadType'
    BY <2>1, Zenon DEF IInv, TypeOK, GlobalType, ThreadType
  <2>4. MemType'
    BY <2>2, Zenon DEF IInv, TypeOK, MemType
  <2> QED BY <2>3, <2>4, TypesSame, Zenon DEF IInv, TypeOK
<1>3. OwnerInv'
  BY <1>1, Kept DEF IInv, OwnerInv, Recent
<1>4. KextInv'
  BY <1>1, Kept DEF IInv, KextInv
<1>5. /\ mine[a] \in Snaps /\ mine[a] # snapshot
      /\ \A b \in Actors \ {a} : mine[b] # mine[a]
      /\ info'[mine[a]] = r /\ \A t \in Snaps \ {mine[a]} : info'[t] = info[t]
  <2>1. mine[a] \in Snaps
    BY Zenon DEF IInv, TypeOK, ThreadType, ActorInv
  <2>2. mine[a] # snapshot /\ \A b \in Actors \ {a} : mine[b] # mine[a]
    BY <2>1, SnapRefreshAssumption, Zenon DEF IInv, SnapshotsAccounted
  <2> QED BY <2>1, <2>2, Zenon DEF IInv, TypeOK, MemType
<1>6. ASSUME NEW b \in Actors PROVE ActorInv(b)'
  <2>1. CASE b = a
    <3>1. ActorInv(a)
      BY Zenon DEF IInv
    <3> QED BY <1>1, <1>5, <2>1, <3>1, Kept DEF ActorInv, Owner, Building
  <2>2. CASE b # a
    <3>1. mine[b] \in Snaps \cup {NULL}
      BY Zenon DEF IInv, TypeOK, ThreadType
    <3>2. gen' = gen /\ lock' = lock /\ kext' = kext
      BY Zenon DEF registryVars, kextVars
    <3>3. mine[b] # NULL => info'[mine[b]] = info[mine[b]]
      BY <1>5, <2>2, <3>1, Zenon
    <3> QED BY <1>1, <2>2, <3>2, <3>3, ActorSame, Zenon DEF IInv
  <2> QED BY <2>1, <2>2, Zenon
<1>7. (snapGen <= gen)' /\ SnapshotAccurate'
  <2>1. snapshot \in Snaps \cup {NULL}
    BY Zenon DEF IInv, TypeOK, GlobalType
  <2> QED BY <1>5, <2>1, Kept, Zenon DEF IInv, SnapshotAccurate
<1>8. SnapshotsAccounted'
  BY AccountedSame, Kept, Zenon DEF IInv
<1> QED BY <1>2, <1>3, <1>4, <1>6, <1>7, <1>8, Zenon DEF IInv

LEMMA WalkInv ==
  ASSUME IInv, NEW a \in Actors, Walk(a) \/ WalkDegraded(a)
  PROVE  IInv'
<1> DEFINE of == IF info[mine[a]].of = gen THEN gen ELSE 0
           rec(n, t) == [of |-> of, count |-> n, full |-> n >= cap[a], tree |-> t]
           last(n) == IF n >= cap[a] /\ cap[a] < MaxNodes
                      THEN Min({cap[a] * 2, MaxNodes}) ELSE lastCount
<1>1. /\ pc[a] = "walk" /\ pc' = [pc EXCEPT ![a] = "publish"]
      /\ UNCHANGED <<sample, mine, cap, age, snapshot, snapGen, building, pending>>
      /\ UNCHANGED registryVars /\ UNCHANGED kextVars
      /\ UNCHANGED <<heap, snapBytes, leaked>>
  BY Zenon DEF Walk, WalkDegraded, Goto
<1>2. mine[a] \in Snaps
  <2>1. mine[a] \in Snaps \cup {NULL} /\ ActorInv(a)
    BY Zenon DEF IInv, TypeOK, ThreadType
  <2> QED BY <1>1, <2>1, Zenon DEF ActorInv
<1>3. \E n \in {1, Min({size + 1, cap[a]})}, t \in BOOLEAN :
         info' = [info EXCEPT ![mine[a]] = rec(n, t)] /\ lastCount' = last(n)
  <2>1. CASE Walk(a)
    <3>1. /\ info' = [info EXCEPT ![mine[a]] = rec(Min({size + 1, cap[a]}), TRUE)]
          /\ lastCount' = last(Min({size + 1, cap[a]}))
      BY <1>2, <2>1, Zenon DEF Walk, IInv, TypeOK, MemType
    <3> QED BY <3>1, Zenon
  <2>2. CASE WalkDegraded(a)
    <3>1. PICK n \in {1, Min({size + 1, cap[a]})} :
             /\ info' = [info EXCEPT ![mine[a]] = rec(n, FALSE)]
             /\ lastCount' = last(n)
      BY <1>2, <2>2, Zenon DEF WalkDegraded, IInv, TypeOK, MemType
    <3> QED BY <3>1, Zenon
  <2> QED BY <2>1, <2>2, Zenon
<1>4. PICK n \in {1, Min({size + 1, cap[a]})}, t \in BOOLEAN :
         info' = [info EXCEPT ![mine[a]] = rec(n, t)] /\ lastCount' = last(n)
  BY <1>3, Zenon
<1>5. n \in {1, Min({size + 1, cap[a]})} /\ t \in BOOLEAN
  <2> HIDE DEF rec, last
  <2> QED BY <1>4, Zenon
<1>6. n \in 0 .. MaxNodes /\ last(n) \in 0 .. MaxNodes
  <2>1. /\ MaxNodes \in Nat \ {0} /\ lastCount \in 0 .. MaxNodes
        /\ Min({size + 1, cap[a]}) \in 0 .. MaxNodes
        /\ Min({cap[a] * 2, MaxNodes}) \in 0 .. MaxNodes
    BY CountBound, SnapRefreshAssumption, Zenon DEF IInv, TypeOK, GlobalType
  <2>2. n \in 0 .. MaxNodes
    BY <1>5, <2>1
  <2> QED BY <2>1, <2>2, Zenon
<1>7. of \in 0 .. MaxGen /\ (info[mine[a]].of = gen => of = gen)
  BY SnapRefreshAssumption DEF IInv, TypeOK, RegistryType
<1>8. rec(n, t) \in Contents /\ rec(n, t).of = of
  <2> HIDE DEF of, last
  <2> QED BY <1>5, <1>6, <1>7 DEF Contents
<1> HIDE DEF rec, last
<1> QED BY <1>1, <1>4, <1>6, <1>7, <1>8, WalkStep, Zenon

LEMMA PublishInv ==
  ASSUME IInv, NEW a \in Actors, Publish(a)
  PROVE  IInv'
<1>1. /\ pc[a] = "publish" /\ pc' = [pc EXCEPT ![a] = "free"]
      /\ ~building' /\ building' \in BOOLEAN /\ pending' \in BOOLEAN
      /\ tpc' = IF tpc = "asleep" THEN "wait" ELSE tpc
      /\ UNCHANGED <<sample, cap, lock, call, queued, kext, told, mounted>>
      /\ UNCHANGED registryVars /\ UNCHANGED memVars
  BY Zenon DEF Publish, PublishAs, Goto
<1>2. /\ "free" \in PCs /\ pc'[a] = "free" /\ ~Owner(a)' /\ Owner(a)
      /\ \A b \in Actors \ {a} : pc'[b] = pc[b] /\ (Owner(b)' <=> Owner(b))
  <2>1. "free" \in PCs /\ Owner(a)
    BY <1>1, Zenon DEF PCs, Owner, Building
  <2> QED BY <1>1, <2>1, OwnersAfter, Zenon DEF Building
<1>3. building /\ ~queued /\ \A b \in Actors : ~Owner(b)'
  BY <1>2, Zenon DEF IInv, OwnerInv
<1>4. tpc \notin {"clear", "free"} /\ told = NULL
  BY <1>3, Zenon DEF IInv, KextInv
<1>5. OwnerInv'
  BY <1>1, <1>3, Zenon DEF OwnerInv
<1>6. KextInv'
  BY <1>1, <1>2, <1>4, CallerInside, Zenon DEF IInv, KextInv, Actors
<1>7. KextType'
  BY <1>1, Zenon DEF IInv, TypeOK, KextType
<1>8. CASE mine[a] = NULL
  <2>1. UNCHANGED <<snapshot, mine, snapGen, lastCount, age>>
    BY <1>8, Zenon DEF Publish, PublishAs
  <2>2. TypeOK'
    <3>1. pc' \in [Actors -> PCs]
      BY <1>1, <1>2, Zenon DEF IInv, TypeOK, ThreadType
    <3>2. GlobalType' /\ ThreadType'
      BY <1>1, <2>1, <3>1, Zenon DEF IInv, TypeOK, GlobalType, ThreadType
    <3> QED BY <1>1, <1>7, <3>2, TypesSame, Zenon DEF IInv, TypeOK
  <2>3. ASSUME NEW b \in Actors PROVE ActorInv(b)'
    BY <1>1, <1>2, <1>8, <2>1, Zenon
       DEF IInv, ActorInv, Building, registryVars, memVars
  <2>4. (snapGen <= gen)' /\ SnapshotAccurate'
    BY <1>1, <2>1, AccurateSame, Kept, Zenon DEF IInv
  <2>5. SnapshotsAccounted'
    BY <1>1, <2>1, AccountedSame, Kept, Zenon DEF IInv
  <2> QED BY <1>5, <1>6, <2>2, <2>3, <2>4, <2>5, Zenon DEF IInv
<1>9. CASE mine[a] # NULL
  <2>1. /\ snapshot' = mine[a] /\ mine' = [mine EXCEPT ![a] = snapshot]
        /\ snapGen' = sample[a] /\ age' = "ttl"
        /\ lastCount' = info[mine[a]].count
    BY <1>9, Zenon DEF Publish, PublishAs
  <2>2. /\ mine[a] \in Snaps /\ snapshot \in Snaps \cup {NULL}
        /\ mine'[a] = snapshot /\ \A b \in Actors \ {a} : mine'[b] = mine[b]
    BY <1>9, <2>1, Zenon DEF IInv, TypeOK, ThreadType, GlobalType
  <2>3. TypeOK'
    <3>1. pc' \in [Actors -> PCs] /\ mine' \in [Actors -> Snaps \cup {NULL}]
      BY <1>1, <1>2, <2>1, <2>2, Zenon DEF IInv, TypeOK, ThreadType
    <3>2. snapGen' \in 0 .. MaxGen /\ lastCount' \in 0 .. MaxNodes
      BY <2>1, <2>2, Zenon DEF IInv, TypeOK, ThreadType, MemType, Contents
    <3>3. GlobalType'
      BY <1>1, <2>1, <2>2, <3>2, Zenon DEF GlobalType, Ages
    <3>4. ThreadType'
      BY <1>1, <3>1, Zenon DEF IInv, TypeOK, ThreadType
    <3> QED BY <1>1, <1>7, <3>3, <3>4, TypesSame, Zenon DEF IInv, TypeOK
  <2>4. ASSUME NEW b \in Actors PROVE ActorInv(b)'
    <3>1. CASE b = a
      BY <1>1, <1>2, <3>1, Zenon DEF IInv, ActorInv, Building, registryVars
    <3>2. CASE b # a
      <4>1. pc'[b] = pc[b] /\ pc[b] \notin {"build", "walk", "publish"}
        <5>1. pc'[b] = pc[b] /\ ~Owner(b)
          BY <1>2, <1>3, <3>2, Zenon
        <5> QED BY <5>1, Zenon DEF Owner, Building
      <4> QED BY <1>1, <1>2, <2>2, <3>2, <4>1, Zenon
                 DEF IInv, ActorInv, registryVars
    <3> QED BY <3>1, <3>2, Zenon
  <2>5. (snapGen <= gen)' /\ SnapshotAccurate'
    BY <1>1, <1>9, <2>1, Zenon
       DEF IInv, ActorInv, SnapshotAccurate, registryVars, memVars
  <2>6. SnapshotsAccounted'
    <3>1. /\ heap' = heap /\ snapBytes' = snapBytes /\ told' = told
          /\ heap = Held /\ snapBytes = Cardinality(heap)
          /\ \A b \in Actors : mine[b] # NULL =>
                /\ mine[b] \notin {snapshot, told}
                /\ \A d \in Actors \ {b} : mine[d] # mine[b]
      BY <1>1, Kept, Zenon DEF IInv, SnapshotsAccounted
    <3>2. heap' = Held'
      <4>1. ASSUME NEW s PROVE s \in Held' <=> s \in Held
        <5>1. s = snapshot' \/ (\E b \in Actors : s = mine'[b])
                <=> s = snapshot \/ \E b \in Actors : s = mine[b]
          BY <2>1, <2>2, Zenon
        <5> QED BY <3>1, <5>1, HeldBy, HeldByNext, Zenon
      <4> QED BY <3>1, <4>1, Zenon
    <3>3. \A b \in Actors : mine'[b] # NULL =>
             /\ mine'[b] \notin {snapshot', told'}
             /\ \A d \in Actors \ {b} : mine'[d] # mine'[b]
      BY <1>4, <1>9, <2>1, <2>2, <3>1, Zenon
    <3> QED BY <3>1, <3>2, <3>3, Zenon DEF SnapshotsAccounted
  <2> QED BY <1>5, <1>6, <2>3, <2>4, <2>5, <2>6, Zenon DEF IInv
<1> QED BY <1>8, <1>9, Zenon

\* sysfs_snap_free() of a snapshot that the caller has the only pointer to, or
\* of NULL.
LEMMA FreeStep ==
  ASSUME IInv, NEW s \in heap \cup {NULL},
         heap' = heap \ {s},
         info' = [x \in Snaps |-> IF x = s THEN NoContents ELSE info[x]],
         snapBytes' = snapBytes - Cardinality({s} \ {NULL}),
         s # NULL => s # snapshot'
  PROVE  /\ heap' \subseteq Snaps /\ snapBytes' \in Nat
         /\ info' \in [Snaps -> Contents]
         /\ \A x \in Snaps \ {s} : info'[x] = info[x]
         /\ snapBytes' = Cardinality(heap')
         /\ UNCHANGED <<snapshot, snapGen, gen>> => SnapshotAccurate'
<1>1. heap' \subseteq Snaps /\ \A x \in Snaps \ {s} : info'[x] = info[x]
  BY Zenon DEF IInv, TypeOK, MemType
<1>2. snapBytes' = Cardinality(heap') /\ snapBytes' \in Nat
  BY HeapSize, Zenon
<1>3. info' \in [Snaps -> Contents]
  <2>1. NoContents \in Contents
    BY SnapRefreshAssumption DEF NoContents, Contents
  <2> QED BY <2>1, Zenon DEF IInv, TypeOK, MemType
<1>4. UNCHANGED <<snapshot, snapGen, gen>> => SnapshotAccurate'
  <2>1. snapshot \in Snaps \cup {NULL}
    BY Zenon DEF IInv, TypeOK, GlobalType
  <2> QED BY <1>1, <2>1, Zenon DEF IInv, SnapshotAccurate
<1> QED BY <1>1, <1>2, <1>3, <1>4, Zenon

LEMMA FreeOldInv ==
  ASSUME IInv, NEW a \in Actors, FreeOld(a)
  PROVE  IInv'
<1>1. /\ heap' = heap \ {mine[a]}
      /\ info' = [x \in Snaps |-> IF x = mine[a] THEN NoContents ELSE info[x]]
      /\ snapBytes' = snapBytes - Cardinality({mine[a]} \ {NULL})
  BY Zenon DEF FreeOld
<1>2. /\ mine' = [mine EXCEPT ![a] = NULL]
      /\ sample' = [sample EXCEPT ![a] = 0] /\ cap' = [cap EXCEPT ![a] = 0]
  BY Zenon DEF FreeOld
<1>3. /\ pc[a] = "free" /\ pc' = [pc EXCEPT ![a] = "idle"]
      /\ mounted' \in BOOLEAN /\ (mounted' <=> (mounted \/ a \in Callers))
      /\ UNCHANGED <<leaked, lock, call, queued, kext, tpc, told>>
      /\ UNCHANGED registryVars /\ UNCHANGED globalVars
  BY Zenon DEF FreeOld, Goto
<1>4. /\ "idle" \in PCs /\ pc'[a] = "idle" /\ ~Owner(a)' /\ ~Owner(a)
      /\ \A b \in Actors \ {a} : pc'[b] = pc[b] /\ (Owner(b)' <=> Owner(b))
  <2>1. "idle" \in PCs /\ ~Owner(a)
    BY <1>3, Zenon DEF PCs, Owner, Building
  <2> QED BY <1>3, <2>1, OwnersAfter, Zenon DEF Building
<1>5. /\ mine[a] \in heap \cup {NULL}
      /\ mine[a] # NULL => mine[a] # snapshot'
      /\ mine[a] # NULL => /\ mine[a] \notin {snapshot, told}
                           /\ \A d \in Actors \ {a} : mine[d] # mine[a]
  BY <1>3, HeldBy, Zenon DEF IInv, SnapshotsAccounted, globalVars
<1>6. /\ heap' \subseteq Snaps /\ snapBytes' \in Nat
      /\ info' \in [Snaps -> Contents]
      /\ \A x \in Snaps \ {mine[a]} : info'[x] = info[x]
      /\ snapBytes' = Cardinality(heap')
      /\ UNCHANGED <<snapshot, snapGen, gen>> => SnapshotAccurate'
  BY <1>1, <1>5, FreeStep, Zenon
<1>7. gen \in Nat /\ MaxGen \in Nat /\ MaxNodes \in Nat
  BY SnapRefreshAssumption DEF IInv, TypeOK, RegistryType
<1>8. /\ mine'[a] = NULL /\ \A b \in Actors \ {a} : mine'[b] = mine[b]
      /\ sample'[a] = 0 /\ \A b \in Actors \ {a} : sample'[b] = sample[b]
  BY <1>2, Zenon DEF IInv, TypeOK, ThreadType
<1>9. TypeOK'
  <2>1. /\ pc' \in [Actors -> PCs] /\ mine' \in [Actors -> Snaps \cup {NULL}]
        /\ sample' \in [Actors -> 0 .. MaxGen] /\ cap' \in [Actors -> 0 .. MaxNodes]
    BY <1>2, <1>3, <1>4, <1>7 DEF IInv, TypeOK, ThreadType
  <2>2. KextType'
    BY <1>3, Zenon DEF IInv, TypeOK, KextType
  <2>3. ThreadType' /\ MemType'
    BY <1>3, <1>6, <2>1, Zenon DEF IInv, TypeOK, ThreadType, MemType
  <2> QED BY <1>3, <2>2, <2>3, TypesSame, Zenon DEF IInv, TypeOK
<1>10. OwnerInv'
  BY <1>3, <1>4, Zenon DEF IInv, OwnerInv, Recent, globalVars
<1>11. KextInv'
  <2>1. a \in Callers => kext \in {"added", "locked", "loaded"}
    BY <1>3, CallerInside, Zenon
  <2>2. kext \in {"unloaded", "removed"} =>
           ~mounted' /\ \A c \in Callers : pc'[c] = "idle"
    BY <1>3, <1>4, <2>1, Zenon DEF IInv, KextInv, Actors
  <2> QED BY <1>3, <2>2, Kept DEF IInv, KextInv
<1>12. ASSUME NEW b \in Actors PROVE ActorInv(b)'
  <2>1. CASE b = a
    BY <1>3, <1>4, <1>7, <1>8, <2>1, Kept DEF ActorInv, Building
  <2>2. CASE b # a
    <3>1. mine[b] \in Snaps \cup {NULL} /\ (mine[b] # NULL => mine[b] # mine[a])
      BY <1>5, <2>2, Zenon DEF IInv, TypeOK, ThreadType
    <3>2. gen' = gen /\ snapGen' = snapGen /\ lock' = lock /\ kext' = kext
      BY <1>3, Kept, Zenon
    <3>3. mine[b] # NULL => info'[mine[b]] = info[mine[b]]
      BY <1>6, <3>1, Zenon
    <3> QED BY <1>4, <1>8, <2>2, <3>2, <3>3, ActorSame, Zenon DEF IInv
  <2> QED BY <2>1, <2>2, Zenon
<1>13. (snapGen <= gen)' /\ SnapshotAccurate'
  BY <1>3, <1>6, Zenon DEF IInv, registryVars, globalVars
<1>14. SnapshotsAccounted'
  <2>1. heap = Held /\ snapshot' = snapshot /\ told' = told
    BY <1>3, Zenon DEF IInv, SnapshotsAccounted, globalVars
  <2>2. heap' = Held'
    <3>1. ASSUME NEW s PROVE s \in heap' <=> s \in Held'
      <4>1. s \in heap' <=> s \in Held /\ s # mine[a]
        BY <1>1, <2>1, Zenon
      <4> QED BY <1>5, <1>8, <2>1, <4>1, HeldBy, HeldByNext
    <3> QED BY <3>1, Zenon
  <2>3. \A b \in Actors : mine'[b] # NULL =>
           /\ mine'[b] \notin {snapshot', told'}
           /\ \A d \in Actors \ {b} : mine'[d] # mine'[b]
    BY <1>8, <2>1, Zenon DEF IInv, SnapshotsAccounted
  <2> QED BY <1>6, <2>2, <2>3, Zenon DEF SnapshotsAccounted
<1> QED BY <1>9, <1>10, <1>11, <1>12, <1>13, <1>14, Zenon DEF IInv

-----------------------------------------------------------------------------
(* sysfs_iokit_teardown() after its wait.                                  *)

LEMMA TeardownClearInv ==
  ASSUME IInv, TeardownClear
  PROVE  IInv'
<1>1. /\ tpc = "clear" /\ tpc' = "free"
      /\ told' = snapshot /\ snapshot' = NULL
      /\ snapGen' = 0 /\ age' = "none" /\ lastCount' = 0
      /\ ~building' /\ building' \in BOOLEAN /\ pending' \in BOOLEAN
      /\ UNCHANGED <<lock, call, queued, kext, mounted>>
      /\ UNCHANGED registryVars /\ UNCHANGED threadVars /\ UNCHANGED memVars
  BY Zenon DEF TeardownClear
<1>2. told = NULL /\ kext = "removed" /\ ~building /\ ~queued
  BY <1>1, Zenon DEF IInv, KextInv
<1>3. \A a \in Actors : ~Owner(a)
  BY <1>2, Zenon DEF IInv, OwnerInv
<1>4. \A a \in Actors : ~Owner(a)'
  BY <1>1, <1>3, Kept, Zenon DEF Owner
<1>5. TypeOK'
  <2>1. GlobalType'
    BY <1>1, SnapRefreshAssumption DEF GlobalType
  <2>2. KextType'
    BY <1>1, Zenon DEF IInv, TypeOK, KextType, GlobalType
  <2> QED BY <1>1, <2>1, <2>2, TypesSame, Zenon DEF IInv, TypeOK
<1>6. OwnerInv'
  BY <1>1, <1>2, <1>4, Zenon DEF OwnerInv
<1>7. KextInv'
  BY <1>1, <1>2, Kept, Zenon DEF IInv, KextInv
<1>8. ASSUME NEW a \in Actors PROVE ActorInv(a)'
  <2>1. ~Owner(a) /\ pc[a] \notin {"build", "walk", "publish", "enter"}
    BY <1>3, Zenon DEF Owner, Building
  <2> QED BY <1>1, <1>4, <2>1, Zenon DEF IInv, ActorInv, registryVars, threadVars
<1>9. (snapGen <= gen)' /\ SnapshotAccurate'
  <2>1. gen \in Nat
    BY SnapRefreshAssumption DEF IInv, TypeOK, RegistryType
  <2>2. snapshot' = NULL /\ snapGen' = 0 /\ gen' = gen
    BY <1>1, Kept, Zenon
  <2> QED BY <2>1, <2>2 DEF SnapshotAccurate
<1>10. SnapshotsAccounted'
  <2>1. mine' = mine /\ heap' = heap /\ snapBytes' = snapBytes /\ heap = Held
    BY <1>1, Kept, Zenon DEF IInv, SnapshotsAccounted
  <2>2. heap' = Held'
    BY <1>1, <1>2, <2>1, HeldBy, HeldByNext, Zenon
  <2> QED BY <1>1, <2>1, <2>2, Zenon DEF IInv, SnapshotsAccounted
<1> QED BY <1>5, <1>6, <1>7, <1>8, <1>9, <1>10, Zenon DEF IInv

LEMMA TeardownFreeInv ==
  ASSUME IInv, TeardownFree
  PROVE  IInv'
<1>1. /\ tpc = "free" /\ tpc' = "none" /\ kext' = "unloaded"
      /\ heap' = heap \ {told}
      /\ info' = [x \in Snaps |-> IF x = told THEN NoContents ELSE info[x]]
      /\ snapBytes' = snapBytes - Cardinality({told} \ {NULL})
      /\ told' = NULL /\ ~lock' /\ lock' \in BOOLEAN
      /\ UNCHANGED <<call, queued, mounted, leaked>>
      /\ UNCHANGED registryVars /\ UNCHANGED globalVars /\ UNCHANGED threadVars
  BY Zenon DEF TeardownFree
<1>2. /\ snapshot = NULL /\ kext = "removed" /\ ~building /\ ~queued
      /\ ~mounted /\ \A c \in Callers : pc[c] = "idle"
  BY <1>1, Zenon DEF IInv, KextInv
<1>3. \A a \in Actors : ~Owner(a)
  BY <1>2, Zenon DEF IInv, OwnerInv
<1>4. \A a \in Actors : ~Owner(a)'
  BY <1>1, <1>3, Kept, Zenon DEF Owner
<1>5. told \in heap \cup {NULL} /\ (told # NULL => told # snapshot')
  <2>1. snapshot' = snapshot
    BY <1>1, Kept, Zenon
  <2> QED BY <1>2, <2>1, HeldBy, Zenon DEF IInv, SnapshotsAccounted
<1>6. /\ heap' \subseteq Snaps /\ snapBytes' \in Nat
      /\ info' \in [Snaps -> Contents]
      /\ snapBytes' = Cardinality(heap')
      /\ UNCHANGED <<snapshot, snapGen, gen>> => SnapshotAccurate'
  BY <1>1, <1>5, FreeStep, Zenon
<1>7. TypeOK'
  <2>1. KextType'
    BY <1>1, Zenon DEF IInv, TypeOK, KextType
  <2>2. MemType'
    BY <1>1, <1>6, Zenon DEF IInv, TypeOK, MemType
  <2> QED BY <1>1, <2>1, <2>2, TypesSame, Zenon DEF IInv, TypeOK
<1>8. OwnerInv'
  BY <1>1, <1>2, <1>4, Kept DEF OwnerInv
<1>9. KextInv'
  <2>1. ~call
    BY <1>1, <1>2, Zenon DEF IInv, KextInv
  <2> QED BY <1>1, <1>2, <2>1, Kept, Zenon DEF KextInv
<1>10. ASSUME NEW a \in Actors PROVE ActorInv(a)'
  <2>1. ~Owner(a) /\ pc[a] \notin {"build", "walk", "publish", "enter"}
    BY <1>3, Zenon DEF Owner, Building
  <2>2. pc[a] \notin {"ensure", "read"}
    BY <1>2, Zenon DEF IInv, ActorInv, Actors, Building
  <2> QED BY <1>1, <1>4, <2>1, <2>2, Zenon
             DEF IInv, ActorInv, registryVars, threadVars
<1>11. (snapGen <= gen)' /\ SnapshotAccurate'
  BY <1>1, <1>6, Zenon DEF IInv, registryVars, globalVars
<1>12. SnapshotsAccounted'
  <2>1. heap = Held /\ snapshot' = snapshot /\ mine' = mine
    BY <1>1, Zenon DEF IInv, SnapshotsAccounted, globalVars, threadVars
  <2>2. \A b \in Actors : mine[b] # NULL => mine[b] # told
    BY Zenon DEF IInv, SnapshotsAccounted
  <2>3. heap' = Held'
    BY <1>1, <1>2, <2>1, <2>2, HeldBy, HeldByNext, Zenon
  <2>4. \A b \in Actors : mine'[b] # NULL =>
           /\ mine'[b] \notin {snapshot', told'}
           /\ \A d \in Actors \ {b} : mine'[d] # mine'[b]
    BY <1>1, <2>1, Zenon DEF IInv, SnapshotsAccounted
  <2> QED BY <1>6, <2>3, <2>4, Zenon DEF SnapshotsAccounted
<1> QED BY <1>7, <1>8, <1>9, <1>10, <1>11, <1>12, Zenon DEF IInv

-----------------------------------------------------------------------------
(* Steps of one thread that leave the snapshots alone.                     *)

\* A thread goes from one place to another, with or without a new sample of the
\* generation, and perhaps sets a flag.
LEMMA ThreadStep ==
  ASSUME IInv, NEW a \in Actors, NEW w \in PCs,
         pc' = [pc EXCEPT ![a] = w],
         sample' \in [Actors -> 0 .. MaxGen],
         \A b \in Actors \ {a} : sample'[b] = sample[b],
         UNCHANGED registryVars,
         UNCHANGED <<age, snapshot, snapGen, lastCount>>,
         UNCHANGED <<lock, call, kext, tpc, told>>,
         UNCHANGED <<mine, cap, info, heap, snapBytes>>,
         /\ building' \in BOOLEAN /\ pending' \in BOOLEAN
         /\ queued' \in BOOLEAN /\ mounted' \in BOOLEAN
         /\ leaked' \in 0 .. MaxLeak,
         OwnerInv', KextInv', ActorInv(a)'
  PROVE  IInv'
<1>1. pc' \in [Actors -> PCs] /\ \A b \in Actors \ {a} : pc'[b] = pc[b]
  BY Zenon DEF IInv, TypeOK, ThreadType
<1>2. TypeOK'
  <2>1. GlobalType' /\ KextType'
    BY Zenon DEF IInv, TypeOK, GlobalType, KextType
  <2>2. ThreadType' /\ MemType'
    BY <1>1, Zenon DEF IInv, TypeOK, ThreadType, MemType
  <2> QED BY <2>1, <2>2, TypesSame, Zenon DEF IInv, TypeOK
<1>3. ASSUME NEW b \in Actors PROVE ActorInv(b)'
  <2>1. CASE b # a
    BY <1>1, <2>1, ActorSame, Kept, Zenon DEF IInv
  <2> QED BY <2>1, Zenon
<1>4. (snapGen <= gen)' /\ SnapshotAccurate'
  BY AccurateSame, Kept, Zenon DEF IInv
<1>5. SnapshotsAccounted'
  BY AccountedSame, Zenon DEF IInv
<1> QED BY <1>2, <1>3, <1>4, <1>5, Zenon DEF IInv

LEMMA RefreshSampleInv ==
  ASSUME IInv, NEW a \in Actors, RefreshSample(a)
  PROVE  IInv'
<1>1. /\ pc[a] = "sample" /\ pc' = [pc EXCEPT ![a] = "build"]
      /\ sample' = [sample EXCEPT ![a] = gen]
      /\ UNCHANGED <<mine, cap>> /\ UNCHANGED registryVars
      /\ UNCHANGED globalVars /\ UNCHANGED kextVars /\ UNCHANGED memVars
  BY Zenon DEF RefreshSample, Goto
<1>2. gen \in 0 .. MaxGen /\ gen \in Nat /\ "build" \in PCs
  BY SnapRefreshAssumption DEF IInv, TypeOK, RegistryType, PCs, Building
<1>3. /\ sample' \in [Actors -> 0 .. MaxGen] /\ sample'[a] = gen
      /\ \A b \in Actors \ {a} : sample'[b] = sample[b]
  BY <1>1, <1>2, Zenon DEF IInv, TypeOK, ThreadType
<1>4. /\ pc'[a] = "build"
      /\ \A b \in Actors \ {a} : pc'[b] = pc[b]
      /\ \A b \in Actors : Owner(b)' <=> Owner(b)
  BY <1>1, <1>2, OwnersAfter, Zenon DEF Owner, Building
<1>5. OwnerInv'
  BY <1>1, <1>4, Kept DEF IInv, OwnerInv, Recent
<1>6. KextInv'
  <2>1. \A c \in Callers : pc[c] = "idle" => pc'[c] = "idle"
    BY <1>1, <1>4, Zenon DEF Actors
  <2> QED BY <1>1, <2>1, KextKept, Zenon DEF IInv
<1>7. ActorInv(a)'
  <2>1. ActorInv(a) /\ snapGen <= gen
    BY Zenon DEF IInv
  <2>2. /\ gen' = gen /\ snapGen' = snapGen /\ lock' = lock
        /\ kext' = kext /\ mine' = mine
    BY <1>1, Kept, Zenon
  <2> QED BY <1>1, <1>2, <1>3, <1>4, <2>1, <2>2 DEF ActorInv, Owner, Building
<1> QED BY <1>1, <1>2, <1>3, <1>5, <1>6, <1>7, ThreadStep, Zenon
        DEF IInv, TypeOK, GlobalType, KextType, MemType, globalVars, kextVars,
            memVars

LEMMA BuildFailInv ==
  ASSUME IInv, NEW a \in Actors, BuildFail(a)
  PROVE  IInv'
<1>1. /\ pc[a] = "build" /\ pc' = [pc EXCEPT ![a] = "publish"]
      /\ mine' = [mine EXCEPT ![a] = NULL]
      /\ UNCHANGED <<sample, cap, info, heap, snapBytes>>
      /\ UNCHANGED registryVars /\ UNCHANGED globalVars /\ UNCHANGED kextVars
  BY Zenon DEF BuildFail, Goto
<1>2. mine[a] = NULL /\ mine' = mine
  <2>1. mine \in [Actors -> Snaps \cup {NULL}] /\ ActorInv(a)
    BY Zenon DEF IInv, TypeOK, ThreadType
  <2>2. mine[a] = NULL
    BY <1>1, <2>1, Zenon DEF ActorInv
  <2> QED BY <1>1, <2>1, <2>2, Zenon
<1>3. leaked' \in 0 .. MaxLeak
  <2>1. PICK k \in 0 .. 2 : leaked' = Min({leaked + k, MaxLeak})
    BY Zenon DEF BuildFail
  <2>2. leaked + k \in Nat /\ MaxLeak \in Nat
    BY SnapRefreshAssumption DEF IInv, TypeOK, MemType
  <2> QED BY <2>1, <2>2, MinOfTwo
<1>4. /\ "publish" \in PCs /\ pc'[a] = "publish"
      /\ \A b \in Actors \ {a} : pc'[b] = pc[b]
      /\ \A b \in Actors : Owner(b)' <=> Owner(b)
  BY <1>1, OwnersAfter, Zenon DEF Owner, Building, PCs
<1>5. OwnerInv'
  BY <1>1, <1>4, Kept DEF IInv, OwnerInv, Recent
<1>6. KextInv'
  <2>1. \A c \in Callers : pc[c] = "idle" => pc'[c] = "idle"
    BY <1>1, <1>4, Zenon DEF Actors
  <2> QED BY <1>1, <2>1, KextKept, Zenon DEF IInv
<1>7. ActorInv(a)'
  BY <1>1, <1>2, <1>4, Kept DEF IInv, ActorInv, Owner, Building
<1> QED BY <1>1, <1>2, <1>3, <1>4, <1>5, <1>6, <1>7, ThreadStep, Zenon
        DEF IInv, TypeOK, GlobalType, KextType, ThreadType, globalVars, kextVars

LEMMA RunInv ==
  ASSUME IInv, NEW a \in Workers, Run(a)
  PROVE  IInv'
<1>1. /\ queued /\ pc[a] = "idle" /\ ~queued' /\ queued' \in BOOLEAN
      /\ pc' = [pc EXCEPT ![a] = "sample"]
      /\ UNCHANGED <<sample, mine, cap, lock, call, kext, tpc, told, mounted>>
      /\ UNCHANGED registryVars /\ UNCHANGED globalVars /\ UNCHANGED memVars
  BY Zenon DEF Run, Goto
<1>2. /\ a \in Actors /\ "sample" \in PCs /\ pc'[a] = "sample" /\ Owner(a)'
      /\ \A b \in Actors \ {a} : pc'[b] = pc[b] /\ (Owner(b)' <=> Owner(b))
  BY <1>1, OwnersAfter, Zenon DEF Building, PCs, Actors
<1>3. OwnerInv'
  BY <1>1, <1>2, Kept DEF IInv, OwnerInv, Recent
<1>4. kext = "loaded" /\ lock
  BY <1>1, Zenon DEF IInv, KextInv
<1>5. KextInv'
  BY <1>1, <1>4, Kept, Zenon DEF IInv, KextInv
<1>6. ActorInv(a)'
  <2>1. ActorInv(a)
    BY <1>2, Zenon DEF IInv
  <2> QED BY <1>1, <1>2, <1>4, <2>1, Kept, Zenon DEF ActorInv, Building
<1> QED BY <1>1, <1>2, <1>3, <1>5, <1>6, ThreadStep, Zenon
        DEF IInv, TypeOK, GlobalType, KextType, ThreadType, MemType,
            globalVars, memVars

-----------------------------------------------------------------------------
(* Steps of a mounting thread or of a vnop.                                *)

LEMMA MountInv ==
  ASSUME IInv, NEW c \in Callers, Mount(c)
  PROVE  IInv'
<1>1. /\ kext \in {"added", "locked", "loaded"} /\ pc[c] = "idle"
      /\ pc' = [pc EXCEPT ![c] = "prime"]
      /\ UNCHANGED <<sample, mine, cap>> /\ UNCHANGED registryVars
      /\ UNCHANGED globalVars /\ UNCHANGED kextVars /\ UNCHANGED memVars
  BY Zenon DEF Mount, Goto
<1>2. /\ c \in Actors /\ c \notin Workers /\ "prime" \in PCs
      /\ pc'[c] = "prime" /\ ~Owner(c)' /\ ~Owner(c)
      /\ \A b \in Actors \ {c} : pc'[b] = pc[b] /\ (Owner(b)' <=> Owner(b))
  <2>1. c \in Actors /\ c \notin Workers /\ ~Owner(c)
    BY <1>1, CallerInside, Zenon DEF Owner, Building
  <2>2. "prime" \in PCs /\ "prime" \notin Building \cup {"enter"}
    BY Zenon DEF PCs, Building
  <2> QED BY <1>1, <2>1, <2>2, OwnersAfter, Zenon
<1>3. OwnerInv'
  BY <1>1, <1>2, Kept DEF IInv, OwnerInv, Recent
<1>4. KextInv'
  BY <1>1, Kept DEF IInv, KextInv
<1>5. ActorInv(c)'
  BY <1>1, <1>2, Zenon DEF IInv, ActorInv, registryVars, kextVars, memVars
<1> QED BY <1>1, <1>2, <1>3, <1>4, <1>5, ThreadStep, Zenon
        DEF IInv, TypeOK, GlobalType, KextType, ThreadType, MemType,
            globalVars, kextVars, memVars

LEMMA PrimeInv ==
  ASSUME IInv, NEW c \in Callers, Prime(c)
  PROVE  IInv'
<1>1. /\ pc[c] = "prime"
      /\ UNCHANGED <<age, snapshot, snapGen, pending, lastCount, sample, mine, cap>>
      /\ UNCHANGED <<lock, call, queued, kext, tpc, told>>
      /\ UNCHANGED registryVars /\ UNCHANGED memVars
  BY Zenon DEF Prime
<1>2. c \in Actors /\ c \notin Workers /\ ~Owner(c) /\ tpc = "none"
      /\ kext \in {"added", "locked", "loaded"}
  BY <1>1, CallerInside, Zenon DEF Owner, Building
<1>3. CASE lock /\ snapshot = NULL /\ ~building
  <2>1. /\ building' /\ building' \in BOOLEAN /\ mounted' = mounted
        /\ pc' = [pc EXCEPT ![c] = "sample"]
    BY <1>3, Zenon DEF Prime, Goto
  <2>2. /\ "sample" \in PCs /\ pc'[c] = "sample" /\ Owner(c)'
        /\ \A b \in Actors \ {c} : pc'[b] = pc[b] /\ (Owner(b)' <=> Owner(b))
    BY <1>2, <2>1, OwnersAfter, Zenon DEF Building, PCs
  <2>3. ~queued /\ \A b \in Actors : ~Owner(b)
    BY <1>3, Zenon DEF IInv, OwnerInv
  <2>4. OwnerInv'
    BY <1>1, <1>2, <1>3, <2>1, <2>2, <2>3, Zenon DEF OwnerInv, Recent
  <2>5. KextInv'
    BY <1>1, <1>2, <2>1, Zenon DEF IInv, KextInv
  <2>6. ActorInv(c)'
    BY <1>1, <1>2, <1>3, <2>2, Zenon
       DEF IInv, ActorInv, Building, registryVars, memVars
  <2> QED BY <1>1, <1>2, <2>1, <2>2, <2>4, <2>5, <2>6, ThreadStep, Zenon
          DEF IInv, TypeOK, GlobalType, KextType, ThreadType, MemType, memVars
<1>4. CASE ~(lock /\ snapshot = NULL /\ ~building)
  <2>1. /\ building' = building /\ mounted' \in BOOLEAN
        /\ pc' = [pc EXCEPT ![c] = "idle"]
    BY <1>4, Zenon DEF Prime, Goto
  <2>2. /\ "idle" \in PCs /\ pc'[c] = "idle" /\ ~Owner(c)'
        /\ \A b \in Actors \ {c} : pc'[b] = pc[b] /\ (Owner(b)' <=> Owner(b))
    BY <1>2, <2>1, OwnersAfter, Zenon DEF Building, PCs
  <2>3. OwnerInv'
    BY <1>1, <1>2, <2>1, <2>2, Zenon DEF IInv, OwnerInv, Recent
  <2>4. KextInv'
    BY <1>1, <1>2, <2>1, Zenon DEF IInv, KextInv
  <2>5. ActorInv(c)'
    BY <1>1, <1>2, <2>2, Zenon DEF IInv, ActorInv, registryVars, memVars
  <2> QED BY <1>1, <1>2, <2>1, <2>2, <2>3, <2>4, <2>5, ThreadStep, Zenon
          DEF IInv, TypeOK, GlobalType, KextType, ThreadType, MemType, memVars
<1> QED BY <1>3, <1>4, Zenon

LEMMA VnopInv ==
  ASSUME IInv, NEW c \in Callers, Vnop(c)
  PROVE  IInv'
<1>1. /\ mounted /\ lock /\ pc[c] = "idle"
      /\ pc' = [pc EXCEPT ![c] = "ensure"]
      /\ sample' = [sample EXCEPT ![c] = gen]
      /\ UNCHANGED <<mine, cap>> /\ UNCHANGED registryVars
      /\ UNCHANGED globalVars /\ UNCHANGED kextVars /\ UNCHANGED memVars
  BY Zenon DEF Vnop, Goto
<1>2. /\ c \in Actors /\ c \notin Workers /\ "ensure" \in PCs
      /\ kext \in {"added", "locked", "loaded"}
      /\ pc'[c] = "ensure" /\ ~Owner(c)' /\ ~Owner(c)
      /\ \A b \in Actors \ {c} : pc'[b] = pc[b] /\ (Owner(b)' <=> Owner(b))
  <2>1. /\ c \in Actors /\ c \notin Workers /\ ~Owner(c)
        /\ kext \in {"added", "locked", "loaded"}
    BY <1>1, CallerInside, Zenon DEF Owner, Building
  <2>2. "ensure" \in PCs /\ "ensure" \notin Building \cup {"enter"}
    BY Zenon DEF PCs, Building
  <2> QED BY <1>1, <2>1, <2>2, OwnersAfter, Zenon
<1>3. gen \in 0 .. MaxGen /\ gen \in Nat
  BY SnapRefreshAssumption DEF IInv, TypeOK, RegistryType
<1>4. /\ sample' \in [Actors -> 0 .. MaxGen] /\ sample'[c] <= gen
      /\ \A b \in Actors \ {c} : sample'[b] = sample[b]
  BY <1>1, <1>2, <1>3 DEF IInv, TypeOK, ThreadType
<1>5. OwnerInv'
  BY <1>1, <1>2, Kept DEF IInv, OwnerInv, Recent
<1>6. KextInv'
  BY <1>1, <1>2, Kept DEF IInv, KextInv
<1>7. ActorInv(c)'
  <2>1. mine[c] = NULL /\ lock
    BY <1>1, <1>2, Zenon DEF IInv, ActorInv
  <2>2. lock' = lock /\ gen' = gen /\ mine' = mine
    BY <1>1, Kept, Zenon
  <2>3. sample'[c] <= gen' /\ pc'[c] \in {"idle", "ensure"}
    BY <1>2, <1>4, <2>2, Zenon
  <2> QED BY <1>1, <1>2, <2>1, <2>2, <2>3, ActorQuiet, Zenon
<1> QED BY <1>1, <1>2, <1>4, <1>5, <1>6, <1>7, ThreadStep, Zenon
        DEF IInv, TypeOK, GlobalType, KextType, MemType, globalVars, kextVars,
            memVars

LEMMA EnsureInv ==
  ASSUME IInv, NEW c \in Callers, Ensure(c)
  PROVE  IInv'
<1> DEFINE due == ~Fresh(c) /\ ~Recent /\ ~pending /\ ~building /\ call
<1>1. /\ pc[c] = "ensure"
      /\ UNCHANGED <<age, snapshot, snapGen, lastCount, sample, mine, cap>>
      /\ UNCHANGED registryVars /\ UNCHANGED kextVars /\ UNCHANGED memVars
  BY Zenon DEF Ensure, EnsureAs
<1>2. c \in Actors /\ c \notin Workers /\ ~Owner(c) /\ tpc = "none"
      /\ kext \in {"added", "locked", "loaded"} /\ lock
  BY <1>1, CallerInside, Zenon DEF Owner, Building, IInv, ActorInv
<1>3. CASE due
  <2>1. /\ building' /\ building' \in BOOLEAN /\ pending' \in BOOLEAN
        /\ pc' = [pc EXCEPT ![c] = "enter"]
    BY <1>3, Zenon DEF Ensure, EnsureAs, Goto
  <2>2. /\ "enter" \in PCs /\ pc'[c] = "enter" /\ Owner(c)'
        /\ \A b \in Actors \ {c} : pc'[b] = pc[b] /\ (Owner(b)' <=> Owner(b))
    BY <1>2, <2>1, OwnersAfter, Zenon DEF PCs
  <2>3. ~queued /\ \A b \in Actors : ~Owner(b)
    BY <1>3, Zenon DEF IInv, OwnerInv
  <2>4. OwnerInv'
    BY <1>1, <1>2, <1>3, <2>1, <2>2, <2>3, Kept DEF OwnerInv, Recent
  <2>5. kext = "loaded"
    BY <1>2, <1>3, Zenon DEF IInv, KextInv
  <2>6. KextInv'
    BY <1>1, <1>2, <2>1, Kept DEF IInv, KextInv
  <2>7. ActorInv(c)'
    BY <1>1, <1>2, <2>2, <2>5, Zenon
       DEF IInv, ActorInv, registryVars, kextVars, memVars
  <2> QED BY <1>1, <1>2, <2>1, <2>2, <2>4, <2>6, <2>7, ThreadStep, Zenon
          DEF IInv, TypeOK, GlobalType, KextType, ThreadType, MemType,
              kextVars, memVars
<1>4. CASE ~due
  <2>1. /\ building' = building /\ pending' = pending
        /\ pc' = [pc EXCEPT ![c] = "read"]
    BY <1>4, Zenon DEF Ensure, EnsureAs, Goto
  <2>2. /\ "read" \in PCs /\ pc'[c] = "read" /\ ~Owner(c)'
        /\ \A b \in Actors \ {c} : pc'[b] = pc[b] /\ (Owner(b)' <=> Owner(b))
    BY <1>2, <2>1, OwnersAfter, Zenon DEF Building, PCs
  <2>3. OwnerInv'
    BY <1>1, <1>2, <2>1, <2>2, Kept DEF IInv, OwnerInv, Recent
  <2>4. KextInv'
    BY <1>1, <1>2, <2>1, Kept DEF IInv, KextInv
  <2>5. ActorInv(c)'
    BY <1>1, <1>2, <2>2, Zenon DEF IInv, ActorInv, registryVars, kextVars, memVars
  <2> QED BY <1>1, <1>2, <2>1, <2>2, <2>3, <2>4, <2>5, ThreadStep, Zenon
          DEF IInv, TypeOK, GlobalType, KextType, ThreadType, MemType,
              kextVars, memVars
<1> QED BY <1>3, <1>4, Zenon

LEMMA ThreadCallEnterInv ==
  ASSUME IInv, NEW c \in Callers, ThreadCallEnter(c)
  PROVE  IInv'
<1>1. /\ pc[c] = "enter" /\ queued' /\ queued' \in BOOLEAN
      /\ pc' = [pc EXCEPT ![c] = "read"]
      /\ UNCHANGED <<sample, mine, cap, lock, call, kext, tpc, told, mounted>>
      /\ UNCHANGED registryVars /\ UNCHANGED globalVars /\ UNCHANGED memVars
  BY Zenon DEF ThreadCallEnter, Goto
<1>2. /\ c \in Actors /\ c \notin Workers /\ "read" \in PCs
      /\ pc'[c] = "read" /\ ~Owner(c)' /\ Owner(c)
      /\ \A b \in Actors \ {c} : pc'[b] = pc[b] /\ (Owner(b)' <=> Owner(b))
  <2>1. c \in Actors /\ c \notin Workers /\ "read" \in PCs /\ Owner(c)
    BY <1>1, CallerInside, Zenon DEF PCs, Owner
  <2> QED BY <1>1, <2>1, OwnersAfter, Zenon DEF Building
<1>3. kext = "loaded" /\ lock
  BY <1>1, <1>2, Zenon DEF IInv, ActorInv
<1>4. OwnerInv'
  BY <1>1, <1>2, Kept DEF IInv, OwnerInv, Recent
<1>5. KextInv'
  BY <1>1, <1>3, Kept, Zenon DEF IInv, KextInv
<1>6. ActorInv(c)'
  BY <1>1, <1>2, <1>3, Zenon DEF IInv, ActorInv, registryVars, memVars
<1> QED BY <1>1, <1>2, <1>4, <1>5, <1>6, ThreadStep, Zenon
        DEF IInv, TypeOK, GlobalType, KextType, ThreadType, MemType,
            globalVars, memVars

LEMMA ReadInv ==
  ASSUME IInv, NEW c \in Callers, Read(c)
  PROVE  IInv'
<1>1. /\ pc[c] = "read" /\ pc' = [pc EXCEPT ![c] = "idle"]
      /\ sample' = [sample EXCEPT ![c] = 0]
      /\ UNCHANGED <<mine, cap>> /\ UNCHANGED registryVars
      /\ UNCHANGED globalVars /\ UNCHANGED kextVars /\ UNCHANGED memVars
  BY Zenon DEF Read, Goto
<1>2. /\ c \in Actors /\ c \notin Workers /\ "idle" \in PCs
      /\ kext \in {"added", "locked", "loaded"}
      /\ pc'[c] = "idle" /\ ~Owner(c)' /\ ~Owner(c)
      /\ \A b \in Actors \ {c} : pc'[b] = pc[b] /\ (Owner(b)' <=> Owner(b))
  <2>1. /\ c \in Actors /\ c \notin Workers /\ ~Owner(c)
        /\ kext \in {"added", "locked", "loaded"}
    BY <1>1, CallerInside, Zenon DEF Owner, Building
  <2>2. "idle" \in PCs /\ "idle" \notin Building \cup {"enter"}
    BY Zenon DEF PCs, Building
  <2> QED BY <1>1, <2>1, <2>2, OwnersAfter, Zenon
<1>3. gen \in Nat /\ MaxGen \in Nat
  BY SnapRefreshAssumption DEF IInv, TypeOK, RegistryType
<1>4. /\ sample' \in [Actors -> 0 .. MaxGen] /\ sample'[c] <= gen
      /\ \A b \in Actors \ {c} : sample'[b] = sample[b]
  BY <1>1, <1>2, <1>3 DEF IInv, TypeOK, ThreadType
<1>5. OwnerInv'
  BY <1>1, <1>2, Kept DEF IInv, OwnerInv, Recent
<1>6. KextInv'
  BY <1>1, <1>2, Kept DEF IInv, KextInv
<1>7. ActorInv(c)'
  <2>1. mine[c] = NULL /\ lock
    BY <1>1, <1>2, Zenon DEF IInv, ActorInv
  <2>2. lock' = lock /\ gen' = gen /\ mine' = mine
    BY <1>1, Kept, Zenon
  <2>3. sample'[c] <= gen' /\ pc'[c] \in {"idle", "ensure"}
    BY <1>2, <1>4, <2>2, Zenon
  <2> QED BY <1>1, <1>2, <2>1, <2>2, <2>3, ActorQuiet, Zenon
<1> QED BY <1>1, <1>2, <1>4, <1>5, <1>6, <1>7, ThreadStep, Zenon
        DEF IInv, TypeOK, GlobalType, KextType, MemType, globalVars, kextVars,
            memVars

-----------------------------------------------------------------------------
(* The registry, the clock, and the stages of the kext's life.             *)

LEMMA RegistryChangeInv ==
  ASSUME IInv, RegistryChange
  PROVE  IInv'
<1>1. /\ gen \in Nat /\ gen' = gen + 1 /\ gen < MaxGen /\ size' \in Sizes
      /\ UNCHANGED globalVars /\ UNCHANGED kextVars
      /\ UNCHANGED threadVars /\ UNCHANGED memVars
  BY SnapRefreshAssumption DEF RegistryChange, IInv, TypeOK, RegistryType
<1>2. TypeOK'
  <2>1. gen' \in 1 .. MaxGen
    BY <1>1, SnapRefreshAssumption
  <2>2. RegistryType'
    BY <1>1, <2>1, Zenon DEF RegistryType
  <2> QED BY <1>1, <2>2, TypesSame, Zenon DEF IInv, TypeOK
<1>3. OwnerInv' /\ KextInv'
  BY <1>1, Kept DEF IInv, OwnerInv, KextInv, Owner, Recent
<1>4. ASSUME NEW a \in Actors PROVE ActorInv(a)'
  <2>1. ActorInv(a) /\ sample[a] \in Nat
    BY SnapRefreshAssumption DEF IInv, TypeOK, ThreadType
  <2>2. /\ pc' = pc /\ mine' = mine /\ sample' = sample /\ lock' = lock
        /\ kext' = kext /\ snapGen' = snapGen /\ info' = info
    BY <1>1, Kept, Zenon
  <2> QED BY <1>1, <2>1, <2>2, ActorAfterChange, Zenon
<1>5. (snapGen <= gen)' /\ SnapshotAccurate'
  <2>1. snapGen <= gen /\ snapGen \in Nat
    BY SnapRefreshAssumption DEF IInv, TypeOK, GlobalType
  <2> QED BY <1>1, <2>1, Kept DEF SnapshotAccurate
<1>6. SnapshotsAccounted'
  BY <1>1, AccountedSame, Kept, Zenon DEF IInv
<1> QED BY <1>2, <1>3, <1>4, <1>5, <1>6, Zenon DEF IInv

LEMMA TickInv ==
  ASSUME IInv, Tick
  PROVE  IInv'
<1>1. /\ age \in {"ttl", "min"} /\ age' \in {"min", "old"}
      /\ UNCHANGED <<snapshot, snapGen, building, pending, lastCount>>
      /\ UNCHANGED registryVars /\ UNCHANGED kextVars
      /\ UNCHANGED threadVars /\ UNCHANGED memVars
  BY Zenon DEF Tick
<1>2. TypeOK'
  <2>1. GlobalType'
    BY <1>1, Zenon DEF IInv, TypeOK, GlobalType, Ages
  <2> QED BY <1>1, <2>1, TypesSame, Zenon DEF IInv, TypeOK
<1>3. OwnerInv' /\ KextInv'
  BY <1>1, Kept DEF IInv, OwnerInv, KextInv, Owner, Recent
<1>4. ASSUME NEW a \in Actors PROVE ActorInv(a)'
  BY <1>1, ActorSame, Kept, Zenon DEF IInv
<1>5. (snapGen <= gen)' /\ SnapshotAccurate'
  BY <1>1, AccurateSame, Kept, Zenon DEF IInv
<1>6. SnapshotsAccounted'
  BY <1>1, AccountedSame, Kept, Zenon DEF IInv
<1> QED BY <1>2, <1>3, <1>4, <1>5, <1>6, Zenon DEF IInv

\* A step of sysfs_start(), sysfs_stop() or the last unmount, which changes no
\* thread, no snapshot and none of the globals of the refresh.
LEMMA KextStep ==
  ASSUME IInv,
         UNCHANGED registryVars, UNCHANGED globalVars, UNCHANGED threadVars,
         UNCHANGED memVars, UNCHANGED told,
         /\ lock' \in BOOLEAN /\ call' \in BOOLEAN /\ queued' \in BOOLEAN
         /\ kext' \in {"unloaded", "added", "locked", "loaded", "removed"}
         /\ tpc' \in {"none", "wait", "asleep", "clear", "free"}
         /\ mounted' \in BOOLEAN,
         OwnerInv', KextInv',
         \A a \in Actors : Owner(a) \/ pc[a] \in {"ensure", "read"} => lock',
         \A a \in Actors : pc[a] = "enter" => kext' = "loaded"
  PROVE  IInv'
<1>1. TypeOK'
  <2>1. KextType'
    BY Zenon DEF IInv, TypeOK, KextType
  <2> QED BY <2>1, TypesSame, Zenon DEF IInv, TypeOK
<1>2. ASSUME NEW a \in Actors PROVE ActorInv(a)'
  <2>1. ActorInv(a) /\ (Owner(a)' <=> Owner(a))
    BY Kept, Zenon DEF IInv, Owner
  <2> QED BY <2>1, Kept, Zenon DEF ActorInv
<1>3. (snapGen <= gen)' /\ SnapshotAccurate'
  BY AccurateSame, Kept, Zenon DEF IInv
<1>4. SnapshotsAccounted'
  BY AccountedSame, Kept, Zenon DEF IInv
<1> QED BY <1>1, <1>2, <1>3, <1>4, Zenon DEF IInv

LEMMA UnmountInv ==
  ASSUME IInv, Unmount
  PROVE  IInv'
<1>1. /\ UNCHANGED <<lock, call, queued, kext, tpc, told>> /\ ~mounted'
      /\ mounted' \in BOOLEAN
      /\ UNCHANGED registryVars /\ UNCHANGED globalVars
      /\ UNCHANGED threadVars /\ UNCHANGED memVars
  BY Zenon DEF Unmount
<1>2. OwnerInv' /\ KextInv'
  BY <1>1, Kept DEF IInv, OwnerInv, KextInv, Owner, Recent
<1>3. \A a \in Actors :
         /\ Owner(a) \/ pc[a] \in {"ensure", "read"} => lock'
         /\ pc[a] = "enter" => kext' = "loaded"
  BY <1>1, Zenon DEF IInv, ActorInv
<1> QED BY <1>1, <1>2, <1>3, KextStep, Zenon DEF IInv, TypeOK, KextType

LEMMA StartInv ==
  ASSUME IInv, FsAdd \/ InitLock \/ InitCall
  PROVE  IInv'
<1>1. /\ UNCHANGED registryVars /\ UNCHANGED globalVars
      /\ UNCHANGED threadVars /\ UNCHANGED memVars
      /\ UNCHANGED <<queued, tpc, told, mounted>>
      /\ <<kext, kext'>> \in {<<"unloaded", "added">>, <<"added", "locked">>,
                              <<"locked", "loaded">>}
      /\ lock' \in BOOLEAN /\ (lock' <=> (lock \/ kext = "added"))
      /\ call' \in BOOLEAN /\ (call' <=> (call \/ kext = "locked"))
  <2>1. lock \in BOOLEAN /\ call \in BOOLEAN
    BY Zenon DEF IInv, TypeOK, KextType
  <2>2. CASE FsAdd
    BY <2>1, <2>2, Zenon DEF FsAdd
  <2>3. CASE InitLock
    BY <2>1, <2>3, Zenon DEF InitLock
  <2>4. CASE InitCall
    BY <2>1, <2>4, Zenon DEF InitCall
  <2> QED BY <2>2, <2>3, <2>4, Zenon
<1>2. OwnerInv'
  BY <1>1, Kept DEF IInv, OwnerInv, Owner, Recent
<1>3. KextInv'
  BY <1>1, Kept, Zenon DEF IInv, KextInv
<1>4. \A a \in Actors :
         /\ Owner(a) \/ pc[a] \in {"ensure", "read"} => lock'
         /\ pc[a] = "enter" => kext' = "loaded"
  BY <1>1, Zenon DEF IInv, ActorInv
<1> QED BY <1>1, <1>2, <1>3, <1>4, KextStep, Zenon DEF IInv, TypeOK, KextType

LEMMA StopInv ==
  ASSUME IInv, Stop
  PROVE  IInv'
<1>1. /\ UNCHANGED <<lock, call, told, mounted>>
      /\ UNCHANGED registryVars /\ UNCHANGED globalVars
      /\ UNCHANGED threadVars /\ UNCHANGED memVars
      /\ kext = "loaded" /\ ~mounted /\ \A c \in Callers : pc[c] = "idle"
      /\ kext' = "removed" /\ tpc' = "wait"
      /\ ~queued' /\ queued' \in BOOLEAN
  BY Zenon DEF Stop
<1>2. OwnerInv'
  BY <1>1, Kept DEF IInv, OwnerInv, Owner, Recent
<1>3. KextInv'
  BY <1>1, Kept, Zenon DEF IInv, KextInv
<1>4. \A a \in Actors : pc[a] # "enter"
  BY <1>1, Zenon DEF IInv, ActorInv, Actors, Building
<1>5. \A a \in Actors : Owner(a) \/ pc[a] \in {"ensure", "read"} => lock'
  BY <1>1, Zenon DEF IInv, ActorInv
<1> QED BY <1>1, <1>2, <1>3, <1>4, <1>5, KextStep, Zenon DEF IInv, TypeOK, KextType

LEMMA TeardownWaitInv ==
  ASSUME IInv, TeardownWait
  PROVE  IInv'
<1>1. /\ UNCHANGED <<lock, queued, kext, told, mounted>>
      /\ UNCHANGED registryVars /\ UNCHANGED globalVars
      /\ UNCHANGED threadVars /\ UNCHANGED memVars
      /\ tpc = "wait" /\ tpc' = IF building THEN "asleep" ELSE "clear"
      /\ call' \in BOOLEAN /\ (call' => call /\ building)
  BY Zenon DEF TeardownWait, IInv, TypeOK, KextType
<1>2. OwnerInv'
  BY <1>1, Kept DEF IInv, OwnerInv, Owner, Recent
<1>3. KextInv'
  BY <1>1, Kept DEF IInv, KextInv
<1>4. \A a \in Actors :
         /\ Owner(a) \/ pc[a] \in {"ensure", "read"} => lock'
         /\ pc[a] = "enter" => kext' = "loaded"
  BY <1>1, Zenon DEF IInv, ActorInv
<1> QED BY <1>1, <1>2, <1>3, <1>4, KextStep, Zenon DEF IInv, TypeOK, KextType

-----------------------------------------------------------------------------
(* The theorems.                                                           *)

LEMMA InitInv == Init => IInv
<1> SUFFICES ASSUME Init PROVE IInv
  BY Zenon
<1>1. TypeOK
  <2>1. /\ gen \in 1 .. MaxGen /\ size \in Sizes /\ age \in Ages \cup {"none"}
        /\ snapshot \in Snaps \cup {NULL} /\ snapGen \in 0 .. MaxGen
        /\ lastCount \in 0 .. MaxNodes /\ snapBytes \in Nat
        /\ leaked \in 0 .. MaxLeak /\ heap \subseteq Snaps
    BY SnapRefreshAssumption DEF Init, Ages
  <2>2. /\ pc \in [Actors -> PCs] /\ sample \in [Actors -> 0 .. MaxGen]
        /\ mine \in [Actors -> Snaps \cup {NULL}]
        /\ cap \in [Actors -> 0 .. MaxNodes]
        /\ info \in [Snaps -> Contents]
    BY SnapRefreshAssumption DEF Init, PCs, NoContents, Contents
  <2>3. /\ building \in BOOLEAN /\ pending \in BOOLEAN /\ lock \in BOOLEAN
        /\ call \in BOOLEAN /\ queued \in BOOLEAN /\ mounted \in BOOLEAN
        /\ kext \in {"unloaded", "added", "locked", "loaded", "removed"}
        /\ tpc \in {"none", "wait", "asleep", "clear", "free"}
        /\ told \in Snaps \cup {NULL}
    BY Zenon DEF Init
  <2>4. RegistryType /\ GlobalType /\ KextType
    BY <2>1, <2>3, Zenon DEF RegistryType, GlobalType, KextType
  <2>5. ThreadType /\ MemType
    BY <2>1, <2>2, Zenon DEF ThreadType, MemType
  <2> QED BY <2>4, <2>5, Zenon DEF TypeOK
<1>2. OwnerInv /\ KextInv
  <2>1. /\ ~building /\ ~lock /\ ~call /\ ~queued /\ ~mounted
        /\ kext = "unloaded" /\ tpc = "none" /\ told = NULL
        /\ pc = [a \in Actors |-> "idle"]
    BY Zenon DEF Init
  <2>2. \A a \in Actors : ~Owner(a) /\ pc[a] = "idle"
    BY <2>1, Zenon DEF Owner, Building
  <2> QED BY <2>1, <2>2, Zenon DEF OwnerInv, KextInv, Actors
<1>3. \A a \in Actors : ActorInv(a)
  BY DEF Init, ActorInv, Owner, Building
<1>4. snapGen <= gen /\ SnapshotAccurate
  BY DEF Init, SnapshotAccurate
<1>5. SnapshotsAccounted
  <2>1. heap = Held
    BY HeldBy, Zenon DEF Init
  <2>2. snapBytes = Cardinality(heap)
    BY FS_EmptySet, Zenon DEF Init
  <2> QED BY <2>1, <2>2, Zenon DEF Init, SnapshotsAccounted
<1> QED BY <1>1, <1>2, <1>3, <1>4, <1>5, Zenon DEF IInv

LEMMA NextInv == IInv /\ [Next]_vars => IInv'
<1> SUFFICES ASSUME IInv, [Next]_vars PROVE IInv'
  BY Zenon
<1>1. CASE RegistryChange \/ Tick
  BY <1>1, RegistryChangeInv, TickInv, Zenon
<1>2. ASSUME NEW a \in Actors, RefreshStep(a) PROVE IInv'
  BY <1>2, RefreshSampleInv, BuildStartInv, BuildFailInv, WalkInv, PublishInv,
     FreeOldInv, Zenon DEF RefreshStep
<1>3. ASSUME NEW w \in Workers, Run(w) PROVE IInv'
  BY <1>3, RunInv, Zenon
<1>4. ASSUME NEW c \in Callers, Mount(c) \/ Prime(c) \/ Vnop(c) \/ VnopStep(c)
      PROVE  IInv'
  BY <1>4, MountInv, PrimeInv, VnopInv, EnsureInv, ThreadCallEnterInv, ReadInv, Zenon
     DEF VnopStep
<1>5. CASE Unmount
  BY <1>5, UnmountInv, Zenon
<1>6. CASE FsAdd \/ StartStep \/ Stop
  BY <1>6, StartInv, StopInv, Zenon DEF StartStep
<1>7. CASE TeardownStep
  BY <1>7, TeardownWaitInv, TeardownClearInv, TeardownFreeInv, Zenon DEF TeardownStep
<1>8. CASE UNCHANGED vars
  <2>1. /\ UNCHANGED registryVars /\ UNCHANGED globalVars /\ UNCHANGED kextVars
        /\ UNCHANGED threadVars /\ UNCHANGED memVars
    BY <1>8 DEF vars
  <2>2. OwnerInv' /\ KextInv'
    <3>1. OwnerInv'
      BY <2>1, Kept DEF IInv, OwnerInv, Owner, Recent
    <3>2. KextInv'
      BY <2>1, Kept DEF IInv, KextInv
    <3> QED BY <3>1, <3>2, Zenon
  <2>3. \A a \in Actors :
           /\ Owner(a) \/ pc[a] \in {"ensure", "read"} => lock'
           /\ pc[a] = "enter" => kext' = "loaded"
    BY <2>1, Zenon DEF IInv, ActorInv, kextVars
  <2>4. /\ lock' \in BOOLEAN /\ call' \in BOOLEAN /\ queued' \in BOOLEAN
        /\ kext' \in {"unloaded", "added", "locked", "loaded", "removed"}
        /\ tpc' \in {"none", "wait", "asleep", "clear", "free"}
        /\ mounted' \in BOOLEAN /\ UNCHANGED told
    BY <2>1, Kept, Zenon DEF IInv, TypeOK, KextType
  <2> QED BY <2>1, <2>2, <2>3, <2>4, KextStep, Zenon
<1> QED BY <1>1, <1>2, <1>3, <1>4, <1>5, <1>6, <1>7, <1>8, Zenon DEF Next

\* The inductive invariant of the snapshot refresh holds in every reachable
\* state: whatever mounts, vnops, thread_calls, registry changes, failed
\* allocations, unloads and reloads interleave.
THEOREM Invariance == Spec => []IInv
<1>1. Init => IInv
  BY InitInv, Zenon
<1>2. IInv /\ [Next]_vars => IInv'
  BY NextInv, Zenon
<1> QED BY <1>1, <1>2, PTL DEF Spec

\* Type correctness, with every counter and every size within its bounds.
THEOREM TypeCorrect == Spec => []TypeOK
<1>1. IInv => TypeOK
  BY Zenon DEF IInv
<1> QED BY <1>1, Invariance, PTL

\* g_building is the exclusive right to build: sysfs_snap_refresh() runs "only
\* ever on one thread at a time", and while the kext is in use the flag is set
\* exactly when one thread or one queued thread_call will reset it.
THEOREM SingleFlight == Spec => []OneBuildAtATime
<1>1. ASSUME IInv PROVE OneBuildAtATime
  <2> DEFINE E == {c \in Callers : pc[c] = "enter"}
             B == {a \in Actors : pc[a] \in Building}
             q == IF queued THEN 1 ELSE 0
  <2>1. Owners = Cardinality(E) + Cardinality(B) + q
    BY Zenon DEF Owners
  <2>2. /\ \A a, b \in Actors : Owner(a) /\ Owner(b) => a = b
        /\ queued => \A a \in Actors : ~Owner(a)
        /\ queued \/ (\E a \in Actors : Owner(a)) => building
        /\ building /\ tpc = "none" => queued \/ \E a \in Actors : Owner(a)
    BY <1>1, Zenon DEF IInv, OwnerInv
  <2>3. queued \in BOOLEAN /\ building \in BOOLEAN
    BY <1>1, Zenon DEF IInv, TypeOK, KextType, GlobalType
  <2>4. CASE \E a \in Actors : Owner(a)
    <3>1. PICK a \in Actors : Owner(a)
      BY <2>4, Zenon
    <3>2. ~queued /\ building
      BY <2>2, <3>1, Zenon
    <3>3. CASE pc[a] = "enter"
      <4>1. a \in Callers
        <5>1. ActorInv(a)
          BY <1>1, Zenon DEF IInv
        <5> QED BY <3>3, <5>1, Zenon DEF ActorInv, Actors, Building
      <4>2. E = {a}
        BY <2>2, <3>1, <3>3, <4>1, Zenon DEF Owner, Actors
      <4>3. B = {}
        BY <2>2, <3>1, <3>3, Zenon DEF Owner, Building
      <4> HIDE DEF E, B
      <4>4. Cardinality(E) = 1 /\ Cardinality(B) = 0
        BY <4>2, <4>3, FS_Singleton, FS_EmptySet, Zenon
      <4> QED BY <2>1, <2>2, <2>3, <3>2, <4>4 DEF OneBuildAtATime
    <3>4. CASE pc[a] \in Building
      <4>1. E = {}
        BY <2>2, <3>1, <3>4, Zenon DEF Owner, Actors, Building
      <4>2. B = {a}
        BY <2>2, <3>1, <3>4, Zenon DEF Owner
      <4> HIDE DEF E, B
      <4>3. Cardinality(E) = 0 /\ Cardinality(B) = 1
        BY <4>1, <4>2, FS_Singleton, FS_EmptySet, Zenon
      <4> QED BY <2>1, <2>2, <2>3, <3>2, <4>3 DEF OneBuildAtATime
    <3> QED BY <3>1, <3>3, <3>4, Zenon DEF Owner
  <2>5. CASE ~ \E a \in Actors : Owner(a)
    <3>1. E = {} /\ B = {}
      BY <2>5, Zenon DEF Owner, Actors
    <3> HIDE DEF E, B
    <3>2. Cardinality(E) = 0 /\ Cardinality(B) = 0
      BY <3>1, FS_EmptySet, Zenon
    <3> QED BY <2>1, <2>2, <2>3, <2>5, <3>2 DEF OneBuildAtATime
  <2> QED BY <2>4, <2>5, Zenon
<1> QED BY <1>1, Invariance, PTL

\* A stale snapshot is never taken for a current one.
THEOREM NeverStaleAsCurrent == Spec => []SnapshotAccurate
<1>1. IInv => SnapshotAccurate
  BY Zenon DEF IInv
<1> QED BY <1>1, Invariance, PTL

\* No snapshot leaks, is freed twice or is freed under a reader, and the sysctl
\* counts the allocated ones.
THEOREM NoSnapshotLost == Spec => []SnapshotsAccounted
<1>1. IInv => SnapshotsAccounted
  BY Zenon DEF IInv
<1> QED BY <1>1, Invariance, PTL

\* sysfs_iokit_teardown() frees g_lock only after its last user.
THEOREM LockLivesLongEnough == Spec => []LockOutlivesUsers
<1>1. IInv => LockOutlivesUsers
  BY Zenon DEF IInv, ActorInv, Owner, LockOutlivesUsers
<1> QED BY <1>1, Invariance, PTL

\* A thread_call never walks the registry within 30 s of a published walk.
THEOREM RateLimitHolds == Spec => []RateLimited
<1>1. IInv => RateLimited
  BY Zenon DEF IInv, OwnerInv, Owner, RateLimited, Actors
<1> QED BY <1>1, Invariance, PTL

\* A snapshot is never replaced by one of an earlier generation.
THEOREM GenerationsAdvance == Spec => SnapshotsAdvance
<1>1. ASSUME IInv, [Next]_vars, snapshot' # NULL PROVE snapGen <= snapGen'
  <2>1. snapGen \in Int
    BY <1>1, SnapRefreshAssumption DEF IInv, TypeOK, GlobalType
  <2>2. CASE snapGen' = snapGen
    BY <2>1, <2>2
  <2>3. ASSUME NEW a \in Actors, Publish(a) PROVE snapGen <= snapGen'
    <3>1. pc[a] = "publish" /\ (snapGen' = snapGen \/ snapGen' = sample[a])
      BY <2>3, Zenon DEF Publish, PublishAs
    <3>2. ActorInv(a)
      BY <1>1, Zenon DEF IInv
    <3> QED BY <2>2, <3>1, <3>2, Zenon DEF ActorInv
  <2>4. CASE TeardownClear
    BY <1>1, <2>4, Zenon DEF TeardownClear
  <2>5. ASSUME NEW a \in Actors, RefreshStep(a), ~Publish(a) PROVE snapGen' = snapGen
    BY <2>5, Zenon DEF RefreshStep, RefreshSample, BuildStart, BuildFail, Walk,
                WalkDegraded, FreeOld, globalVars
  <2>6. ASSUME NEW w \in Workers, Run(w) PROVE snapGen' = snapGen
    BY <2>6, Kept, Zenon DEF Run
  <2>7. ASSUME NEW c \in Callers, Mount(c) \/ Prime(c) \/ Vnop(c) \/ VnopStep(c)
        PROVE  snapGen' = snapGen
    BY <2>7, Kept, Zenon
       DEF Mount, Prime, Vnop, VnopStep, Ensure, EnsureAs, ThreadCallEnter, Read
  <2>8. CASE \/ RegistryChange \/ Tick \/ Unmount \/ FsAdd \/ StartStep \/ Stop
             \/ TeardownWait \/ TeardownFree \/ UNCHANGED vars
    <3>1. snapGen' = snapGen
      BY <2>8, Zenon
         DEF RegistryChange, Tick, Unmount, FsAdd, StartStep, InitLock,
                  InitCall, Stop, TeardownWait, TeardownFree, globalVars, vars
    <3> QED BY <2>2, <3>1, Zenon
  <2> QED BY <1>1, <2>2, <2>3, <2>4, <2>5, <2>6, <2>7, <2>8, Zenon
          DEF Next, TeardownStep
<1>2. IInv /\ [Next]_vars => [snapshot' # NULL => snapGen <= snapGen']_vars
  BY <1>1, Zenon
<1> QED BY <1>2, Invariance, PTL DEF Spec, SnapshotsAdvance
=============================================================================

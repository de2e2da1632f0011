--------------------------- MODULE SnapBuildProofs ---------------------------
(***************************************************************************)
(* The hash table of a registry snapshot finds exactly the entries of the  *)
(* snapshot, and the child lists are exact, for every registry, every hash *)
(* function and every capacity.                                            *)
(***************************************************************************)
EXTENDS SnapBuild, FiniteSetTheorems, WellFoundedInduction, TLAPS

\* The capacity is a positive number.
LEMMA Capacity == NodeCap \in Nat \ {0}
  BY SnapBuildAssumption

\* What is assumed of registry ids.
LEMMA Ids ==
    /\ 0 \in Regids
    /\ \A r \in Regids : HashOf(r) \in Nat
    /\ \A e \in Entries : e.regid \in Regids /\ e.parent \in Regids
  BY SnapBuildAssumption, Zenon

-----------------------------------------------------------------------------
(* Arithmetic.                                                             *)

\* A set of natural numbers has a least element, and Min is it.
LEMMA MinIsLeast ==
    ASSUME NEW S, S \subseteq Nat, S # {}
    PROVE  Min(S) \in S /\ \A x \in S : Min(S) <= x
  <1>1. PICK x \in S : \A y \in S : ~ (<<y, x>> \in OpToRel(<, Nat))
    BY NatLessThanWellFounded, WFMin, Zenon
  <1>2. \A y \in S : ~(y < x)
    BY <1>1, Zenon DEF OpToRel
  <1>3. \E m \in S : \A y \in S : m <= y
    BY <1>2
  <1> QED
    BY <1>3, Zenon DEF Min

\* The remainder of N * q + s is s.
LEMMA Remainder ==
    ASSUME NEW N \in Nat \ {0}, NEW q \in Nat, NEW s \in 0 .. N - 1
    PROVE  (N * q + s) % N = s
  <1> DEFINE x == N * q + s
  <1>1. x \in Nat /\ N * q \in Nat
    OBVIOUS
  <1>2. PICK p \in Nat, t \in 0 .. N - 1 : x = N * p + t /\ t = x % N
    <2>1. /\ x = N * (x \div N) + (x % N)
          /\ x \div N \in Nat /\ x % N \in 0 .. N - 1
      BY <1>1
    <2> QED
      BY <2>1, Zenon
  <1> HIDE DEF x
  <1>3. N * p \in Int /\ N * q \in Int /\ N * p + t = N * q + s
    BY <1>2 DEF x
  <1>4. N * (p - q) = s - t
    <2>1. N * (p - q) = N * p - N * q
      OBVIOUS
    <2> QED
      BY <1>3, <2>1
  <1>5. p = q
    <2>1. \A d \in Int : /\ d >= 1 => N * d >= N
                         /\ d <= -1 => N * d <= -N
      OBVIOUS
    <2>2. ~(p - q >= 1) /\ ~(p - q <= -1)
      BY <1>4, <2>1
    <2> QED
      BY <2>2
  <1> QED
    BY <1>2, <1>3, <1>5 DEF x

\* The table has more slots than there can be nodes.
LEMMA SizeSuffices == HashSize \in Nat /\ HashSize > NodeCap
  <1> DEFINE S == {n \in {16, 32, 64, 128, 256, 512, 1024, 2048, 4096, 8192,
                          16384, 32768} : n >= 2 * NodeCap}
  <1>1. S \subseteq Nat /\ 32768 \in S
    <2>1. NodeCap \in Nat /\ NodeCap <= 16384
      <3>1. NodeCap \in Nat /\ NodeCap <= SYSFS_IOKIT_MAXNODES
        BY SnapBuildAssumption
      <3>2. SYSFS_IOKIT_MAXNODES = 16384
        BY DEF SYSFS_IOKIT_MAXNODES
      <3> QED
        BY <3>1, <3>2
    <2> QED
      BY <2>1
  <1>2. Min(S) \in S
    BY <1>1, MinIsLeast
  <1>3. HashSize = Min(S)
    BY DEF HashSize
  <1> QED
    BY <1>2, <1>3, Capacity

-----------------------------------------------------------------------------
(* Probing.                                                                *)

\* A probe looks at slots of the table, and at every one of them.
LEMMA ProbeCovers ==
    ASSUME NEW r \in Regids
    PROVE  /\ \A n \in 0 .. HashSize - 1 : Slot(r, n) \in 0 .. HashSize - 1
           /\ \A s \in 0 .. HashSize - 1 : \E n \in 0 .. HashSize - 1 : Slot(r, n) = s
  <1>1. PICK N \in Nat \ {0} : N = HashSize
    BY SizeSuffices, Capacity
  <1>2. PICK h \in Nat : h = HashOf(r)
    BY Ids, Zenon
  <1>3. \A n \in 0 .. N - 1 : (h + n) % N \in 0 .. N - 1
    OBVIOUS
  <1>4. ASSUME NEW s \in 0 .. N - 1
        PROVE  \E n \in 0 .. N - 1 : (h + n) % N = s
    <2>1. PICK q \in Nat, a \in 0 .. N - 1 : h = N * q + a
      <3>1. /\ h = N * (h \div N) + (h % N)
            /\ h \div N \in Nat /\ h % N \in 0 .. N - 1
        OBVIOUS
      <3> QED
        BY <3>1, Zenon
    <2>2. N * q \in Nat /\ N * (q + 1) = N * q + N
      OBVIOUS
    <2>3. CASE s >= a
      <3>1. s - a \in 0 .. N - 1 /\ h + (s - a) = N * q + s
        BY <2>1, <2>2, <2>3
      <3> QED
        BY <3>1, Remainder, Zenon
    <2>4. CASE s < a
      <3>1. (s + N) - a \in 0 .. N - 1 /\ h + ((s + N) - a) = N * (q + 1) + s
        BY <2>1, <2>2, <2>4
      <3>2. q + 1 \in Nat
        OBVIOUS
      <3> QED
        BY <3>1, <3>2, Remainder, Zenon
    <2> QED
      BY <2>3, <2>4
  <1> QED
    BY <1>1, <1>2, <1>3, <1>4, Zenon DEF Slot

\* Where a probe stops first, if it stops.
LEMMA FirstStop ==
    ASSUME NEW h, NEW r, Stops(h, r) # {}
    PROVE  /\ Min(Stops(h, r)) \in Stops(h, r)
           /\ Min(Stops(h, r)) \in 0 .. HashSize - 1
           /\ \A m \in 0 .. Min(Stops(h, r)) - 1 : m \notin Stops(h, r)
  <1>1. Stops(h, r) \subseteq 0 .. HashSize - 1
    BY Zenon DEF Stops
  <1>2. /\ Min(Stops(h, r)) \in Stops(h, r)
        /\ \A x \in Stops(h, r) : Min(Stops(h, r)) <= x
    BY <1>1, SizeSuffices, MinIsLeast
  <1> QED
    BY <1>1, <1>2, SizeSuffices

\* The node that a probe finds is the one at the first stop.
LEMMA FoundAt ==
    ASSUME NEW h, NEW r, NEW n \in 0 .. HashSize - 1, n \in Stops(h, r),
           \A m \in 0 .. n - 1 : m \notin Stops(h, r)
    PROVE  Min(Stops(h, r)) = n /\ HashFind(h, r) = h[Slot(r, n)].index
  <1>1. Min(Stops(h, r)) = n
    BY FirstStop, SizeSuffices
  <1> QED
    BY <1>1, Zenon DEF HashFind

\* Inserting a regid that is not in the table fills the empty slot at which the
\* probe for it stops.
LEMMA InsertFills ==
    ASSUME NEW h, NEW r \in Regids, NEW i, Stops(h, r) # {}, HashFind(h, r) = NONE
    PROVE  \E n \in 0 .. HashSize - 1 :
             /\ h[Slot(r, n)].index = NONE
             /\ \A m \in 0 .. n - 1 : m \notin Stops(h, r)
             /\ HashInsert(h, r, i) =
                  [h EXCEPT ![Slot(r, n)] = [regid |-> r, index |-> i]]
  <1> DEFINE n == Min(Stops(h, r))
  <1>1. n \in 0 .. HashSize - 1 /\ \A m \in 0 .. n - 1 : m \notin Stops(h, r)
    BY FirstStop, Zenon
  <1>2. h[Slot(r, n)].index = NONE
    BY Zenon DEF HashFind
  <1>3. HashInsert(h, r, i) = [h EXCEPT ![Slot(r, n)] = [regid |-> r, index |-> i]]
    BY <1>2, Zenon DEF HashInsert
  <1> HIDE DEF n
  <1> QED
    BY <1>1, <1>2, <1>3, Zenon

-----------------------------------------------------------------------------
(* The invariant of the hash table.                                        *)

\* Number of nodes, and an index that no node has.
LEMMA CountIs ==
    ASSUME NEW c \in 1 .. NodeCap, DOMAIN nodes = 0 .. c - 1
    PROVE  Count = c /\ NONE \notin DOMAIN nodes /\ IsFiniteSet(DOMAIN nodes)
  <1>1. c \in Int /\ c - 1 \in Int /\ NodeCap \in Nat
    BY Capacity
  <1>2. IsFiniteSet(0 .. c - 1) /\ Cardinality(0 .. c - 1) = c
    BY <1>1, FS_Interval
  <1> QED
    BY <1>1, <1>2 DEF Count, NONE

\* Each node is found, and nothing else.
LEMMA FindExact ==
    ASSUME HashInv, NEW r \in Regids
    PROVE  /\ \A i \in DOMAIN nodes : nodes[i].regid = r => HashFind(hash, r) = i
           /\ ~Captured(r) => HashFind(hash, r) = NONE
  <1>1. ASSUME NEW i \in DOMAIN nodes, nodes[i].regid = r
        PROVE  HashFind(hash, r) = i
    <2>1. PICK n \in 0 .. HashSize - 1 :
            /\ hash[Slot(r, n)] = [regid |-> r, index |-> i]
            /\ \A m \in 0 .. n - 1 : m \notin Stops(hash, r)
      BY <1>1, Zenon DEF HashInv, WellPlaced
    <2>2. hash[Slot(r, n)].regid = r /\ hash[Slot(r, n)].index = i
      BY <2>1
    <2>3. n \in Stops(hash, r)
      BY <2>2, Zenon DEF Stops
    <2> QED
      BY <2>1, <2>2, <2>3, FoundAt, Zenon
  <1>2. ASSUME ~Captured(r), HashFind(hash, r) # NONE
        PROVE  FALSE
    <2>1. Stops(hash, r) # {}
      BY <1>2, Zenon DEF HashFind
    <2>2. PICK n \in 0 .. HashSize - 1 :
            n \in Stops(hash, r) /\ HashFind(hash, r) = hash[Slot(r, n)].index
      BY <2>1, FirstStop, Zenon DEF HashFind
    <2>3. PICK s \in 0 .. HashSize - 1 : s = Slot(r, n)
      BY ProbeCovers, Zenon
    <2>4. hash[s].regid = r /\ hash[s].index # NONE
      BY <1>2, <2>2, <2>3, Zenon DEF Stops
    <2>5. hash[s].index \in DOMAIN nodes /\ nodes[hash[s].index].regid = r
      BY <2>4, Zenon DEF HashInv
    <2> QED
      BY <1>2, <2>5, Zenon DEF Captured
  <1> QED
    BY <1>1, <1>2, Zenon

\* There is always an empty slot, so that every probe stops.
LEMMA EverStops ==
    ASSUME HashInv, NEW r \in Regids
    PROVE  Stops(hash, r) # {}
  <1>1. PICK c \in 1 .. NodeCap : DOMAIN nodes = 0 .. c - 1
    BY Zenon DEF HashInv
  <1>2. PICK s \in 0 .. HashSize - 1 : hash[s].index = NONE
    <2> SUFFICES ASSUME \A s \in 0 .. HashSize - 1 : hash[s].index # NONE
                 PROVE  FALSE
      BY Zenon
    <2> DEFINE f == [s \in 0 .. HashSize - 1 |-> hash[s].index]
    <2>1. f \in [0 .. HashSize - 1 -> 0 .. c - 1]
      BY <1>1, Zenon DEF HashInv
    <2>2. /\ IsFiniteSet(0 .. HashSize - 1) /\ IsFiniteSet(0 .. c - 1)
          /\ Cardinality(0 .. c - 1) < Cardinality(0 .. HashSize - 1)
      <3>1. /\ IsFiniteSet(0 .. HashSize - 1)
            /\ Cardinality(0 .. HashSize - 1) = HashSize
        BY SizeSuffices, FS_Interval, Capacity
      <3>2. IsFiniteSet(0 .. c - 1) /\ Cardinality(0 .. c - 1) = c
        BY FS_Interval, Capacity
      <3>3. c < HashSize
        BY SizeSuffices, Capacity
      <3> QED
        BY <3>1, <3>2, <3>3, Zenon
    <2> HIDE DEF f
    <2>3. \E s, t \in 0 .. HashSize - 1 : s # t /\ f[s] = f[t]
      BY <2>1, <2>2, FS_PigeonHole, Zenon
    <2> QED
      BY <2>3, Zenon DEF HashInv, f
  <1>3. PICK n \in 0 .. HashSize - 1 : Slot(r, n) = s
    BY ProbeCovers, Zenon
  <1> QED
    BY <1>2, <1>3, Zenon DEF Stops

\* The root is inserted into the empty table.
LEMMA InitHash == Init => HashInv
  <1> SUFFICES ASSUME Init PROVE HashInv
    BY Zenon
  <1> DEFINE empty == [s \in 0 .. HashSize - 1 |-> [regid |-> 0, index |-> NONE]]
  <1>1. 0 \in Regids /\ NodeCap \in Nat \ {0} /\ HashSize \in Nat \ {0}
    BY Ids, Capacity, SizeSuffices
  <1>2. /\ DOMAIN nodes = 0 .. 0
        /\ nodes[0].regid = 0 /\ nodes[0].parent = 0
        /\ IsNode(nodes[0])
    <2>1. nodes = [i \in {0} |-> NewNode(0, 0, "", 0, {}, "")]
      BY Zenon DEF Init
    <2>2. DOMAIN nodes = {0} /\ nodes[0] = NewNode(0, 0, "", 0, {}, "")
      BY <2>1, Zenon
    <2>3. {0} = 0 .. 0
      OBVIOUS
    <2>4. nodes[0].regid = 0 /\ nodes[0].parent = 0
      <3>1. /\ NewNode(0, 0, "", 0, {}, "").regid = 0
            /\ NewNode(0, 0, "", 0, {}, "").parent = 0
        BY Zenon DEF NewNode
      <3> QED
        BY <2>2, <3>1, Zenon
    <2>5. IsNode(nodes[0])
      BY <2>2, Zenon DEF IsNode
    <2> QED
      BY <2>2, <2>3, <2>4, <2>5, Zenon
  <1>3. \A s \in 0 .. HashSize - 1 : empty[s].index = NONE
    BY Zenon
  <1>4. Stops(empty, 0) # {} /\ HashFind(empty, 0) = NONE
    <2>1. Stops(empty, 0) # {}
      BY <1>1, <1>3, ProbeCovers DEF Stops
    <2> QED
      BY <1>1, <1>3, <2>1, FirstStop, ProbeCovers, Zenon DEF HashFind
  <1>5. PICK n \in 0 .. HashSize - 1 :
          /\ \A m \in 0 .. n - 1 : m \notin Stops(empty, 0)
          /\ hash = [empty EXCEPT ![Slot(0, n)] = [regid |-> 0, index |-> 0]]
    BY <1>1, <1>4, InsertFills, Zenon DEF Init
  <1>6. n = 0
    <2>1. 0 \in Stops(empty, 0)
      BY <1>1, <1>3, ProbeCovers DEF Stops
    <2> QED
      BY <1>1, <1>5, <2>1
  <1>7. PICK at \in 0 .. HashSize - 1 : at = Slot(0, 0)
    BY <1>1, ProbeCovers
  <1>8. /\ hash = [empty EXCEPT ![at] = [regid |-> 0, index |-> 0]]
        /\ DOMAIN hash = 0 .. HashSize - 1
    BY <1>5, <1>6, <1>7, Zenon
  <1>9. /\ hash[at] = [regid |-> 0, index |-> 0]
        /\ \A s \in 0 .. HashSize - 1 : s # at => hash[s] = [regid |-> 0, index |-> NONE]
    BY <1>8, Zenon
  <1>10. hash \in [0 .. HashSize - 1 ->
                     [regid : Regids, index : DOMAIN nodes \cup {NONE}]]
    BY <1>1, <1>2, <1>8
  <1>11. WellPlaced(0)
    BY <1>1, <1>2, <1>7, <1>9 DEF WellPlaced
  <1> HIDE DEF empty
  <1>12. /\ \E c \in 1 .. NodeCap : DOMAIN nodes = 0 .. c - 1
         /\ \A i \in DOMAIN nodes : i = 0
    BY <1>1, <1>2
  <1> QED
    BY <1>1, <1>2, <1>8, <1>9, <1>10, <1>11, <1>12, SMTT(20) DEF HashInv

\* A new entry is appended to the nodes and inserted into the table.  It takes
\* an empty slot, so that every other node stays where its probe stops.
LEMMA VisitHash ==
    ASSUME HashInv, NEW e \in Entries, Visit(e)
    PROVE  HashInv'
  <1>1. PICK c \in 1 .. NodeCap : DOMAIN nodes = 0 .. c - 1
    BY Zenon DEF HashInv
  <1>2. PICK r \in Regids : r = e.regid
    BY Ids, Zenon
  <1>3. Count = c /\ c < NodeCap /\ c \in Nat /\ NodeCap \in Nat
    BY <1>1, CountIs, Capacity DEF Visit
  <1>4. /\ DOMAIN nodes' = 0 .. c
        /\ \A i \in 0 .. c - 1 : nodes'[i] = nodes[i]
        /\ nodes'[c].regid = r /\ nodes'[c].parent = e.parent
        /\ IsNode(nodes'[c])
    <2>1. PICK new : /\ nodes' = [i \in 0 .. c |-> IF i < c THEN nodes[i] ELSE new]
                     /\ new.regid = r /\ new.parent = e.parent
                     /\ IsNode(new)
      BY <1>2, <1>3 DEF Visit, NewNode, IsNode
    <2> QED
      BY <1>3, <2>1
  <1>5. ~Captured(r) /\ HashFind(hash, r) = NONE
    <2>1. HashFind(hash, r) = NONE
      BY <1>2, Zenon DEF Visit
    <2>2. NONE \notin DOMAIN nodes
      BY <1>1, CountIs, Zenon
    <2> QED
      BY <2>1, <2>2, FindExact, Zenon DEF Captured
  <1>6. PICK n \in 0 .. HashSize - 1 :
          /\ hash[Slot(r, n)].index = NONE
          /\ \A m \in 0 .. n - 1 : m \notin Stops(hash, r)
          /\ hash' = [hash EXCEPT ![Slot(r, n)] = [regid |-> r, index |-> c]]
    <2>1. hash' = HashInsert(hash, r, c)
      BY <1>2, <1>3, Zenon DEF Visit
    <2> QED
      BY <1>5, <2>1, EverStops, InsertFills, Zenon
  <1>7. PICK at \in 0 .. HashSize - 1 : at = Slot(r, n)
    BY ProbeCovers
  <1>8. /\ DOMAIN hash = 0 .. HashSize - 1 /\ DOMAIN hash' = 0 .. HashSize - 1
        /\ hash[at].index = NONE
        /\ hash'[at] = [regid |-> r, index |-> c]
        /\ \A s \in 0 .. HashSize - 1 : s # at => hash'[s] = hash[s]
    BY <1>6, <1>7, Zenon DEF HashInv
  <1>9. hash' \in [0 .. HashSize - 1 ->
                     [regid : Regids, index : DOMAIN nodes' \cup {NONE}]]
    BY <1>1, <1>3, <1>4, <1>6, <1>7 DEF HashInv
  <1>10. \A m \in 0 .. HashSize - 1 : \A q \in Regids :
           m \in Stops(hash, q) \/ (/\ m \notin Stops(hash', q)
                                   /\ hash'[Slot(q, m)] = hash[Slot(q, m)])
           \/ Slot(q, m) = at
    BY <1>8, ProbeCovers, Zenon DEF Stops
  <1>11. \A m \in 0 .. HashSize - 1 : \A q \in Regids :
           Slot(q, m) = at => m \in Stops(hash, q)
    BY <1>8, Zenon DEF Stops
  <1>12. ASSUME NEW i \in 0 .. c - 1
         PROVE  WellPlaced(i)'
    <2>1. PICK q \in Regids : q = nodes[i].regid /\ q = nodes'[i].regid
      BY <1>1, <1>4, Zenon DEF HashInv
    <2>2. PICK k \in 0 .. HashSize - 1 :
            /\ hash[Slot(q, k)] = [regid |-> q, index |-> i]
            /\ \A m \in 0 .. k - 1 : m \notin Stops(hash, q)
      BY <1>1, <2>1, Zenon DEF HashInv, WellPlaced
    <2>3. hash'[Slot(q, k)] = [regid |-> q, index |-> i]
      <3>1. Slot(q, k) \in 0 .. HashSize - 1
        BY ProbeCovers, Zenon
      <3>2. i # NONE
        BY <1>1, CountIs, Zenon
      <3>3. hash[Slot(q, k)].index # NONE
        BY <2>2, <3>2
      <3> QED
        BY <1>8, <2>2, <3>1, <3>3, Zenon
    <2>4. \A m \in 0 .. k - 1 : m \notin Stops(hash', q)
      BY <1>10, <1>11, <2>2, SizeSuffices
    <2> QED
      BY <2>1, <2>2, <2>3, <2>4, Zenon DEF WellPlaced
  <1>13. WellPlaced(c)'
    <2>1. \A m \in 0 .. n - 1 : m \in 0 .. HashSize - 1 /\ m \notin Stops(hash', r)
      <3>1. \A m \in 0 .. n - 1 : m \in 0 .. HashSize - 1
        BY SizeSuffices
      <3> QED
        BY <1>6, <1>10, <1>11, <3>1, Zenon
    <2> QED
      BY <1>4, <1>7, <1>8, <2>1, Zenon DEF WellPlaced
  <1>14. \A i \in 0 .. c : i \in 0 .. c - 1 \/ i = c
    BY <1>3
  <1>15. \A s \in 0 .. HashSize - 1 : hash'[s].index # NONE =>
           nodes'[hash'[s].index].regid = hash'[s].regid
    BY <1>1, <1>4, <1>8, SMTT(20) DEF HashInv
  <1>16. \A s, t \in 0 .. HashSize - 1 :
           hash'[s].index # NONE /\ hash'[s].index = hash'[t].index => s = t
    <2>1. \A s \in 0 .. HashSize - 1 : hash[s].index # c
      BY <1>1, <1>3 DEF HashInv, NONE
    <2> QED
      BY <1>8, <2>1 DEF HashInv
  <1>17. \E d \in 1 .. NodeCap : DOMAIN nodes' = 0 .. d - 1
    <2>1. c + 1 \in 1 .. NodeCap /\ (c + 1) - 1 = c
      BY <1>3
    <2> QED
      BY <1>4, <2>1, Zenon
  <1>18. \A i \in DOMAIN nodes' :
           /\ IsNode(nodes'[i])
           /\ nodes'[i].regid \in Regids /\ nodes'[i].parent \in Regids
    BY <1>1, <1>4, <1>14, Ids, Zenon DEF HashInv
  <1> QED
    BY <1>4, <1>8, <1>9, <1>12, <1>13, <1>14, <1>15, <1>16, <1>17, <1>18, Zenon DEF HashInv

\* The end of the walk leaves the table and the identity of the nodes alone.
LEMMA LinkHash ==
    ASSUME HashInv, Link \/ LinkNoCounts \/ LinkNoCursor
    PROVE  /\ HashInv'
           /\ UNCHANGED hash /\ DOMAIN nodes' = DOMAIN nodes
           /\ \A i \in DOMAIN nodes : /\ nodes'[i].regid = nodes[i].regid
                                      /\ nodes'[i].parent = nodes[i].parent
  <1>1. /\ UNCHANGED hash /\ DOMAIN nodes' = DOMAIN nodes
        /\ \A i \in DOMAIN nodes : /\ nodes'[i].regid = nodes[i].regid
                                   /\ nodes'[i].parent = nodes[i].parent
                                   /\ IsNode(nodes'[i])
    <2>1. \A i \in DOMAIN nodes :
            /\ IsNode(nodes[i])
            /\ "regid" \in DOMAIN nodes[i] /\ "parent" \in DOMAIN nodes[i]
      BY Zenon DEF HashInv, NewNode, IsNode
    <2>2. CASE Link
      BY <2>1, <2>2, Zenon DEF Link, IsNode
    <2>3. CASE LinkNoCounts
      BY <2>1, <2>3, Zenon DEF LinkNoCounts
    <2>4. CASE LinkNoCursor
      BY <2>1, <2>4, Zenon DEF LinkNoCursor, IsNode
    <2> QED
      BY <2>2, <2>3, <2>4, Zenon
  <1>2. \A i \in DOMAIN nodes : WellPlaced(i) => WellPlaced(i)'
    BY <1>1 DEF WellPlaced, Stops
  <1>3. HashInv'
    BY <1>1, <1>2, Zenon DEF HashInv
  <1> QED
    BY <1>1, <1>3, Zenon

\* Every step of the build preserves the invariant.
LEMMA NextHash == HashInv /\ [Next]_vars => HashInv'
  <1> SUFFICES ASSUME HashInv, [Next]_vars PROVE HashInv'
    BY Zenon
  <1>1. ASSUME NEW e \in Entries, Visit(e) PROVE HashInv'
    BY <1>1, VisitHash, Zenon
  <1>2. CASE Link \/ LinkNoCounts \/ LinkNoCursor
    BY <1>2, LinkHash, Zenon
  <1>3. CASE UNCHANGED vars
    BY <1>3, Zenon DEF vars, HashInv, WellPlaced, Stops
  <1> QED
    BY <1>1, <1>2, <1>3, Zenon DEF Next

\* At every moment of the build a probe for the registry id of a node stops at
\* that node first, and the slots in use are those of the nodes.
THEOREM HashInvariance == Spec => []HashInv
  BY InitHash, NextHash, PTL DEF Spec

\* sysfs_hash_find() finds exactly the entries of the snapshot.
THEOREM HashIsExact == Spec => []HashExact
  <1>1. HashInv => HashExact
    <2> SUFFICES ASSUME HashInv, NEW r \in Regids
                 PROVE  IF Captured(r)
                        THEN /\ HashFind(hash, r) # NONE
                             /\ nodes[HashFind(hash, r)].regid = r
                        ELSE HashFind(hash, r) = NONE
      BY Zenon DEF HashExact
    <2>1. NONE \notin DOMAIN nodes
      BY CountIs, Zenon DEF HashInv
    <2> QED
      BY <2>1, FindExact, Zenon DEF Captured
  <1> QED
    BY <1>1, HashInvariance, PTL

-----------------------------------------------------------------------------
(* The child lists.                                                        *)

\* The nodes that become the children of p, and how many siblings come before i.
Kids(p) == {i \in DOMAIN nodes \ {0} : ParentIndex(i) = p}

Rank(i) == Cardinality({k \in 1 .. i - 1 : ParentIndex(k) = ParentIndex(i)})

\* A subset has at most as many elements, and fewer if it misses one.
LEMMA Fewer ==
    ASSUME NEW S, IsFiniteSet(S), NEW T \in SUBSET S
    PROVE  /\ IsFiniteSet(T) /\ Cardinality(T) \in Nat /\ Cardinality(S) \in Nat
           /\ Cardinality(T) <= Cardinality(S)
           /\ \A x \in S \ T : Cardinality(T) < Cardinality(S)
  <1>1. IsFiniteSet(T) /\ Cardinality(T) <= Cardinality(S)
    BY FS_Subset, Zenon
  <1>2. Cardinality(T) \in Nat /\ Cardinality(S) \in Nat
    BY <1>1, FS_CardinalityType, Zenon
  <1>3. ASSUME NEW x \in S \ T PROVE Cardinality(T) # Cardinality(S)
    BY FS_Subset, Zenon
  <1> QED
    BY <1>1, <1>2, <1>3

\* Disjoint parts of a set have together at most as many elements as the set.
LEMMA Parts ==
    ASSUME NEW S, IsFiniteSet(S), NEW A \in SUBSET S, NEW B \in SUBSET S, A \cap B = {}
    PROVE  Cardinality(A) + Cardinality(B) <= Cardinality(S)
  <1>1. IsFiniteSet(A) /\ IsFiniteSet(B)
    BY FS_Subset, Zenon
  <1>2. Cardinality(A) \in Nat /\ Cardinality(B) \in Nat
    BY <1>1, FS_CardinalityType, Zenon
  <1>3. Cardinality(A \cap B) = 0
    BY FS_EmptySet, Zenon
  <1>4. Cardinality(A \cup B) = Cardinality(A) + Cardinality(B)
    <2>1. Cardinality(A \cup B) =
            Cardinality(A) + Cardinality(B) - Cardinality(A \cap B)
      BY <1>1, FS_Union, Zenon
    <2> QED
      BY <1>2, <1>3, <2>1
  <1>5. A \cup B \in SUBSET S
    BY Zenon
  <1>6. Cardinality(A \cup B) <= Cardinality(S)
    BY <1>5, FS_Subset, Zenon
  <1> QED
    BY <1>4, <1>6, Zenon

\* The parent of a node is the node with its parent's registry id, or the root.
LEMMA ParentIs ==
    ASSUME HashInv, NEW i \in DOMAIN nodes
    PROVE  /\ ParentIndex(i) \in DOMAIN nodes
           /\ \A p \in DOMAIN nodes :
                ParentIndex(i) = p <=>
                  IF Captured(nodes[i].parent)
                  THEN nodes[i].parent = nodes[p].regid ELSE p = 0
  <1>1. PICK c \in 1 .. NodeCap : DOMAIN nodes = 0 .. c - 1
    BY Zenon DEF HashInv
  <1>2. PICK r \in Regids : r = nodes[i].parent
    BY Zenon DEF HashInv
  <1>3. NONE \notin DOMAIN nodes /\ 0 \in DOMAIN nodes
    BY <1>1, CountIs
  <1>4. CASE Captured(r)
    <2>1. PICK q \in DOMAIN nodes : nodes[q].regid = r
      BY <1>4, Zenon DEF Captured
    <2>2. HashFind(hash, r) = q
      BY <2>1, FindExact, Zenon
    <2>3. ParentIndex(i) = q
      BY <1>2, <1>3, <2>2, Zenon DEF ParentIndex
    <2>4. \A p \in DOMAIN nodes : nodes[p].regid = r => p = q
      BY <2>2, FindExact, Zenon
    <2> QED
      BY <1>2, <1>4, <2>1, <2>3, <2>4, SMTT(20)
  <1>5. CASE ~Captured(r)
    <2>1. ParentIndex(i) = 0
      BY <1>2, <1>5, FindExact, Zenon DEF ParentIndex
    <2> QED
      BY <1>2, <1>3, <1>5, <2>1, SMTT(20)
  <1> QED
    BY <1>4, <1>5, Zenon

\* The ranks of the children of p are 0 .. ChildCount(p) - 1, in their order.
LEMMA Ranks ==
    ASSUME HashInv, NEW p \in DOMAIN nodes
    PROVE  /\ ChildCount(p) \in Nat
           /\ \A i \in Kids(p) : Rank(i) \in 0 .. ChildCount(p) - 1
           /\ \A i, j \in Kids(p) : i < j => Rank(i) < Rank(j)
           /\ \A k \in 0 .. ChildCount(p) - 1 : \E i \in Kids(p) : Rank(i) = k
  <1>1. PICK c \in 1 .. NodeCap : DOMAIN nodes = 0 .. c - 1
    BY Zenon DEF HashInv
  <1>2. c \in Nat /\ DOMAIN nodes \ {0} = 1 .. c - 1
    BY <1>1, Capacity
  <1>3. IsFiniteSet(Kids(p)) /\ ChildCount(p) = Cardinality(Kids(p))
    <2>1. IsFiniteSet(1 .. c - 1) /\ Kids(p) \in SUBSET (1 .. c - 1)
      BY <1>2, FS_Interval DEF Kids
    <2> QED
      BY <2>1, FS_Subset, Zenon DEF ChildCount, Kids
  <1>4. ChildCount(p) \in Nat
    BY <1>3, FS_CardinalityType, Zenon
  <1>5. \A i \in Kids(p) : i \in Nat \ {0} /\ ParentIndex(i) = p
    BY <1>2 DEF Kids
  <1> DEFINE Before(i) == {k \in 1 .. i - 1 : ParentIndex(k) = p}
  <1>6. \A i \in Kids(p) :
          /\ i \in 1 .. c - 1 /\ Rank(i) = Cardinality(Before(i))
          /\ Before(i) \in SUBSET Kids(p) /\ i \notin Before(i)
    BY <1>2 DEF Kids, Rank
  <1>7. ASSUME NEW i \in Kids(p) PROVE Rank(i) \in 0 .. ChildCount(p) - 1
    <2>1. /\ Cardinality(Before(i)) \in Nat
          /\ Cardinality(Before(i)) < Cardinality(Kids(p))
      BY <1>3, <1>6, Fewer, Zenon
    <2> QED
      BY <1>3, <1>4, <1>6, <2>1, SMTT(20)
  <1>8. ASSUME NEW i \in Kids(p), NEW j \in Kids(p), i < j
        PROVE  Rank(i) < Rank(j)
    <2>1. IsFiniteSet(Before(j))
      BY <1>3, <1>6, Fewer, Zenon
    <2>2. Before(i) \in SUBSET Before(j) /\ i \in Before(j) \ Before(i)
      BY <1>8, <1>5
    <2>3. Cardinality(Before(i)) < Cardinality(Before(j))
      BY <2>1, <2>2, Fewer, Zenon
    <2> QED
      BY <1>6, <2>3, Zenon
  <1>9. ASSUME NEW k \in 0 .. ChildCount(p) - 1
        PROVE  \E i \in Kids(p) : Rank(i) = k
    <2> DEFINE T == 0 .. ChildCount(p) - 1
               f == [i \in Kids(p) |-> Rank(i)]
    <2>1. f \in [Kids(p) -> T]
      BY <1>7, Zenon
    <2>2. \A i, j \in Kids(p) : f[i] = f[j] => i = j
      <3> SUFFICES ASSUME NEW i \in Kids(p), NEW j \in Kids(p), i # j
                   PROVE  Rank(i) # Rank(j)
        BY Zenon
      <3>1. i \in Int /\ j \in Int /\ (i < j \/ j < i)
        BY <1>5
      <3>2. Rank(i) \in Int /\ Rank(j) \in Int
        BY <1>7
      <3> QED
        BY <1>8, <3>1, <3>2
    <2>3. IsFiniteSet(T) /\ Cardinality(T) = ChildCount(p)
      BY <1>4, FS_Interval
    <2> HIDE DEF f, T
    <2>4. f \in Injection(Kids(p), T)
      BY <2>1, <2>2, Zenon DEF Injection, IsInjective
    <2>5. f \in Surjection(Kids(p), T)
      BY <1>3, <2>3, <2>4, FS_Injection, SMTT(20)
    <2>6. k \in T
      BY Zenon DEF T
    <2>7. \E i \in Kids(p) : f[i] = k
      BY <2>5, <2>6, Zenon DEF Surjection
    <2> QED
      BY <2>7, Zenon DEF f
  <1> QED
    BY <1>4, <1>7, <1>8, <1>9, SMTT(20)

\* The start of a child list is a natural number.
LEMMA FirstIsNat ==
    ASSUME NEW c \in 1 .. NodeCap, DOMAIN nodes = 0 .. c - 1, NEW p
    PROVE  FirstChild(p) \in Nat
  <1> DEFINE A == {i \in DOMAIN nodes \ {0} : ParentIndex(i) < p}
  <1>1. IsFiniteSet(0 .. c - 1)
    BY CountIs, Zenon
  <1>2. IsFiniteSet(A)
    BY <1>1, FS_Subset, Zenon
  <1> QED
    BY <1>2, FS_CardinalityType, Zenon DEF FirstChild

\* The lists of two parents do not overlap.
LEMMA ListsApart ==
    ASSUME HashInv, NEW p \in DOMAIN nodes, NEW q \in DOMAIN nodes, p < q
    PROVE  /\ FirstChild(p) \in Nat /\ FirstChild(q) \in Nat
           /\ FirstChild(p) + ChildCount(p) <= FirstChild(q)
  <1>1. PICK c \in 1 .. NodeCap : DOMAIN nodes = 0 .. c - 1
    BY Zenon DEF HashInv
  <1>2. c \in Nat /\ DOMAIN nodes \ {0} = 1 .. c - 1 /\ p \in Nat /\ q \in Nat
    BY <1>1, Capacity
  <1> DEFINE A == {i \in DOMAIN nodes \ {0} : ParentIndex(i) < p}
             B == {i \in DOMAIN nodes \ {0} : ParentIndex(i) = p}
             S == {i \in DOMAIN nodes \ {0} : ParentIndex(i) < q}
  <1>3. \A i \in DOMAIN nodes : ParentIndex(i) \in Nat
    BY <1>1, ParentIs
  <1>4. A \in SUBSET S /\ B \in SUBSET S /\ A \cap B = {}
    BY <1>2, <1>3
  <1>5. IsFiniteSet(S) /\ IsFiniteSet(A)
    <2>1. IsFiniteSet(1 .. c - 1)
      BY <1>2, FS_Interval
    <2>2. S \in SUBSET (1 .. c - 1)
      BY <1>2, Zenon
    <2>3. IsFiniteSet(S)
      BY <2>1, <2>2, FS_Subset, Zenon
    <2> QED
      BY <1>4, <2>3, FS_Subset, Zenon
  <1>6. FirstChild(p) = Cardinality(A) /\ ChildCount(p) = Cardinality(B)
        /\ FirstChild(q) = Cardinality(S)
    BY Zenon DEF FirstChild, ChildCount
  <1> HIDE DEF A, B, S
  <1> QED
    BY <1>4, <1>5, <1>6, Parts, FS_CardinalityType, SMTT(20)

\* No two nodes are written to the same place of child_idx.
LEMMA PlacesDiffer ==
    ASSUME HashInv, NEW i \in DOMAIN nodes \ {0}, NEW j \in DOMAIN nodes \ {0},
           Place(i) = Place(j)
    PROVE  i = j
  <1> DEFINE p == ParentIndex(i)
             q == ParentIndex(j)
  <1>1. PICK c \in 1 .. NodeCap : DOMAIN nodes = 0 .. c - 1
    BY Zenon DEF HashInv
  <1>2. p \in DOMAIN nodes /\ q \in DOMAIN nodes /\ i \in Kids(p) /\ j \in Kids(q)
    BY ParentIs, Zenon DEF Kids
  <1>3. i \in Nat /\ j \in Nat /\ p \in Nat /\ q \in Nat
    BY <1>1, <1>2
  <1>4. FirstChild(p) + Rank(i) = FirstChild(q) + Rank(j)
    BY Zenon DEF Place, Rank
  <1> HIDE DEF p, q
  <1>5. /\ ChildCount(p) \in Nat /\ Rank(i) \in 0 .. ChildCount(p) - 1
        /\ ChildCount(q) \in Nat /\ Rank(j) \in 0 .. ChildCount(q) - 1
    BY <1>2, Ranks, Zenon
  <1>6. FirstChild(p) \in Nat /\ FirstChild(q) \in Nat
    BY <1>1, <1>2, FirstIsNat, Zenon
  <1>7. Rank(i) \in Nat /\ Rank(j) \in Nat
        /\ Rank(i) < ChildCount(p) /\ Rank(j) < ChildCount(q)
    BY <1>5
  <1>8. p = q
    <2>1. ASSUME p < q PROVE FALSE
      <3>1. FirstChild(p) + ChildCount(p) <= FirstChild(q)
        BY <1>2, <2>1, ListsApart, Zenon
      <3> QED
        BY <1>4, <1>5, <1>6, <1>7, <3>1, SMTT(20)
    <2>2. ASSUME q < p PROVE FALSE
      <3>1. FirstChild(q) + ChildCount(q) <= FirstChild(p)
        BY <1>2, <2>2, ListsApart, Zenon
      <3> QED
        BY <1>4, <1>5, <1>6, <1>7, <3>1
    <2> QED
      BY <1>3, <2>1, <2>2
  <1>9. Rank(i) = Rank(j)
    <2>1. FirstChild(p) + Rank(i) = FirstChild(p) + Rank(j)
      BY <1>4, <1>8, Zenon
    <2> QED
      BY <1>6, <1>7, <2>1
  <1>10. ~(i < j) /\ ~(j < i)
    BY <1>2, <1>7, <1>8, <1>9, Ranks, SMTT(20)
  <1> QED
    BY <1>3, <1>10

\* The walk has published nothing, and Link writes every child to its place.
LEMMA LinkLists ==
    ASSUME HashInv, Link
    PROVE  ChildListsExact'
  <1> SUFFICES ASSUME NEW p \in DOMAIN nodes'
               PROVE  LET child(i) ==
                            IF Captured(nodes[i].parent)
                            THEN nodes[i].parent = nodes[p].regid ELSE p = 0
                          listed(k) == childIdx[nodes[p].first + k]
                          places == 0 .. nodes[p].num - 1
                      IN  (/\ \A k \in places : nodes[p].first + k \in DOMAIN childIdx
                           /\ {i \in DOMAIN nodes \ {0} : child(i)}
                                = {listed(k) : k \in places}
                           /\ \A j, k \in places : j < k => listed(j) < listed(k))'
    BY Zenon DEF ChildListsExact
  <1>1. PICK c \in 1 .. NodeCap : DOMAIN nodes = 0 .. c - 1
    BY DEF HashInv
  <1>2. /\ DOMAIN nodes' = DOMAIN nodes
        /\ \A i \in DOMAIN nodes : /\ nodes'[i].regid = nodes[i].regid
                                   /\ nodes'[i].parent = nodes[i].parent
    BY LinkHash, Zenon
  <1>3. p \in DOMAIN nodes
    BY <1>2, Zenon
  <1>4. nodes'[p].first = FirstChild(p) /\ nodes'[p].num = ChildCount(p)
    <2>1. nodes'[p] = [nodes[p] EXCEPT !.first = FirstChild(p), !.num = ChildCount(p),
                         !.dup = IF p = 0 THEN 0 ELSE DupOrdinal(p)]
      BY <1>3, Zenon DEF Link
    <2>2. "first" \in DOMAIN nodes[p] /\ "num" \in DOMAIN nodes[p]
      BY <1>3, Zenon DEF HashInv, IsNode, NewNode
    <2> QED
      BY <2>1, <2>2, Zenon
  <1>5. \A i \in DOMAIN nodes \ {0} :
          /\ Place(i) \in DOMAIN childIdx' /\ childIdx'[Place(i)] = i
    <2> SUFFICES ASSUME NEW i \in DOMAIN nodes \ {0}
                 PROVE  Place(i) \in DOMAIN childIdx' /\ childIdx'[Place(i)] = i
      BY Zenon
    <2>1. childIdx' = [at \in {Place(k) : k \in DOMAIN nodes \ {0}} |->
                         Max({k \in DOMAIN nodes \ {0} : Place(k) = at})]
      BY Zenon DEF Link
    <2>2. {k \in DOMAIN nodes \ {0} : Place(k) = Place(i)} = {i}
      BY PlacesDiffer, Zenon
    <2>3. Max({i}) = i
      <3>1. i \in Int
        BY <1>1
      <3> QED
        BY <3>1 DEF Max
    <2> QED
      BY <2>1, <2>2, <2>3, Zenon
  <1>6. \A i \in Kids(p) : Place(i) = FirstChild(p) + Rank(i)
    BY Zenon DEF Kids, Place, Rank
  <1> DEFINE listed(k) == childIdx'[FirstChild(p) + k]
             places == 0 .. ChildCount(p) - 1
  <1>7. \A i \in Kids(p) : Rank(i) \in places /\ listed(Rank(i)) = i
    BY <1>3, <1>5, <1>6, Ranks, SMTT(20) DEF Kids
  <1>8. \A k \in places : \E i \in Kids(p) :
          /\ Rank(i) = k /\ listed(k) = i
          /\ FirstChild(p) + k \in DOMAIN childIdx'
    <2> TAKE k \in places
    <2>1. PICK i \in Kids(p) : Rank(i) = k
      BY <1>3, Ranks, Zenon
    <2> QED
      BY <1>5, <1>6, <1>7, <2>1, SMTT(20) DEF Kids
  <1>9. {i \in DOMAIN nodes' \ {0} : IF Captured(nodes[i].parent)'
                                       THEN nodes'[i].parent = nodes'[p].regid
                                       ELSE p = 0} = Kids(p)
    <2>1. \A i \in DOMAIN nodes : Captured(nodes[i].parent)' <=> Captured(nodes[i].parent)
      BY <1>2, Zenon DEF Captured
    <2> QED
      BY <1>2, <1>3, <2>1, ParentIs DEF Kids
  <1>10. Kids(p) = {listed(k) : k \in places}
    BY <1>7, <1>8, Zenon
  <1>11. ASSUME NEW j \in places, NEW k \in places, j < k
         PROVE  listed(j) < listed(k)
    <2>1. PICK a \in Kids(p) : Rank(a) = j /\ listed(j) = a
      BY <1>8, Zenon
    <2>2. PICK b \in Kids(p) : Rank(b) = k /\ listed(k) = b
      BY <1>8, Zenon
    <2>3. a \in Int /\ b \in Int /\ j \in Int /\ k \in Int
      BY <1>1, <1>11 DEF Kids
    <2>4. ~(b < a) /\ a # b
      BY <1>3, <1>11, <2>1, <2>2, <2>3, Ranks
    <2> QED
      BY <2>1, <2>2, <2>3, <2>4, SMTT(20)
  <1> QED
    BY <1>4, <1>8, <1>9, <1>10, <1>11, SMTT(20)

\* In a snapshot published with child lists every entry is in exactly one list,
\* its parent's or the root's, and each list is in the order of the walk: what
\* count, prefix sum and cursors in sysfs_snap_build() are to produce.
THEOREM ChildListsAreExact == Spec => []ChildListsExact
  <1>1. Init => ChildListsExact
    BY Zenon DEF Init, ChildListsExact
  <1>2. HashInv /\ ChildListsExact /\ [Next]_vars => ChildListsExact'
    <2> SUFFICES ASSUME HashInv, ChildListsExact, [Next]_vars
                 PROVE  ChildListsExact'
      BY SMTT(20)
    <2>1. ASSUME NEW e \in Entries, Visit(e) PROVE ChildListsExact'
      BY <2>1, Zenon DEF Visit, ChildListsExact
    <2>2. CASE Link
      BY <2>2, LinkLists, Zenon
    <2>3. CASE LinkNoCounts \/ LinkNoCursor
      BY <2>3, SMTT(20) DEF LinkNoCounts, LinkNoCursor, ChildListsExact
    <2>4. CASE UNCHANGED vars
      BY <2>4 DEF vars, ChildListsExact, Captured
    <2> QED
      BY <2>1, <2>2, <2>3, <2>4, Zenon DEF Next
  <1> QED
    BY <1>1, <1>2, HashInvariance, PTL DEF Spec
=============================================================================

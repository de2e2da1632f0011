------------------------------- MODULE SnapBuild ------------------------------
(***************************************************************************)
(* What a registry snapshot holds (sysfs_snap_build() in sysfs_iokit.cpp)   *)
(* and what the accessors answer from it.  When a snapshot is built and     *)
(* published is the subject of SnapRefresh; a build works on memory nobody  *)
(* else sees, so one process is enough here.                                *)
(*                                                                          *)
(* Names are strings because the "@<n>" suffix can make one name another    *)
(* one; a path is the sequence of its components.                           *)
(***************************************************************************)
EXTENDS Naturals, Sequences, FiniteSets, SequencesExt

CONSTANTS
  Entries,       \* the registry entries a walk can meet, see Visit
  Regids,        \* the registry ids that may be asked for, 0 among them
  ModuleLists,   \* the sequences OSKext::copyLoadedKextInfo() can yield
  NodeCap,       \* cap, the room for nodes
  MAXMODULES,    \* SYSFS_IOKIT_MAXMODULES
  PATHDEPTH,     \* SYSFS_IOKIT_PATHDEPTH
  HashOf(_)      \* sysfs_hash_of(): any function to the natural numbers

SYSFS_IOKIT_MAXNODES == 16384

ASSUME SnapBuildAssumption ==
  /\ NodeCap \in 1 .. SYSFS_IOKIT_MAXNODES
  /\ MAXMODULES \in Nat /\ PATHDEPTH \in Nat \ {0}
  /\ 0 \in Regids /\ \A e \in Entries : e.regid \in Regids /\ e.parent \in Regids
  /\ \A r \in Regids : HashOf(r) \in Nat

VARIABLES
  phase,         \* "walk", then "done": the snapshot is published
  degraded,      \* whether an allocation for the child lists failed
  nodes,         \* snap->nodes, indexed from 0
  hash,          \* snap->hash: regid and index; index NONE is an empty slot
  childIdx,      \* snap->child_idx
  modules        \* snap->modules

vars == <<phase, degraded, nodes, hash, childIdx, modules>>

NONE == NodeCap                       \* SYSFS_IDX_NONE: an index no node has
CLASS_IDS == [IOMedia |-> 2, IONetworkInterface |-> 1,
              IOSerialBSDClient |-> 3, IOPMPowerSource |-> 4, other |-> 0]

-------------------------------------------------------------------------------
(* The regid -> index hash.                                                 *)

\* 16, doubled until it is at least twice the capacity.
HashSize ==
  Min({n \in {16, 32, 64, 128, 256, 512, 1024, 2048, 4096, 8192, 16384, 32768} :
         n >= 2 * NodeCap})

\* The slots in the order a probe for regid looks at them, and the first of them
\* that is empty or holds regid (none if the table is full of others).
Slot(regid, n) == (HashOf(regid) + n) % HashSize

Stops(h, regid) ==
  {n \in 0 .. HashSize - 1 :
     h[Slot(regid, n)].index = NONE \/ h[Slot(regid, n)].regid = regid}

HashInsert(h, regid, index) ==
  LET slot == Slot(regid, Min(Stops(h, regid)))
  IN  IF Stops(h, regid) = {} \/ h[slot].index # NONE THEN h
      ELSE [h EXCEPT ![slot] = [regid |-> regid, index |-> index]]

HashFindNoProbe(h, regid) ==   \* mutant: only the home slot is looked at
  IF h[Slot(regid, 0)].regid = regid THEN h[Slot(regid, 0)].index ELSE NONE

HashFind(h, regid) ==
  IF Stops(h, regid) = {} THEN NONE ELSE h[Slot(regid, Min(Stops(h, regid)))].index

-------------------------------------------------------------------------------
(* The build.                                                               *)

NewNode(regid, parent, name, class, flags, bsd) ==
  [regid |-> regid, parent |-> parent, name |-> name, class |-> class,
   flags |-> flags, bsd |-> bsd, first |-> 0, num |-> 0, dup |-> 0]

Count == Cardinality(DOMAIN nodes)

Init ==
  /\ phase = "walk" /\ degraded = FALSE
  /\ nodes = [i \in {0} |-> NewNode(0, 0, "", 0, {}, "")]
  /\ hash = HashInsert([s \in 0 .. HashSize - 1 |-> [regid |-> 0, index |-> NONE]], 0, 0)
  /\ childIdx = <<>> /\ modules = <<>>

\* The class of an entry: it needs a BSD name, but for a power source.
ClassOf(e) ==
  IF e.bsd # "" \/ e.isa = "IOPMPowerSource" THEN CLASS_IDS[e.isa] ELSE 0

BsdNameOf(e) ==
  IF ClassOf(e) = 0 THEN "" ELSE IF e.bsd # "" THEN e.bsd ELSE e.name

\* The iterator yields an entry that is not in the table yet and there is room.
\* Regid 0 and entries met before are passed over, which changes nothing.
Visit(e) ==
  /\ phase = "walk" /\ Count < NodeCap
  /\ e.regid # 0 /\ HashFind(hash, e.regid) = NONE
  /\ nodes' = [i \in 0 .. Count |->
       IF i < Count THEN nodes[i]
       ELSE NewNode(e.regid, e.parent, e.name, ClassOf(e),
                    IF ClassOf(e) = 2 /\ e.whole THEN {"WHOLE"} ELSE {}, BsdNameOf(e))]
  /\ hash' = HashInsert(hash, e.regid, Count)
  /\ UNCHANGED <<phase, degraded, childIdx, modules>>

\* The node whose child node i becomes: an entry whose parent was not captured
\* goes to the root.
ParentIndex(i) ==
  LET p == HashFind(hash, nodes[i].parent) IN IF p = NONE THEN 0 ELSE p

ChildCount(p) == Cardinality({i \in DOMAIN nodes \ {0} : ParentIndex(i) = p})

\* The prefix sum of the counts.
FirstChild(p) == Cardinality({i \in DOMAIN nodes \ {0} : ParentIndex(i) < p})

PlaceFixed(i) == FirstChild(ParentIndex(i))   \* mutant: the cursor stays

\* Where the cursor of its parent stands when node i is placed.
Place(i) ==
  FirstChild(ParentIndex(i))
    + Cardinality({k \in 1 .. i - 1 : ParentIndex(k) = ParentIndex(i)})

\* The earlier siblings of node i with its name.
DupOrdinalOfPrevious(i) ==   \* mutant: only the sibling just before is looked at
  Cardinality({k \in 1 .. i - 1 : /\ ParentIndex(k) = ParentIndex(i)
                                  /\ Place(k) = Place(i) - 1
                                  /\ nodes[k].name = nodes[i].name})

DupOrdinal(i) ==
  Cardinality({k \in 1 .. i - 1 : /\ ParentIndex(k) = ParentIndex(i)
                                  /\ nodes[k].name = nodes[i].name})

\* sysfs_snap_build_modules(): the list is cut at MAXMODULES; it is left out if
\* anything it needs cannot be had.
CaptureModules ==
  \E list \in ModuleLists :
    modules' = SubSeq(list, 1, Min({Len(list), MAXMODULES}))

\* The walk is over: the child lists, the ordinals, the modules.  The children
\* are Count - 1 and always fit.
Link ==
  /\ phase = "walk"
  /\ nodes' = [i \in DOMAIN nodes |->
       [nodes[i] EXCEPT !.first = FirstChild(i), !.num = ChildCount(i),
                        !.dup = IF i = 0 THEN 0 ELSE DupOrdinal(i)]]
  /\ childIdx' = [at \in {Place(i) : i \in DOMAIN nodes \ {0}} |->
       Max({i \in DOMAIN nodes \ {0} : Place(i) = at})]
  /\ CaptureModules
  /\ phase' = "done"
  /\ UNCHANGED <<degraded, hash>>

\* child_counts cannot be allocated: no children, no ordinals, no modules.
LinkNoCounts ==
  /\ phase = "walk"
  /\ phase' = "done" /\ degraded' = TRUE
  /\ UNCHANGED <<nodes, hash, childIdx, modules>>

\* The cursors cannot be allocated: the lists have offsets but no length.
LinkNoCursor ==
  /\ phase = "walk"
  /\ nodes' = [i \in DOMAIN nodes |-> [nodes[i] EXCEPT !.first = FirstChild(i)]]
  /\ CaptureModules
  /\ phase' = "done" /\ degraded' = TRUE
  /\ UNCHANGED <<hash, childIdx>>

Next == (\E e \in Entries : Visit(e)) \/ Link \/ LinkNoCounts \/ LinkNoCursor

Spec == Init /\ [][Next]_vars

-------------------------------------------------------------------------------
Captured(regid) == \E i \in DOMAIN nodes : nodes[i].regid = regid

(* sysfs_hash_find() answers with the node of a registry id if the snapshot   *)
(* has one, and only then, however the hash function spreads the ids.         *)
HashExact ==
  \A r \in Regids :
    LET i == HashFind(hash, r)
    IN  IF Captured(r) THEN i # NONE /\ nodes[i].regid = r ELSE i = NONE

(* The child lists that count, prefix sum and cursors produce are what they   *)
(* are meant to be: every entry of the snapshot is in exactly one list, that  *)
(* of its parent, or of the root if its parent was not captured, in the order *)
(* of the walk.                                                               *)
ChildListsExact ==
  (phase = "done" /\ ~degraded) =>
    \A p \in DOMAIN nodes :
      LET child(i) ==
            IF Captured(nodes[i].parent) THEN nodes[i].parent = nodes[p].regid ELSE p = 0
          listed(k) == childIdx[nodes[p].first + k]
          places == 0 .. nodes[p].num - 1
      IN  /\ \A k \in places : nodes[p].first + k \in DOMAIN childIdx
          /\ {i \in DOMAIN nodes \ {0} : child(i)} = {listed(k) : k \in places}
          /\ \A j, k \in places : j < k => listed(j) < listed(k)

-------------------------------------------------------------------------------
(* The inductive invariant of the build.                                      *)

\* Node i is where a probe for its regid stops first.
WellPlaced(i) ==
  \E n \in 0 .. HashSize - 1 :
    /\ hash[Slot(nodes[i].regid, n)] = [regid |-> nodes[i].regid, index |-> i]
    /\ \A m \in 0 .. n - 1 : m \notin Stops(hash, nodes[i].regid)

\* A record with the fields of a node.
IsNode(n) == DOMAIN n = DOMAIN NewNode(0, 0, "", 0, {}, "")

\* The nodes fill the array from 0, every node is well placed in the hash table,
\* and the slots in use are those of the nodes, one each.
HashInv ==
  /\ \E c \in 1 .. NodeCap : DOMAIN nodes = 0 .. c - 1
  /\ \A i \in DOMAIN nodes :
       /\ IsNode(nodes[i])
       /\ nodes[i].regid \in Regids /\ nodes[i].parent \in Regids
  /\ hash \in [0 .. HashSize - 1 ->
                 [regid : Regids, index : DOMAIN nodes \cup {NONE}]]
  /\ \A i \in DOMAIN nodes : WellPlaced(i)
  /\ \A s \in DOMAIN hash : hash[s].index # NONE =>
       nodes[hash[s].index].regid = hash[s].regid
  /\ \A s, t \in DOMAIN hash :
       hash[s].index # NONE /\ hash[s].index = hash[t].index => s = t

-------------------------------------------------------------------------------
(* The accessors.  Each one answers from the published snapshot.            *)

Find(regid) == IF phase # "done" THEN NONE ELSE HashFind(hash, regid)

\* sysfs_iokit_entry_exists().
EntryExists(regid) == regid = 0 \/ Find(regid) # NONE

Display(name, dup) == IF dup = 0 THEN name ELSE name \o "@" \o ToString(dup)

\* sysfs_iokit_child_at() for index 0, 1, ...: names and regids.
ChildrenOf(regid) ==
  LET p == Find(regid)
      child(k) == nodes[childIdx[nodes[p].first + k - 1]]
  IN  IF p = NONE THEN <<>>
      ELSE [k \in 1 .. nodes[p].num |->
              [name |-> Display(child(k).name, child(k).dup), regid |-> child(k).regid]]

\* The place of the first element of a list that has a name, 0 if none has.
PlaceNamed(list, name) == SelectInSeq(list, LAMBDA x : x.name = name)

\* sysfs_iokit_child_named(), as a place in ChildrenOf.
ChildNamed(regid, name) == PlaceNamed(ChildrenOf(regid), name)

ParentRegidKept(regid) ==   \* mutant: the regid itself for an entry that is gone
  IF Find(regid) = NONE THEN regid ELSE nodes[Find(regid)].parent

\* sysfs_iokit_parent(); ".." takes 0 for an entry that is not there.
ParentRegid(regid) ==
  IF regid = 0 \/ Find(regid) = NONE THEN 0 ELSE nodes[Find(regid)].parent

\* sysfs_iokit_class_child_at() for index 0, 1, ...; what it matches.
ClassMembers(class, flags) ==
  LET all == [i \in 1 .. Count - 1 |-> nodes[i]]
      member(n) == n.class = class /\ flags \subseteq n.flags
      list == SelectSeq(all, member)
  IN  IF phase # "done" THEN <<>>
      ELSE [k \in DOMAIN list |-> [name |-> list[k].bsd, regid |-> list[k].regid]]

\* sysfs_iokit_class_child_named(), as a place in ClassMembers.
ClassNamed(class, flags, name) == PlaceNamed(ClassMembers(class, flags), name)

\* sysfs_iokit_path(): the chain up to the root, at most PATHDEPTH long, from the
\* top; <<>> if there is no such entry.  Names are short enough for the buffer.
Path(regid) ==
  LET up == [i \in DOMAIN nodes \ {0} |-> Find(nodes[i].parent)]
      index[d \in 1 .. PATHDEPTH] ==
        IF d = 1 THEN Find(regid)
        ELSE IF index[d - 1] \in DOMAIN up THEN up[index[d - 1]] ELSE NONE
      depth == Cardinality({d \in 1 .. PATHDEPTH : index[d] \notin {NONE, 0}})
      node(k) == nodes[index[depth + 1 - k]]
  IN  [k \in 1 .. depth |-> Display(node(k).name, node(k).dup)]

NameOfDisplayed(regid) ==   \* mutant: the name that is listed
  IF Find(regid) = NONE THEN "" ELSE Display(nodes[Find(regid)].name, nodes[Find(regid)].dup)

\* sysfs_iokit_name(), "" for an entry that is not there.
NameOf(regid) == IF Find(regid) = NONE THEN "" ELSE nodes[Find(regid)].name

\* sysfs_iokit_module_at(), _named() and _by_tag().
Modules == IF phase = "done" THEN modules ELSE <<>>
ModuleNamed(name) == PlaceNamed(Modules, name)
ModuleByTag(tag) == SelectInSeq(Modules, LAMBDA m : m.tag = tag)
===============================================================================

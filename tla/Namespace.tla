------------------------------- MODULE Namespace ------------------------------
(***************************************************************************)
(* What has to hold between the operations of VnodeOps for /sys to be a     *)
(* file system: a name that is listed can be looked up, ".." leads back,    *)
(* links lead to their device.  The properties are about every snapshot a   *)
(* walk can produce, and about every directory a process can hold.          *)
(***************************************************************************)
EXTENDS VnodeOps

\* The snapshot is built and served while the structure tree of some machine is
\* in place.
NamespaceInit ==
  /\ Init
  /\ \E m \in Machines :
       tree = [nodes |-> Tree[m], parent |-> Parent[m], children |-> Children[m]]

NamespaceNext ==
  \/ (\E e \in Entries : Visit(e)) /\ UNCHANGED tree
  \/ Link /\ UNCHANGED tree
  \/ LinkNoCounts /\ UNCHANGED tree
  \/ LinkNoCursor /\ UNCHANGED tree

NamespaceSpec == NamespaceInit /\ [][NamespaceNext]_<<vars, tree>>

-------------------------------------------------------------------------------
Devices == CHOOSE i \in DOMAIN Snodes : Snodes[i].path = <<"devices">>
ModuleMember == CHOOSE i \in DOMAIN Snodes : Snodes[i].type = "SFSmodule"
Tags == UNION {{list[k].tag : k \in DOMAIN list} : list \in ModuleLists}

\* The directories below /sys/devices/system/cpu that SSN_FLAG_DYNAMIC and a CPU
\* number other than 0 turn into class directories.
Misread ==
  {i \in DOMAIN Snodes : IsStrictPrefix(Cpu, Snodes[i].path) /\ IsClassDir(i)}

\* The directories a process can hold: the static ones, one for each registry
\* id, one for each load tag; but not the Misread ones, which list the members of
\* some class or nothing, and in which no name is found.
Directories ==
  {Node(i, 0, 0) : i \in {k \in DOMAIN Snodes \ Misread :
                            Snodes[k].type \in {"SFSroot", "SFSdir"}}}
    \cup {Node(Devices, r, 0) : r \in Regids}
    \cup {Node(ModuleMember, t, 0) : t \in Tags}

\* No entry has a name the file system uses itself or makes up for another one.
PlainNames ==
  \A i \in DOMAIN nodes \ {0} :
    /\ nodes[i].name \notin {"name", "system"}
    /\ \A k \in DOMAIN nodes \ {0}, d \in 1 .. Count :
         nodes[i].name # Display(nodes[k].name, d)

\* The bundle ids that CaptureModules takes as names are different.
DistinctKexts == \A j, k \in DOMAIN Modules : Modules[j].name = Modules[k].name => j = k

\* The entries of a directory that an earlier one of the same name does not hide,
\* and the nodes that looking up their names gives.
Visible(list) ==
  {list[k] : k \in {i \in DOMAIN list : \A j \in 1 .. i - 1 : list[j].name # list[i].name}}

Found(d) == {[entry |-> e, node |-> Lookup(d, e.name)] : e \in Visible(Listing(d))}

-------------------------------------------------------------------------------
(* A name that a directory lists can be looked up there, and gives a node of  *)
(* the type that was listed and that getattr reports; its file id is that of  *)
(* the first entry with the name, except for the members of a class and for a *)
(* ".." listed with the id of the directory itself.  This includes            *)
(* directories whose entry is gone and snapshots without child lists.         *)
ListedIsFound ==
  \A d \in Directories : \A f \in Found(d) :
    /\ f.node # ENOENT
    /\ Vtype(f.node) = f.entry.type /\ GetattrType(f.node) = f.entry.type
    /\ \/ NodeFileId(f.node) = f.entry.fileid
       \/ f.entry.type = "VLNK"
       \/ f.entry.name = ".." /\ f.entry.fileid = NodeFileId(d)

(* If the registry has only plain names, and no two kexts have one bundle id, *)
(* two entries of a directory have one name only in the directory of a class: *)
(* sysfs_iokit_class_child_at() lists members by bsdname, without an ordinal, *)
(* and power sources take theirs from the name they have in IOKit.            *)
(* Everywhere else the ordinals tell siblings with one name apart.            *)
UniqueNames ==
  (PlainNames /\ DistinctKexts) =>
    \A d \in Directories : \A list \in {Listing(d)} :
      \A j, k \in DOMAIN list :
        (j < k /\ list[j].name = list[k].name) =>
          /\ IsClassDir(d.snode)
          /\ \E x, y \in DOMAIN nodes : x # y /\ \A i \in {x, y} :
               nodes[i].class = Snodes[d.snode].instance /\ nodes[i].bsd = list[k].name

(* ".." leads back to where a directory was found, except from an entry whose *)
(* parent was not captured: that one is listed in /sys/devices and leads to   *)
(* the missing parent.                                                        *)
DotDotLeadsBack ==
  \A d \in Directories : \A f \in Found(d) :
    (f.entry.type = "VDIR" /\ f.entry.name \notin {".", ".."}) =>
      \/ DotDot(f.node) = d
      \/ /\ f.node.snode = Devices /\ d = Node(Devices, 0, 0)
         /\ ~ Captured(DotDot(f.node).regid)

(* From any directory, even one whose entry is gone, ".." leads to /sys after *)
(* a number of steps that the size of the snapshot bounds.                    *)
ClimbEnds ==
  \A d \in Directories :
    LET up[k \in 0 .. Count + 6] == IF k = 0 THEN d ELSE DotDot(up[k - 1])
    IN  up[Count + 6] = Node(1, 0, 0)

\* Looking up the components of a path one after the other: the node at its end,
\* as a set that is empty if there is none.  The VFS layer takes ".." at the root
\* of a mount itself and leaves the file system.
Walk(d, path) ==
  LET dirs(S, name) == {n \in S \ {ENOENT} : /\ Vtype(n) = "VDIR"
                                             /\ n = Node(1, 0, 0) => name # ".."}
      at[k \in 0 .. Len(path)] ==
        IF k = 0 THEN {d} ELSE {Lookup(n, path[k]) : n \in dirs(at[k - 1], path[k])}
  IN  at[Len(path)] \ {ENOENT}

\* How many entries a path to the entry of index i goes through.
Depth(i) ==
  LET up == [k \in DOMAIN nodes |-> ParentIndex(k)]
      above[k \in 0 .. Count] == IF k = 0 THEN i ELSE up[above[k - 1]]
  IN  Cardinality({k \in 0 .. Count : above[k] # 0})

(* The target of a link in /sys/block or /sys/class, followed from the        *)
(* directory the link is in, is the directory of the device: the number of    *)
(* "../", the ordinals in the path and the lookups agree.  Only with plain    *)
(* names, with child lists, and not deeper than SYSFS_IOKIT_PATHDEPTH, beyond *)
(* which the path loses its top.                                              *)
LinkResolves ==
  (phase = "done" /\ ~degraded /\ PlainNames) =>
    \A d \in {n \in Directories : IsClassDir(n.snode)} :
      \A f \in {g \in Found(d) : g.entry.type = "VLNK"} :
        Depth(Find(f.node.regid)) <= PATHDEPTH =>
          \A target \in {LinkTarget(f.node)} :
            Walk(d, target) = {Node(Devices, f.node.regid, 0)}

(* An attribute file says what belongs to the directory it is looked up in:   *)
(* the name of the registry entry the directory was listed for, the values of *)
(* the module whose name the directory has, if load tags tell modules apart.  *)
AttributesBelong ==
  /\ \A i \in DOMAIN nodes \ {0} : phase = "done" =>
       {ReadNode(n) : n \in Walk(Node(Devices, nodes[i].regid, 0), <<"name">>)}
         = {<<nodes[i].name>>}
  /\ (\A j, k \in DOMAIN Modules : Modules[j].tag = Modules[k].tag => j = k) =>
       \A m \in ToSet(Modules), a \in ToSet(ModAttrs) :
         {ReadNode(n) : n \in Walk(Node(1, 0, 0), <<"module", m.name, a>>)} = {<<m.name, a>>}

(* The comment at sysfs_vnops.c:570 says of what is found below               *)
(* /sys/devices/system: "Once matched, the child is an ordinary static node   *)
(* and the normal static paths handle everything below it."  Then every       *)
(* structure node there can be looked up in its directory.                    *)
StaticPathsBelowSystem ==
  \A i \in {k \in DOMAIN Snodes : IsPrefix(System, Snodes[k].path)} :
    \A c \in ToSet(SnodeKids[i]) :
      Snodes[c].type \in {"SFSdir", "SFSfile"} =>
        Lookup(Node(i, 0, 0), SnodeName(c)) = Node(c, 0, 0)
===============================================================================

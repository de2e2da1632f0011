------------------------------- MODULE VnodeOps -------------------------------
(***************************************************************************)
(* What the vnode operations of sysfs_vnops.c answer: lookup, "..", the     *)
(* entries a readdir enumerates, getattr, readlink and the attribute files, *)
(* over the structure tree of one machine and the published snapshot.  They *)
(* change nothing but the node cache, which is the subject of NodeCache;    *)
(* how readdir hands its entries out piece by piece is that of Readdir.     *)
(*                                                                          *)
(* A node is what sfsid_t and node_structure_node say it is: a structure    *)
(* node, a registry id or load tag, and an object id.  A process can hold a *)
(* vnode for any entry that ever was in a snapshot, so every operation is   *)
(* defined on nodes whose entry the present snapshot does not have.         *)
(***************************************************************************)
EXTENDS SnapBuild, StructureTree, Bitwise

VARIABLE tree       \* root_node: the structure nodes, their parents and children

Snodes == tree.nodes
SnodeParent == tree.parent
SnodeKids == tree.children
SnodeName(i) == Last(Snodes[i].path)

Node(snode, regid, objid) == [snode |-> snode, regid |-> regid, objid |-> objid]
ENOENT == Node(0, 0, 0)

\* sysfs_dev_attrs and sysfs_mod_attrs; the object id is the place in the list.
DevAttrs == <<"name">>
ModAttrs == <<"refcnt", "coresize", "initstate", "version">>

\* sysfs_is_class_dir(), sysfs_is_module_dir(), sysfs_class_match_flags().
IsClassDir(i) ==
  /\ "DYNAMIC" \in Snodes[i].flags /\ Snodes[i].type = "SFSdir"
  /\ Snodes[i].instance # 0

IsModuleDir(i) == "MODULES" \in Snodes[i].flags /\ Snodes[i].type = "SFSdir"

MatchFlags(i) == IF "WHOLE_ONLY" \in Snodes[i].flags THEN {"WHOLE"} ELSE {}

\* The first child of structure node i with a name, or of a type; 0 if none.
ChildWithName(i, name) ==
  LET kids == SnodeKids[i]
      k == SelectInSeq(kids, LAMBDA c : SnodeName(c) = name)
  IN  IF k = 0 THEN 0 ELSE kids[k]

ChildOfType(i, type) ==
  LET kids == SnodeKids[i]
      k == SelectInSeq(kids, LAMBDA c : Snodes[c].type = type)
  IN  IF k = 0 THEN 0 ELSE kids[k]

\* sysfs_allocvp(), and how sysfs_create_vnode() uses it.
Allocvp(type) ==
  CASE type \in {"SFSroot", "SFSdir", "SFSdirthis", "SFSdirparent",
                 "SFSdevice", "SFSmodule"} -> "VDIR"
    [] type = "SFSlink" -> "VLNK"
    [] OTHER -> "VREG"

Vtype(n) ==
  IF Snodes[n.snode].type \in {"SFSdevice", "SFSmodule"} /\ n.objid # 0 THEN "VREG"
  ELSE Allocvp(Snodes[n.snode].type)

\* The type sysfs_vnop_getattr() reports, worked out anew.
GetattrType(n) ==
  CASE Snodes[n.snode].type \in {"SFSdevice", "SFSmodule"} ->
         IF n.objid = 0 THEN "VDIR" ELSE "VREG"
    [] Snodes[n.snode].type = "SFSlink" -> "VLNK"
    [] OTHER -> Allocvp(Snodes[n.snode].type)

\* sysfs_get_fileid().  On the first mount node i of the tree has id i.
FileId(regid, objid, snode) == snode | (regid * 2 ^ 8) | (objid * 2 ^ 24)
NodeFileId(n) == FileId(n.regid, n.objid, n.snode)

-------------------------------------------------------------------------------
(* Lookup.                                                                  *)

\* sysfs_get_parent_node_id(): a dynamic parent keeps regid and objectid.
StaticParent(n) ==
  LET p == IF n.snode = 1 THEN 1 ELSE SnodeParent[n.snode]
  IN  IF "DYNAMIC" \in Snodes[p].flags THEN [n EXCEPT !.snode = p] ELSE Node(p, 0, 0)

\* Lookup of "..".
DotDotStatic(n) == StaticParent(n)   \* mutant: devices have no case of their own

DotDot(n) ==
  CASE Snodes[n.snode].type = "SFSmodule" /\ n.objid = 0 ->
         Node(SnodeParent[n.snode], 0, 0)
    [] Snodes[n.snode].type = "SFSdevice" /\ n.regid # 0 ->
         Node(n.snode, ParentRegid(n.regid), 0)
    [] OTHER -> StaticParent(n)

LookupModule(n, name) ==
  LET k == ModuleNamed(name)
      member == ChildOfType(n.snode, "SFSmodule")
  IN  IF k = 0 \/ member = 0 THEN ENOENT ELSE Node(member, Modules[k].tag, 0)

LookupAttr(n, attrs, name) ==
  LET a == SelectInSeq(attrs, LAMBDA x : x = name)
  IN  IF a = 0 THEN ENOENT ELSE Node(n.snode, n.regid, a)

LookupClass(n, name) ==
  LET class == Snodes[n.snode].instance
      k == ClassNamed(class, MatchFlags(n.snode), name)
      link == ChildOfType(n.snode, "SFSlink")
  IN  IF k = 0 \/ link = 0 THEN ENOENT
      ELSE Node(link, ClassMembers(class, MatchFlags(n.snode))[k].regid, 0)

LookupDeviceAnywhere(n, name) ==   \* mutant: static children in every directory
  LET static == ChildWithName(n.snode, name)
      attr == IF n.regid # 0 THEN LookupAttr(n, DevAttrs, name) ELSE ENOENT
      k == ChildNamed(n.regid, name)
  IN  CASE static # 0 -> Node(static, 0, 0)
        [] static = 0 /\ attr # ENOENT -> attr
        [] static = 0 /\ attr = ENOENT /\ k # 0 ->
             Node(n.snode, ChildrenOf(n.regid)[k].regid, 0)
        [] OTHER -> ENOENT

\* Static children come first and only at /sys/devices itself, then the
\* attribute files, which only a real entry has, then the registry children.
LookupDevice(n, name) ==
  LET static == IF n.regid = 0 /\ n.objid = 0 THEN ChildWithName(n.snode, name) ELSE 0
      attr == IF n.regid # 0 THEN LookupAttr(n, DevAttrs, name) ELSE ENOENT
      k == ChildNamed(n.regid, name)
  IN  CASE static # 0 -> Node(static, 0, 0)
        [] static = 0 /\ attr # ENOENT -> attr
        [] static = 0 /\ attr = ENOENT /\ k # 0 ->
             Node(n.snode, ChildrenOf(n.regid)[k].regid, 0)
        [] OTHER -> ENOENT

LookupStatic(n, name) ==
  LET c == ChildWithName(n.snode, name)
  IN  IF c = 0 THEN ENOENT ELSE [n EXCEPT !.snode = c]

\* sysfs_vnop_lookup() on a directory.
Lookup(n, name) ==
  CASE name = ".." -> DotDot(n)
    [] name = "."  -> n
    [] OTHER ->
       IF IsModuleDir(n.snode) THEN LookupModule(n, name)
       ELSE IF Snodes[n.snode].type = "SFSmodule" /\ n.objid = 0
            THEN LookupAttr(n, ModAttrs, name)
       ELSE IF IsClassDir(n.snode) THEN LookupClass(n, name)
       ELSE IF Snodes[n.snode].type = "SFSdevice" THEN LookupDevice(n, name)
       ELSE LookupStatic(n, name)

-------------------------------------------------------------------------------
(* The entries of a directory, in the order readdir enumerates them.        *)

Entry(name, type, fileid) == [name |-> name, type |-> type, fileid |-> fileid]
Dots(n) == <<Entry(".", "VDIR", NodeFileId(n)), Entry("..", "VDIR", NodeFileId(n))>>

\* sysfs_devices_readdir().
DeviceEntries(n) ==
  LET kids == SnodeKids[n.snode]
      static == IF n.regid # 0 THEN <<>> ELSE
        [k \in DOMAIN kids |->
           Entry(SnodeName(kids[k]), Allocvp(Snodes[kids[k]].type), FileId(0, 0, kids[k]))]
      attrs == IF n.regid = 0 THEN <<>> ELSE
        [a \in DOMAIN DevAttrs |->
           Entry(DevAttrs[a], "VREG", FileId(n.regid, a, n.snode))]
      children == ChildrenOf(n.regid)
  IN  Dots(n) \o attrs \o static
        \o [k \in DOMAIN children |->
              Entry(children[k].name, "VDIR", FileId(children[k].regid, 0, n.snode))]

\* sysfs_class_readdir(): the file id has the directory's base id in it.
ClassEntries(n) ==
  LET members == ClassMembers(Snodes[n.snode].instance, MatchFlags(n.snode))
  IN  Dots(n) \o [k \in DOMAIN members |->
                    Entry(members[k].name, "VLNK", FileId(members[k].regid, 0, n.snode))]

\* sysfs_module_readdir(), of the container and of a module.
ModuleEntries(n) ==
  IF IsModuleDir(n.snode)
  THEN Dots(n) \o [k \in DOMAIN Modules |->
         Entry(Modules[k].name, "VDIR",
               FileId(Modules[k].tag, 0, ChildOfType(n.snode, "SFSmodule")))]
  ELSE Dots(n) \o [a \in DOMAIN ModAttrs |->
         Entry(ModAttrs[a], "VREG", FileId(n.regid, a, n.snode))]

\* The static loop of sysfs_vnop_readdir().
StaticEntries(n) ==
  LET kids == SnodeKids[n.snode]
      target(c) == CASE Snodes[c].type = "SFSdirthis"   -> n
                     [] Snodes[c].type = "SFSdirparent" -> StaticParent(n)
                     [] OTHER                           -> [n EXCEPT !.snode = c]
  IN  [k \in DOMAIN kids |->
         Entry(SnodeName(kids[k]), Allocvp(Snodes[kids[k]].type),
               NodeFileId(target(kids[k])))]

\* sysfs_vnop_readdir().
Listing(n) ==
  IF Snodes[n.snode].type = "SFSdevice" THEN DeviceEntries(n)
  ELSE IF IsModuleDir(n.snode) \/ Snodes[n.snode].type = "SFSmodule" THEN ModuleEntries(n)
  ELSE IF IsClassDir(n.snode) THEN ClassEntries(n)
  ELSE StaticEntries(n)

-------------------------------------------------------------------------------
(* Links and attribute files.                                               *)

LinkDepthFixed(i) == 2   \* mutant: the depth of a link below /sys/class

\* The number of structure nodes above node i and below the root.
LinkDepth(i) == Len(Front(Snodes[i].path))

\* sysfs_link_target(), for readlink and for the size in getattr: the components,
\* <<>> if the device is gone.
LinkTarget(n) ==
  IF Path(n.regid) = <<>> THEN <<>>
  ELSE [d \in 1 .. LinkDepth(n.snode) |-> ".."] \o <<"devices">> \o Path(n.regid)

\* sysfs_device_read_attr() and sysfs_module_format_attr(), for read and for the
\* size in getattr: whose value it is, and which.  An entry that is gone reads
\* as an empty line, a module that is gone as nothing.
DeviceAttr(n) == NameOf(n.regid)

ModuleAttr(n) ==
  LET k == ModuleByTag(n.regid)
  IN  IF k = 0 THEN <<>> ELSE <<Modules[k].name, ModAttrs[n.objid]>>

\* sysfs_vnop_read() of a node that is not a directory; EISDIR for those.
ReadNode(n) ==
  CASE Vtype(n) = "VDIR" -> <<"EISDIR">>
    [] Snodes[n.snode].type = "SFSdevice" -> <<DeviceAttr(n)>>
    [] Snodes[n.snode].type = "SFSmodule" -> ModuleAttr(n)
    [] Snodes[n.snode].handler # "none" -> <<Snodes[n.snode].handler>>
    [] OTHER -> <<"EINVAL">>
===============================================================================

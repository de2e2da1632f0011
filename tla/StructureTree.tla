---------------------------- MODULE StructureTree -----------------------------
(***************************************************************************)
(* The tree of structure nodes that sysfs_structure_init() builds on a      *)
(* machine (see CpuFiles), as the sequence of its add_node() calls: node i  *)
(* is the one the i-th call adds, and its path gives its place.             *)
(***************************************************************************)
EXTENDS CpuFiles, FiniteSetsExt, TLC

CONSTANTS
  Machines,            \* the machines to build the tree for
  MAX_CPU_NODES        \* SYSFS_MAX_CPU_NODES, 64

ASSUME TreeAssumption == MAX_CPU_NODES \in Nat \ {0}

-------------------------------------------------------------------------------
(* The calls of sysfs_structure_init(), in order.                           *)

CLASS == [net |-> 1, block |-> 2, tty |-> 3, power_supply |-> 4]

\* add_node(): name is the last element of path.
AddNode(path, type, flags, instance, handler) ==
  <<[path |-> path, type |-> type, flags |-> flags,
     instance |-> instance, handler |-> handler]>>

\* add_directory(), with the "." and ".." it adds.
AddDirectory(path, type, flags, instance) ==
  AddNode(path, type, flags, instance, "none")
    \o AddNode(path \o <<".">>, "SFSdirthis", flags \cap {"DYNAMIC"}, 0, "none")
    \o AddNode(path \o <<"..">>, "SFSdirparent", flags \cap {"DYNAMIC"}, 0, "none")

Dir(path) == AddDirectory(path, "SFSdir", {}, 0)
File(dir, name, handler) == AddNode(dir \o <<name>>, "SFSfile", {}, 0, handler)

\* A class directory and the marker its members are presented through.
ClassDir(path, flags, class) ==
  AddDirectory(path, "SFSdir", flags, class)
    \o AddNode(path \o <<"__member__">>, "SFSlink", {"DYNAMIC"}, 0, "none")

HugepageFiles(dir, names) ==
  [i \in DOMAIN names |-> File(dir, names[i], "zero_count")[1]]

System == <<"devices", "system">>
Node0 == System \o <<"node", "node0">>
Cpu == System \o <<"cpu">>

NodeDirs ==
  Dir(System) \o Dir(System \o <<"node">>) \o Dir(Node0)
    \o Dir(Node0 \o <<"hugepages">>)
    \o Dir(Node0 \o <<"hugepages", "hugepages-2048kB">>)
    \o HugepageFiles(Node0 \o <<"hugepages", "hugepages-2048kB">>,
         <<"nr_hugepages", "free_hugepages", "surplus_hugepages">>)
    \o File(Node0, "cpulist", "cpulist") \o File(Node0, "cpumap", "cpumap")
    \o File(Node0, "meminfo", "node_meminfo")
    \o File(Node0, "distance", "node_distance")
    \o File(Node0, "numastat", "node_numastat")
    \o [i \in 1 .. 4 |->
          File(System \o <<"node">>,
               <<"online", "possible", "has_cpu", "has_memory">>[i], "node_list")[1]]

CpuDir ==
  Dir(Cpu)
    \o File(Cpu, "online", "cpulist") \o File(Cpu, "possible", "cpulist")
    \o File(Cpu, "present", "cpulist") \o File(Cpu, "offline", "zero_count")
    \o File(Cpu, "kernel_max", "kernel_max")

\* One round of the loop over the CPUs.
CpuN(c) ==
  LET cpu == Cpu \o <<"cpu" \o ToString(c)>>
      topo == cpu \o <<"topology">>
      file(dir, name, handler) ==
        AddNode(dir \o <<name>>, "SFSfile", {}, c, handler)
  IN  AddDirectory(cpu, "SFSdir", {}, c) \o file(cpu, "online", "cpu_online")
        \o AddDirectory(topo, "SFSdir", {}, c)
        \o file(topo, "core_id", "core_id")
        \o file(topo, "physical_package_id", "package_id")
        \o file(topo, "thread_siblings_list", "thread_siblings")
        \o file(topo, "core_siblings_list", "core_siblings")

\* The rounds of the loop for the first n CPUs, one after the other.
Rounds(n) ==
  LET k == Len(CpuN(0))
  IN  [i \in 1 .. k * n |-> CpuN((i - 1) \div k)[((i - 1) % k) + 1]]

CpuNs(m) == Rounds(Min({Ncpu(m), MAX_CPU_NODES}))

Calls(m) ==
  AddDirectory(<<>>, "SFSroot", {}, 0)
    \o ClassDir(<<"block">>, {"DYNAMIC", "WHOLE_ONLY"}, CLASS.block)
    \o Dir(<<"bus">>) \o Dir(<<"class">>)
    \o ClassDir(<<"class", "net">>, {"DYNAMIC"}, CLASS.net)
    \o ClassDir(<<"class", "block">>, {"DYNAMIC"}, CLASS.block)
    \o ClassDir(<<"class", "tty">>, {"DYNAMIC"}, CLASS.tty)
    \o ClassDir(<<"class", "power_supply">>, {"DYNAMIC"}, CLASS.power_supply)
    \o Dir(<<"dev">>) \o Dir(<<"dev", "char">>) \o Dir(<<"dev", "block">>)
    \o AddNode(<<"devices">>, "SFSdevice", {"DYNAMIC"}, 0, "none")
    \o NodeDirs \o CpuDir \o CpuNs(m)
    \o Dir(<<"firmware">>) \o Dir(<<"fs">>) \o Dir(<<"hypervisor">>)
    \o Dir(<<"kernel">>)
    \o AddDirectory(<<"module">>, "SFSdir", {"MODULES"}, 0)
    \o AddNode(<<"module", "__member__">>, "SFSmodule", {"MODULES"}, 0, "none")
    \o Dir(<<"power">>)
    \o Dir(<<"kernel", "mm">>) \o Dir(<<"kernel", "mm", "hugepages">>)
    \o Dir(<<"kernel", "mm", "hugepages", "hugepages-2048kB">>)
    \o HugepageFiles(<<"kernel", "mm", "hugepages", "hugepages-2048kB">>,
         <<"nr_hugepages", "free_hugepages", "surplus_hugepages",
           "resv_hugepages", "nr_overcommit_hugepages">>)

\* The flags a node ends up with: add_node() copies SSN_FLAG_DYNAMIC from the
\* parent, which has it already from its own parent.
Inherit(calls) ==
  LET dynamic == {calls[i].path : i \in {k \in DOMAIN calls :
                                           "DYNAMIC" \in calls[k].flags}}
      inherited(path) == IF \E k \in 0 .. Len(path) - 1 : SubSeq(path, 1, k) \in dynamic
                         THEN {"DYNAMIC"} ELSE {}
  IN  [i \in DOMAIN calls |->
         [calls[i] EXCEPT !.flags = @ \cup inherited(calls[i].path)]]

\* A function as a table: TLC evaluates it once and not at every application.
Table(f) == f @@ <<>>

\* The path of the directory that a path is in.
Dirname(path) == SubSeq(path, 1, Len(path) - 1)

\* The tree of each machine, the ssn_parent of each of its nodes (0 is NULL), and
\* the ssn_children list of each.
Tree == Table([m \in Machines |-> Table(Inherit(Table(Calls(m))))])

Parent ==
  Table([m \in Machines |-> Table([i \in DOMAIN Tree[m] |->
    LET dir == Dirname(Tree[m][i].path)
    IN  IF i = 1 THEN 0 ELSE CHOOSE p \in 1 .. i - 1 : Tree[m][p].path = dir])])

Children ==
  Table([m \in Machines |-> Table([p \in DOMAIN Tree[m] |->
    SelectSeq([i \in DOMAIN Tree[m] |-> i], LAMBDA i : Parent[m][i] = p)])])
===============================================================================

------------------------------ MODULE Structure -------------------------------
(***************************************************************************)
(* The life of the structure tree: sysfs_structure_init() builds it on the  *)
(* first mount and hands out node ids, sysfs_structure_free() takes it down *)
(* with a stack of fixed size.                                              *)
(*                                                                          *)
(* next_node_id++ is evaluated once per add_node() call, for a directory    *)
(* before the ids of its "." and "..", so the id of a node follows from its *)
(* place in the order of the calls and from the counter at the first one.   *)
(***************************************************************************)
EXTENDS StructureTree

CONSTANTS
  RELEASE_STACK_MAX,   \* SYSFS_RELEASE_STACK_MAX, 256
  IdBound              \* 2^16: sfsbaseid_t is a uint16_t

ASSUME StructureAssumption ==
  /\ RELEASE_STACK_MAX \in Nat \ {0} /\ IdBound \in Nat \ 0 .. 2
  /\ Machines \subseteq [logical : 0 .. MAP_CPUS, physical : Nat, memory : Nat]

-------------------------------------------------------------------------------
(* What the calls of sysfs_structure_init() make of a machine.              *)

Size(m) == Len(Tree[m])

\* The place of a node in the ssn_children list of its parent.
Place(m, i) ==
  CHOOSE k \in DOMAIN Children[m][Parent[m][i]] : Children[m][Parent[m][i]][k] = i

\* How many nodes lie below node i on release_node()'s stack while it waits there:
\* the elder siblings of i and of the nodes on the way to it.
Below ==
  [m \in Machines |->
    LET below[i \in 1 .. Size(m)] ==
          IF i = 1 THEN 0 ELSE below[Parent[m][i]] + Place(m, i) - 1
    IN  below]

\* add_node() links a node to a parent that was added before it, and puts it once
\* on the ssn_children list of that parent.
ASSUME TreeShape ==
  \A m \in Machines :
    /\ Tree[m] # <<>> /\ DOMAIN Tree[m] = 1 .. Size(m)
    /\ Parent[m][1] = 0 /\ \A i \in 2 .. Size(m) : Parent[m][i] \in 1 .. i - 1
    /\ \A i \in 2 .. Size(m) : i \in Range(Children[m][Parent[m][i]])
    /\ \A p \in 1 .. Size(m) :
         /\ Children[m][p] \in Seq(2 .. Size(m))
         /\ \A k \in DOMAIN Children[m][p] : Parent[m][Children[m][p][k]] = p
         /\ \A j, k \in DOMAIN Children[m][p] :
              Children[m][p][j] = Children[m][p][k] => j = k

\* There are ids for all the nodes, and the stack takes what waits below a node
\* and the children of that node.
ASSUME TreeFits ==
  \A m \in Machines :
    /\ Size(m) <= IdBound
    /\ \A p \in 1 .. Size(m) : Below[m][p] + Len(Children[m][p]) <= RELEASE_STACK_MAX

\* The node at a path; the directory of a CPU.
NodeAt(m, path) == CHOOSE i \in DOMAIN Tree[m] : Tree[m][i].path = path
CpuPath(c) == Cpu \o <<"cpu" \o ToString(c)>>

\* The CPUs that have a directory.
Shown(m) == 0 .. Min({Ncpu(m), MAX_CPU_NODES}) - 1

\* The calls give every CPU file the handler of its name, and the files of a
\* cpuN directory the number of their CPU.
ASSUME Layout ==
  \A m \in Machines :
    LET handler(path) == Tree[m][NodeAt(m, path)].handler
        cpuFile(c, file) == Tree[m][NodeAt(m, CpuPath(c) \o <<"topology", file>>)]
    IN  /\ handler(Node0 \o <<"cpulist">>) = "cpulist"
        /\ handler(Node0 \o <<"cpumap">>) = "cpumap"
        /\ handler(Cpu \o <<"kernel_max">>) = "kernel_max"
        /\ \A f \in {"online", "possible", "present"} :
             handler(Cpu \o <<f>>) = "cpulist"
        /\ \A c \in 0 .. Ncpu(m) - 1 :
             c \in Shown(m) <=> \E i \in DOMAIN Tree[m] : Tree[m][i].path = CpuPath(c)
        /\ \A c \in Shown(m) :
             /\ cpuFile(c, "core_id").handler = "core_id"
             /\ cpuFile(c, "core_id").instance = c
             /\ cpuFile(c, "thread_siblings_list").handler = "thread_siblings"
             /\ cpuFile(c, "thread_siblings_list").instance = c
             /\ cpuFile(c, "core_siblings_list").handler = "core_siblings"

VARIABLES
  machine,     \* the machine the kext runs on
  nextId,      \* next_node_id
  phase,       \* "none": root_node is NULL; "built"; "releasing"
  base,        \* next_node_id when the present tree was begun
  live,        \* the nodes that are allocated
  stack,       \* stack[0..sp) of release_node()
  given        \* history: how many ids were taken since the kext was loaded

vars == <<machine, nextId, phase, base, live, stack, given>>

-------------------------------------------------------------------------------
ROOT_ID == 1                                        \* SYSFS_ROOT_NODE_BASE_ID

\* The id of node i of a tree begun at b; the counter has 16 bits.
NodeId(i, b) == IF i = 1 THEN ROOT_ID ELSE (b + i - 2) % IdBound

-------------------------------------------------------------------------------
Init ==
  /\ machine \in Machines
  /\ nextId = ROOT_ID + 1 /\ phase = "none" /\ base = 0
  /\ live = {} /\ stack = <<>> /\ given = 0

\* sysfs_structure_init(): nothing happens if there is a tree.
StructureInit ==
  /\ phase = "none"
  /\ live' = live \cup 1 .. Size(machine)
  /\ nextId' = (nextId + Size(machine) - 1) % IdBound
  /\ given' = given + Size(machine) - 1
  /\ base' = nextId /\ phase' = "built"
  /\ UNCHANGED <<machine, stack>>

\* sysfs_structure_free(), and release_node() up to its loop: the root has no
\* parent to be detached from.
StructureFree ==
  /\ phase = "built"
  /\ stack' = <<1>> /\ phase' = "releasing"
  /\ UNCHANGED <<machine, nextId, base, live, given>>

\* One round of release_node()'s loop: pop a node, push its children as long as
\* there is room, free it.  The child that finds the stack full, and those after
\* it, are lost with the node.
ReleasePopKeepsNode ==   \* mutant: the node stays on the stack
  /\ phase = "releasing" /\ stack # <<>>
  /\ stack' = stack \o Children[machine][stack[Len(stack)]]
  /\ live' = live \ {stack[Len(stack)]}
  /\ UNCHANGED <<machine, nextId, phase, base, given>>

ReleasePop ==
  /\ phase = "releasing" /\ stack # <<>>
  /\ LET node == stack[Len(stack)]
         rest == SubSeq(stack, 1, Len(stack) - 1)
         children == Children[machine][node]
         room == RELEASE_STACK_MAX - Len(rest)
     IN  /\ stack' = rest \o SubSeq(children, 1, Min({room, Len(children)}))
         /\ live' = live \ {node}
  /\ UNCHANGED <<machine, nextId, phase, base, given>>

\* root_node = NULL.
ReleaseEnd ==
  /\ phase = "releasing" /\ stack = <<>>
  /\ phase' = "none"
  /\ UNCHANGED <<machine, nextId, base, live, stack, given>>

Next == StructureInit \/ StructureFree \/ ReleasePop \/ ReleaseEnd

Spec == Init /\ [][Next]_vars

-------------------------------------------------------------------------------

\* The ids of the nodes of the present tree but the root.
ChildIds == {NodeId(i, base) : i \in 2 .. Size(machine)}

(* sysfs.h says of ssn_base_node_id "Base node id - unique" (233), and it is   *)
(* what tells the static nodes apart in sysfsnode_find(): no two nodes of the  *)
(* tree have the same id, and none has the root's.                             *)
UniqueNodeIds ==
  phase = "built" =>
    Cardinality(ChildIds) = Size(machine) - 1 /\ ROOT_ID \notin ChildIds

(* What the 16-bit counter, which no unmount resets, leaves of that: only the  *)
(* root's id is ever given to a second node, and not before next_node_id has   *)
(* gone round.                                                                 *)
OnlyRootIdRepeats ==
  phase = "built" =>
    /\ Cardinality(ChildIds) = Size(machine) - 1
    /\ given <= IdBound - 2 => ROOT_ID \notin ChildIds

(* When sysfs_structure_free() returns, every node of the tree was freed: the *)
(* stack of release_node() is large enough for the tree of any machine.  No   *)
(* node is freed twice or read after that: what waits on the stack is         *)
(* allocated and waits there once, and its parent is gone.                    *)
FreedOnce ==
  /\ phase = "none" => live = {}
  /\ Cardinality(Range(stack)) = Len(stack)
  /\ Range(stack) \subseteq live
  /\ \A k \in DOMAIN stack : Parent[machine][stack[k]] \notin live

\* What reading the file at a path of the tree gives.
ReadFile(path) ==
  LET i == NodeAt(machine, path)
  IN  Contents(Tree[machine][i].handler, machine, Tree[machine][i].instance)

CpuFile(c, file) == ReadFile(CpuPath(c) \o <<"topology", file>>)

(* The CPU files describe one machine: the mask and the list of node0 name    *)
(* the same CPUs, the largest of them is kernel_max, and the list is what     *)
(* online, possible and present say; there is a directory for each of them    *)
(* up to SYSFS_MAX_CPU_NODES.                                                 *)
CpuSetsAgree ==
  phase = "built" =>
    LET cpus == ReadFile(Node0 \o <<"cpulist">>)
    IN  /\ Decode(ReadFile(Node0 \o <<"cpumap">>)) = cpus
        /\ Max(cpus) = ReadFile(Cpu \o <<"kernel_max">>)
        /\ \A f \in {"online", "possible", "present"} : ReadFile(Cpu \o <<f>>) = cpus
        /\ {c \in cpus : \E i \in DOMAIN Tree[machine] :
                           Tree[machine][i].path = CpuPath(c)}
             = {c \in cpus : c < MAX_CPU_NODES}

(* If the cores all have the same number of threads, thread_siblings_list and *)
(* core_id of the cpuN directories describe one partition of the CPUs: a CPU  *)
(* is its own sibling, siblings are the CPUs with the same core_id, and every *)
(* sibling exists.                                                            *)
SiblingsPartition ==
  (phase = "built" /\ machine.physical \in 1 .. machine.logical
     /\ machine.logical % machine.physical = 0) =>
    LET row(c) == [cpu |-> c, core |-> CpuFile(c, "core_id"),
                   siblings |-> CpuFile(c, "thread_siblings_list"),
                   package |-> CpuFile(c, "core_siblings_list")]
        rows == {row(c) : c \in Shown(machine)}
    IN  \A x \in rows :
          /\ x.siblings \subseteq x.package
          /\ x.siblings \cap Shown(machine)
               = {y.cpu : y \in {z \in rows : z.core = x.core}}
===============================================================================

------------------------------- MODULE CpuFiles -------------------------------
(***************************************************************************)
(* What the read handlers of sysfs_system.c put into the files below       *)
(* /sys/devices/system and /sys/kernel/mm.  A file is modelled by what its  *)
(* text says, not by the text: a CPU list is the set of CPUs it names, a    *)
(* CPU map is the sequence of its 32-bit groups with the set of bits of     *)
(* each, every other file is the number it holds.                           *)
(*                                                                          *)
(* A machine is a record of the sysctls the handlers read,                  *)
(* hw.logicalcpu_max, hw.physicalcpu_max and hw.memsize (here in KB); 0     *)
(* stands for a sysctl that fails or returns nothing usable.                *)
(***************************************************************************)
EXTENDS Naturals, Sequences

\* sysfs_ncpu(), and sysfs_cpu_count() which exports it.
Ncpu(m) == IF m.logical = 0 THEN 1 ELSE m.logical

\* sysfs_threads_per_core().
ThreadsPerCore(m) ==
  IF m.physical = 0 \/ m.physical >= Ncpu(m) THEN 1 ELSE Ncpu(m) \div m.physical

\* sysfs_do_cpulist(): "0" on one CPU, else "0-<n-1>".
CpuList(m) == IF Ncpu(m) <= 1 THEN {0} ELSE 0 .. Ncpu(m) - 1

CpuMapRemainder(m) ==   \* mutant: the top group has ncpu % 32 bits
  LET groups == (Ncpu(m) + 31) \div 32
      bits(g) == IF g = groups THEN Ncpu(m) % 32 ELSE 32
  IN  [k \in 1 .. groups |-> 0 .. bits(groups + 1 - k) - 1]

\* The CPUs whose map fits into buf: 56 groups of eight digits, with their commas,
\* in SYSFS_SYSTEM_BUFMAX, 512, characters.
MAP_CPUS == 32 * 56

\* sysfs_do_cpumap(): the groups of 32 bits, the most significant one first
\* and masked to the CPUs it has, every other one full.  With more than MAP_CPUS
\* the loop would end early, at off < sizeof(buf).
CpuMap(m) ==
  LET groups == (Ncpu(m) + 31) \div 32
      bits(g) == IF g = groups THEN Ncpu(m) - (groups - 1) * 32 ELSE 32
  IN  [k \in 1 .. groups |-> 0 .. bits(groups + 1 - k) - 1]

\* sysfs_do_cpu_core_id() and sysfs_do_cpu_thread_siblings() of CPU c.
CoreId(m, c) == c \div ThreadsPerCore(m)

ThreadSiblingsFromSelf(m, c) ==   \* mutant: the run starts at the CPU itself
  IF ThreadsPerCore(m) <= 1 THEN {c} ELSE c .. c + ThreadsPerCore(m) - 1

ThreadSiblings(m, c) ==
  IF ThreadsPerCore(m) <= 1 THEN {c}
  ELSE LET first == (c \div ThreadsPerCore(m)) * ThreadsPerCore(m)
       IN  first .. first + ThreadsPerCore(m) - 1

\* sysfs_do_cpu_kernel_max().
KernelMax(m) == Ncpu(m) - 1

\* sysfs_do_node_meminfo() and sysfs_do_node_numastat(): only the total is real.
MemInfo(m) ==
  [MemTotal |-> m.memory, MemUsed |-> 0, MemFree |-> 0,
   HugePages_Total |-> 0, HugePages_Free |-> 0]

NumaStat ==
  [numa_hit |-> 0, numa_miss |-> 0, numa_foreign |-> 0,
   interleave_hit |-> 0, local_node |-> 0, other_node |-> 0]

\* The handlers, by the name the structure node carries; c is the node's
\* ssn_instance (sysfs_node_cpu()).
Contents(handler, m, c) ==
  CASE handler \in {"cpulist", "core_siblings"} -> CpuList(m)
    [] handler = "cpumap"                       -> CpuMap(m)
    [] handler = "core_id"                      -> CoreId(m, c)
    [] handler = "thread_siblings"              -> ThreadSiblings(m, c)
    [] handler = "kernel_max"                   -> KernelMax(m)
    [] handler = "node_meminfo"                 -> MemInfo(m)
    [] handler = "node_numastat"                -> NumaStat
    [] handler = "cpu_online"                   -> 1
    [] handler = "node_distance"                -> 10
    [] handler \in {"zero_count", "package_id"} -> 0
    [] handler = "node_list"                    -> {0}

\* The CPUs whose bits a CPU map sets.
Decode(map) == UNION {{32 * (Len(map) - k) + b : b \in map[k]} : k \in DOMAIN map}
===============================================================================

----------------------------- MODULE MCStructure ------------------------------
(* The structure trees of all numbers of CPUs that get a directory, mounted, *)
(* unmounted and mounted again.                                              *)
EXTENDS Structure

\* A sysctl that fails, which leaves one CPU; more CPUs than get a directory.
NoSysctl == [logical |-> 0, physical |-> 0, memory |-> 0]
Largest == [logical |-> 300, physical |-> 150, memory |-> 8]

\* Every number of CPUs up to SYSFS_MAX_CPU_NODES: an even number in cores of two
\* threads, a multiple of 3 in three cores, the others where only the number of cores fails.
Cores(n) == IF n % 2 = 0 THEN n \div 2 ELSE IF n % 3 = 0 THEN 3 ELSE 0

AllCounts ==
  {NoSysctl, Largest}
    \cup {[logical |-> n, physical |-> Cores(n), memory |-> 8] : n \in 1 .. 64}

\* A tree is built, released and built again.
Round == given <= Size(machine)
===============================================================================

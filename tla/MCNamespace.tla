----------------------------- MODULE MCNamespace ------------------------------
(* Walks over up to three registry entries, in any order.                    *)
EXTENDS Namespace

TwoCpus == {[logical |-> 2, physical |-> 2, memory |-> 8]}

\* The three entries: a disk whose parent may be missing, a partition, a network
\* interface or a power source, and a power source.  Power sources have no BSD name.
\* Names collide with each other, with a generated one, with an attribute file
\* and with the static child of /sys/devices.
Disk == [regid : {1}, parent : {0, 3, 9}, name : {"a"}, isa : {"IOMedia"},
         bsd : {"disk0"}, whole : {TRUE}]
Partition == [regid : {2}, parent : {0, 1}, name : {"a"}, isa : {"IOMedia"},
              bsd : {"disk0s1"}, whole : {FALSE}]
Network == [regid : {2}, parent : {1, 9}, name : {"a", "system"},
            isa : {"IONetworkInterface"}, bsd : {"en0"}, whole : {FALSE}]
Power == [regid : {3}, parent : {0, 1, 2}, name : {"a", "a@1", "name"},
          isa : {"IOPMPowerSource"}, bsd : {""}, whole : {FALSE}]
SecondPower == [regid : {2}, parent : {0, 1}, name : {"a"},
                isa : {"IOPMPowerSource"}, bsd : {""}, whole : {FALSE}]
ThreeEntries == Disk \cup Partition \cup Network \cup Power \cup SecondPower

\* The service plane is a tree: no entry is below itself.
Acyclic ==
  LET up(r) == LET is == {i \in DOMAIN nodes : nodes[i].regid = r}
               IN  IF is = {} THEN 0 ELSE nodes[Min(is)].parent
  IN  \A i \in DOMAIN nodes : up(up(up(nodes[i].regid))) = 0

Kext(name, tag) == [name |-> name, tag |-> tag]
SomeLists == {<<Kext("kernel", 0), Kext("stub", 0)>>,
              <<Kext("kernel", 0), Kext("sysfs", 7), Kext("stub", 0)>>}

\* Every id collides with the next one, and the probes run over the end.
Colliding(regid) == 14 + (regid % 2)
===============================================================================

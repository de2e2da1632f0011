SPECIFICATION NamespaceSpec
CONSTANTS
  Entries <- ThreeEntries
  ModuleLists <- SomeLists
  Machines <- TwoCpus
  MAX_CPU_NODES = 64
  NodeCap = 4
  MAXMODULES = 2
  PATHDEPTH = 2
  Regids = {0, 1, 2, 3, 9}
  HashOf <- Colliding
CONSTRAINT Acyclic
CHECK_DEADLOCK FALSE
INVARIANTS
  HashExact
  ChildListsExact
  ListedIsFound
  UniqueNames
  DotDotLeadsBack
  ClimbEnds
  LinkResolves
  AttributesBelong

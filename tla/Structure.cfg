SPECIFICATION Spec
CONSTANTS
  Machines <- AllCounts
  MAX_CPU_NODES = 64
  RELEASE_STACK_MAX = 256
  IdBound = 65536
CONSTRAINT Round
INVARIANTS
  FreedOnce
  CpuSetsAgree
  SiblingsPartition

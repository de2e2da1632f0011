SPECIFICATION FairSpec
CONSTANTS
  Static <- StaticChildren
  DevStatic <- System
  DevAttrs <- Name
  ModAttrs <- ModuleFiles
  Lists <- SomeLists
  Bufs = {0, 2, 32, 48, 64, 200}
  MaxSeeks = 2
CHECK_DEADLOCK FALSE
INVARIANTS
  ListedOnce
  BigBufferSuffices
PROPERTIES
  EndMeansAll
  ScanEnds

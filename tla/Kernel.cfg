SPECIFICATION Spec
CONSTANTS
  Callers = {c1, c2}
  NULL = NULL
  Parent <- MCParent
  Pids <- MCPids
  Mm <- MCMm
  DataSize = 2
  PAGE_SIZE = 4
  Mask = 16
  Addresses = {1, 6, 11}
  MaxCalls = 3
SYMMETRY Symmetric
INVARIANTS FaultsHaveCauses QuietDataIsATree TranslationIsRight
CHECK_DEADLOCK FALSE

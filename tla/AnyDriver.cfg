SPECIFICATION Spec
CONSTANTS
  MaxHeap = 32
  Ids = {1, 2}
  Sizes = {4, 16}
  NumTraces = 1
  MaxOps = 2
  Rounds = 1
INVARIANT PayloadsAreDisjoint

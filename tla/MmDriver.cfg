SPECIFICATION Spec
CONSTANTS
  MaxHeap = 120
  ChunkSize = 32
  Ids = {1, 2, 130}
  Sizes = {4, 12, 28}
  NumTraces = 2
  MaxOps = 5
  Rounds = 1
INVARIANTS HeapIsRight BooksAreRight ErrorsAreNotTheAllocators
PROPERTY IsAllocator

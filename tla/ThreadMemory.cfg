\* The memory of MemoryLists.cfg; objects of one block and of three beside threads.
CONSTANTS
  HeapStart = 32
  HeapSize = 18
  Header = 2
  BlockSize = 2
  Sizes = {1, 5}
SPECIFICATION Spec
INVARIANT ObjectsDisjoint

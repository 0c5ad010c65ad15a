\* A heap of three blocks: one for the descriptors, two for slabs.
CONSTANTS
  small = small  big = big  buffer = buffer
  Caches = {small, big, buffer}  Buffers <- MCBuffers
  ObjectSize <- MCObjectSize
  BlockSize = 5  HeaderSize = 1  FreeSlotSize = 1
  ArenaSize = 3
SPECIFICATION Spec
INVARIANTS TypeOK ListsMatchSlots SlabsBacked LiveAccounted
PROPERTY ObjectPromise
CHECK_DEADLOCK FALSE

\* Two caches and three blocks for slabs: a slab is unlinked from between two others.
CONSTANTS
  small = small  big = big  buffer = buffer
  Caches = {small, big}  Buffers <- MCBuffers
  ObjectSize <- MCObjectSize
  BlockSize = 5  HeaderSize = 1  FreeSlotSize = 1
  Ctor <- MCCtor  Dtor <- MCDtor
  ArenaSize = 4
  NULL = NULL
SPECIFICATION Spec
INVARIANTS CountsAgree ConstructedButLast
PROPERTY ImplementsSlabCache
CHECK_DEADLOCK FALSE

\* The instance of MCSlabCache.cfg with the pointers, checked for one property.
CONSTANTS
  small = small  big = big  buffer = buffer
  Caches = {small, big, buffer}  Buffers <- MCBuffers
  ObjectSize <- MCObjectSize
  BlockSize = 5  HeaderSize = 1  FreeSlotSize = 1
  Ctor <- MCCtor  Dtor <- MCDtor
  ArenaSize = 3
  NULL = NULL
SPECIFICATION Spec
INVARIANT NoStaleSlab
CHECK_DEADLOCK FALSE

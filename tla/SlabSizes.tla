----------------------------- MODULE SlabSizes -----------------------------
(***************************************************************************)
(* The arithmetic of allocateNewSlab, allocateBufferSlab, deallocateSlab   *)
(* and kalloc, in bytes, for objects of a given size.                      *)
(***************************************************************************)
EXTENDS Integers

CONSTANTS
  BlockSize,     \* BLOCK_SIZE
  HeaderSize,    \* sizeof(SlabAllocator)
  FreeSlotSize   \* sizeof(FreeSlot)

slotSize(size) == FreeSlotSize + size

(* The blocks that are requested for a slab, and those it is given back as. *)
number(size)   == (slotSize(size) + HeaderSize - 1) \div BlockSize + 1
returned(size) == (slotSize(size) + HeaderSize - 1) \div BlockSize + 1

(* 1 << cnt, an int. *)
Power2[cnt \in 0 .. 30] == IF cnt = 0 THEN 1 ELSE 2 * Power2[cnt - 1]

(* The blocks the heap grants: the loop counts the shifts that take n - 1  *)
(* to zero, like ceilLog2 of the heap.                                     *)
granted(n) ==
  Power2[CHOOSE cnt \in 0 .. 30 : n <= Power2[cnt] /\ (cnt = 0 \/ Power2[cnt - 1] < n)]

(* (1 << cnt) * BLOCK_SIZE is an int: the caches are assumed to stay below  *)
(* INT_MAX, which the heap ends far below.                                 *)
INT_MAX == 2147483647
totalSizeOfSlab(size) == granted(number(size)) * BlockSize

totalNumOfFreeSlots(size) == (totalSizeOfSlab(size) - HeaderSize) \div slotSize(size)

(* kalloc: the buffers have the sizes 2^5 to 2^17. *)
MIN_BUFFER_SIZE == 5
MAX_BUFFER_SIZE == 17

(* For sizes up to 2^30; above that the loop does not end. *)
bufferDegree(size) ==
  CHOOSE deg \in MIN_BUFFER_SIZE .. 30 :
    size <= Power2[deg] /\ (deg = MIN_BUFFER_SIZE \/ Power2[deg - 1] < size)

-----------------------------------------------------------------------------
(* A slab holds at least one object and as many as its blocks have room    *)
(* for, and is given back as what it was granted as.                       *)
SlabFilled(size) ==
  LET n == totalNumOfFreeSlots(size) IN
  /\ n >= 1
  /\ HeaderSize + n * slotSize(size) <= totalSizeOfSlab(size)
  /\ totalSizeOfSlab(size) < HeaderSize + (n + 1) * slotSize(size)
  /\ granted(returned(size)) * BlockSize = totalSizeOfSlab(size)

(* A buffer has a place in bufferCachesPointer and is long enough, but no  *)
(* longer than it has to be.                                               *)
BufferFits(size) ==
  LET deg == bufferDegree(size) IN
  /\ deg - MIN_BUFFER_SIZE \in 0 .. MAX_BUFFER_SIZE - MIN_BUFFER_SIZE
  /\ size <= Power2[deg]
  /\ Power2[deg] < 2 * size \/ deg = MIN_BUFFER_SIZE
=============================================================================

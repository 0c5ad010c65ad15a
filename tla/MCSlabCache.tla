---------------------------- MODULE MCSlabCache ----------------------------
(* SlabCache for TLC.  A block is five bytes long, and the headers of a   *)
(* slab and of a slot one: a slab of one block has two slots for objects   *)
(* of one byte, and an object of four bytes needs a slab of two blocks     *)
(* with one slot.                                                          *)
EXTENDS SlabCache

CONSTANTS small, big, buffer   \* the caches an instance may have

MCBuffers  == Caches \cap {buffer}
MCObjectSize == [k \in Caches |-> IF k = big THEN 4 ELSE 1]

(* The sizes of the kernel: 4096, 88 and 8 bytes. *)
Real == INSTANCE SlabSizes WITH BlockSize <- 4096, HeaderSize <- 88, FreeSlotSize <- 8

Sizes == 1 .. 5000 \cup {2^d + i : d \in 12 .. 18, i \in -110 .. 110}

(* With the sizes of the kernel every slab is filled: the sum of headers    *)
(* and slots agrees with what the heap grants and gets back.  kmalloc of   *)
(* any size that has a buffer finds one that is long enough.               *)
ASSUME KernelSizesFit ==
  /\ \A size \in Sizes : Real!SlabFilled(size)
  /\ \A size \in 1 .. 2^MAX_BUFFER_SIZE : BufferFits(size)
=============================================================================

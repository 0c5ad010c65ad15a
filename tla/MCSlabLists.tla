---------------------------- MODULE MCSlabLists ----------------------------
(* SlabLists for TLC.  A block is five bytes long, and the headers of a   *)
(* slab and of a slot one: a slab of one block has two slots for objects   *)
(* of one byte, and an object of four bytes needs a slab of two blocks     *)
(* with one slot.                                                          *)
EXTENDS SlabLists

CONSTANTS small, big, buffer   \* the caches an instance may have

MCBuffers  == Caches \cap {buffer}
MCObjectSize == [k \in Caches |-> IF k = big THEN 4 ELSE 1]
MCCtor     == Caches \cap {small}
MCDtor     == Caches \cap {big}
=============================================================================

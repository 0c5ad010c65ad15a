-------------------------- MODULE MCBuddyAllocator --------------------------
(* BuddyAllocator for TLC: the powers of two, and every request size that  *)
(* matters in a heap of 2^(MaxDegree - 1) blocks.                          *)
EXTENDS BuddyAllocator

MCSize == [d \in 0 .. MaxDegree |-> 2^d]

(* 0 (which wraps around), every size that fits, and one that does not.    *)
MCRequests == 0 .. 2^(MaxDegree - 1) + 1
=============================================================================

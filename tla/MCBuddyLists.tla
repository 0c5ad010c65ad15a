---------------------------- MODULE MCBuddyLists ----------------------------
(* BuddyLists for TLC, with the heap of MCBuddyAllocator. *)
EXTENDS BuddyLists

MCSize == [d \in 0 .. MaxDegree |-> 2^d]

(* One size for each degree, and one that is beyond the lists. *)
MCRequests == {2^d : d \in 0 .. MaxDegree}
=============================================================================

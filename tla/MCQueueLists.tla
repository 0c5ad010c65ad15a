---------------------------- MODULE MCQueueLists ----------------------------
(* The ready threads, the waiters of a semaphore and the sleepers. *)
EXTENDS QueueLists, TLC
CONSTANTS ready, waiters, sleepers, d1, d2, d3, e1, e2, e3, e4
SameNames == Permutations({d1, d2, d3}) \cup Permutations({e1, e2, e3, e4})
=============================================================================

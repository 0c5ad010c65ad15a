------------------------------ MODULE MCTraps ------------------------------
(* Two threads beside main; every kind of system call. *)
EXTENDS Traps, TLC
CONSTANTS t1, t2
AllCalls == DOMAIN Code
SameThreads == Permutations({t1, t2})
=============================================================================

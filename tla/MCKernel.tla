------------------------------ MODULE MCKernel ------------------------------
(* Two or three user threads and main(), one semaphore. *)
EXTENDS Kernel, TLC
CONSTANTS t1, t2, t3, s1
TwoThreads   == {t1, t2}
ThreeThreads == {t1, t2, t3}
OneSem       == {s1}

\* The threads other than UserMain are interchangeable.
SameThreads == Permutations({t2, t3})
=============================================================================

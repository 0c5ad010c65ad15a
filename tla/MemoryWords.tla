---------------------------- MODULE MemoryWords ----------------------------
(***************************************************************************)
(* src/MemoryAllocator.cpp over the words of memory: the two calls as      *)
(* functions from memory to memory.  The header FreeMem of a segment is    *)
(* its first two words, memSize and next.  The static freeMemHead is kept  *)
(* at Null + 1, where the next of a null pointer would be, so that to link *)
(* behind a segment or at the head is one operation.                       *)
(***************************************************************************)
EXTENDS Integers

CONSTANTS
  HeapStart,  \* HEAP_START_ADDR; more than the arena is long
  HeapSize, Header, BlockSize   \* in words; a header has two

Null  == 0
Junk  == -1   \* a word a client wrote: no length and no address
Arena == HeapStart .. HeapStart + HeapSize - 1

InitialMemory ==
  [a \in Arena \cup {Null + 1} |->
     CASE a = Null + 1  -> HeapStart
       [] a = HeapStart -> HeapSize - Header
       [] OTHER         -> Null]

(* Where a loop over the list of m is after n steps: at a segment, or at   *)
(* what ends the list, which it does not leave.                            *)
Onward(m, a) == IF a \in Arena THEN m[a + 1] ELSE a

Along(m) ==
  LET along[n \in 0 .. HeapSize] ==
        IF n = 0 THEN m[Null + 1] ELSE Onward(m, along[n - 1])
  IN  along

(* The steps of a loop that stops at the first segment in Stop; a list     *)
(* that forms a ring is given up after as many as the arena has words.     *)
StepsTo(m, Stop) ==
  CHOOSE n \in 0 .. HeapSize :
    /\ n = HeapSize \/ Along(m)[n] \notin Arena \ Stop
    /\ \A k \in 0 .. n - 1 : Along(m)[k] \in Arena \ Stop

(* Where it stops, and where it was one step before, null at the head.     *)
Found(m, Stop)  == Along(m)[StepsTo(m, Stop)]
Before(m, Stop) == LET n == StepsTo(m, Stop) IN IF n = 0 THEN Null ELSE Along(m)[n - 1]

-----------------------------------------------------------------------------
(* The wrapper in syscall_c.cpp asks for whole blocks.  Mutant: it does    *)
(* not round up.                                                           *)
sizeInBlocksDown(size) == size \div BlockSize
sizeInBlocks(size) ==
  LET n == size \div BlockSize IN IF n * BlockSize < size THEN n + 1 ELSE n

(* mem_alloc(size): the memory it leaves and the pointer it returns.       *)
mem_alloc(m, size) ==
  LET requiredSize == size * BlockSize
      longEnough == {a \in Arena : requiredSize <= m[a]}
      current    == Found(m, longEnough)
      previous   == Before(m, longEnough)
      rest       == current + Header + requiredSize
      remainingSize == m[current] - requiredSize
  IN IF current \notin longEnough \/ rest >= HeapStart + HeapSize
     THEN [mem |-> m, pointer |-> Null]
     ELSE [pointer |-> current + Header,
           mem |-> IF remainingSize < Header + BlockSize
                   THEN [m EXCEPT ![previous + 1] = m[current + 1], ![current + 1] = Null]
                   ELSE [m EXCEPT ![previous + 1] = rest,
                                  ![rest + 1] = m[current + 1],
                                  ![rest] = remainingSize - Header,
                                  ![current] = requiredSize,
                                  ![current + 1] = Null]]

-----------------------------------------------------------------------------
(* What mem_free does with the segment s: it links s behind previous, ...  *)
LinkedBehind(m, previous, s) ==
  [m EXCEPT ![s + 1] = m[previous + 1], ![previous + 1] = s]

(* ... and joins s with the segment t behind it if they touch.             *)
Touches(m, s, t) == s # Null /\ t # Null /\ s + Header + m[s] = t

(* Mutant: next of the longer segment is left.                             *)
JoinedStillLinked(m, s, t) ==
  IF Touches(m, s, t) THEN [m EXCEPT ![s] = @ + Header + m[t], ![t + 1] = Null] ELSE m

Joined(m, s, t) ==
  IF Touches(m, s, t)
  THEN [m EXCEPT ![s] = @ + Header + m[t], ![s + 1] = m[t + 1], ![t + 1] = Null]
  ELSE m

(* The last segment of the list before s, or null.                         *)
Previous(m, s) == Before(m, {a \in Arena : s <= a})

mem_free(m, pointer) ==
  LET s == pointer - Header
      p == Previous(m, s)
      linked == LinkedBehind(m, p, s)
      first  == IF Touches(linked, p, s) THEN p ELSE s
      joined == Joined(linked, p, s)
  IN IF pointer \notin HeapStart .. HeapStart + HeapSize
     THEN m
     ELSE Joined(joined, first, joined[first + 1])

-----------------------------------------------------------------------------
(* A client writes what it asked for, whatever it was given.               *)
Written(m, pointer, size) ==
  [a \in DOMAIN m |-> IF a \in pointer .. pointer + size - 1 THEN Junk ELSE m[a]]
=============================================================================

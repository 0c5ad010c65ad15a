-------------------------- MODULE MemoryAllocator --------------------------
(***************************************************************************)
(* The first-fit allocator of src/MemoryAllocator.cpp, from which user     *)
(* memory and thread stacks come.  The arena is cut into segments, each a  *)
(* FreeMem header and memSize bytes.  Addresses count from                 *)
(* HEAP_START_ADDR.  The free list is sorted by address, so it is a set    *)
(* here, and the neighbours of a segment on it are the nearest members.    *)
(* The first call of getInstance makes the arena one free segment.         *)
(*                                                                         *)
(* A client frees only what it holds.  A null pointer and an address       *)
(* outside the arena are refused and change nothing.                       *)
(***************************************************************************)
EXTENDS Integers

CONSTANTS
  HeapSize,   \* HEAP_END_ADDR - HEAP_START_ADDR
  Header,     \* sizeof(FreeMem)
  BlockSize,  \* MEM_BLOCK_SIZE
  Requests    \* the sizes, in blocks, that callers of mem_alloc pass

ASSUME SizesAssumption ==
  /\ Header \in Nat \ {0}
  /\ BlockSize \in Nat \ {0}
  /\ HeapSize \in Nat /\ Header < HeapSize
  /\ Requests \subseteq Nat

VARIABLES
  free,   \* the segments on the list freeMemHead
  used    \* the segments clients hold (ghost: the code keeps no list of them)

vars == <<free, used>>

Segment(at, memSize) == [at |-> at, memSize |-> memSize]
AllSegments == [at : Nat, memSize : Nat]
End(s)      == s.at + Header + s.memSize

Init ==
  /\ free = {Segment(0, HeapSize - Header)}
  /\ used = {}

-----------------------------------------------------------------------------
(* mem_alloc(size). *)

requiredSize(size) == size * BlockSize

(* The first segment on the list that is long enough. *)
IsFirstFit(s, size) ==
  /\ s \in free
  /\ requiredSize(size) <= s.memSize
  /\ \A t \in free : requiredSize(size) <= t.memSize => s.at <= t.at

(* The test the code makes before it takes the segment. *)
ReachesEnd(s, size) == s.at + Header + requiredSize(size) >= HeapSize

(* What would be left cannot hold a header and a block.  Mutant: the   *)
(* header is not counted, so that a rest of no bytes is split off.         *)
TakesWholeNoHeader(s, size) == s.memSize - requiredSize(size) < 0
TakesWhole(s, size) == s.memSize - requiredSize(size) < Header + BlockSize

AllocWhole(size) ==
  \E s \in free :
    /\ IsFirstFit(s, size)
    /\ ~ReachesEnd(s, size)
    /\ TakesWhole(s, size)
    /\ free' = free \ {s}
    /\ used' = used \cup {s}

(* Mutants: the rest begins where it would if the segment had no header;   *)
(* the header of the rest is not taken off its length; the segment given   *)
(* away keeps its old length.                                              *)
RestOverlaps(s, size) ==
  Segment(s.at + requiredSize(size), s.memSize - requiredSize(size) - Header)
RestTooLong(s, size) ==
  Segment(s.at + Header + requiredSize(size), s.memSize - requiredSize(size))
PartUncut(s, size) == s

Rest(s, size) ==
  Segment(s.at + Header + requiredSize(size), s.memSize - requiredSize(size) - Header)
Part(s, size) == Segment(s.at, requiredSize(size))

AllocSplit(size) ==
  \E s \in free :
    /\ IsFirstFit(s, size)
    /\ ~ReachesEnd(s, size)
    /\ ~TakesWhole(s, size)
    /\ free' = (free \ {s}) \cup {Rest(s, size)}
    /\ used' = used \cup {Part(s, size)}

AllocFail(size) ==
  /\ \A s \in free : IsFirstFit(s, size) => ReachesEnd(s, size)
  /\ UNCHANGED vars

-----------------------------------------------------------------------------
(* mem_free(pointer), for the pointer mem_alloc returned with segment s:    *)
(* the segment is put in its place on the list, then joined with the one    *)
(* before and with the one after when they touch.                           *)

IsPrevious(p, s) ==
  p \in free /\ p.at < s.at /\ \A t \in free : t.at < s.at => t.at <= p.at

(* Mutant: the last segment of the list is not looked at. *)
IsNextButLast(n, s) ==
  /\ n \in free /\ s.at < n.at /\ \A t \in free : s.at < t.at => n.at <= t.at
  /\ \E t \in free : n.at < t.at
IsNext(n, s) ==
  n \in free /\ s.at < n.at /\ \A t \in free : s.at < t.at => n.at <= t.at

Touches(s, t) == End(s) = t.at

JoinsPrevious(p, s) == IsPrevious(p, s) /\ Touches(p, s)
JoinsNext(n, s)     == IsNext(n, s) /\ Touches(s, n)

(* Mutant: the header of the joined segment stays lost. *)
JoinedShort(s, t) == Segment(s.at, s.memSize + t.memSize)
Joined(s, t) == Segment(s.at, s.memSize + Header + t.memSize)

FreeAlone(s) ==
  /\ ~\E p \in free : JoinsPrevious(p, s)
  /\ ~\E n \in free : JoinsNext(n, s)
  /\ used' = used \ {s}
  /\ free' = free \cup {s}

FreeJoinPrevious(s) ==
  /\ ~\E n \in free : JoinsNext(n, s)
  /\ used' = used \ {s}
  /\ \E p \in free :
       /\ JoinsPrevious(p, s)
       /\ free' = (free \ {p}) \cup {Joined(p, s)}

FreeJoinNext(s) ==
  /\ ~\E p \in free : JoinsPrevious(p, s)
  /\ used' = used \ {s}
  /\ \E n \in free :
       /\ JoinsNext(n, s)
       /\ free' = (free \ {n}) \cup {Joined(s, n)}

FreeJoinBoth(s) ==
  /\ used' = used \ {s}
  /\ \E p, n \in free :
       /\ JoinsPrevious(p, s)
       /\ JoinsNext(n, s)
       /\ free' = (free \ {p, n}) \cup {Joined(Joined(p, s), n)}

-----------------------------------------------------------------------------
Next ==
  \/ \E size \in Requests : AllocWhole(size) \/ AllocSplit(size) \/ AllocFail(size)
  \/ \E s \in used :
       FreeAlone(s) \/ FreeJoinPrevious(s) \/ FreeJoinNext(s) \/ FreeJoinBoth(s)

Spec == Init /\ [][Next]_vars

-----------------------------------------------------------------------------
(* What makes the allocator correct. *)

TypeOK ==
  /\ free \subseteq AllSegments
  /\ used \subseteq AllSegments

Segments == free \cup used

(* A segment is free or held, never both, and no two segments overlap,     *)
(* headers included: the split of mem_alloc and the joins of mem_free cut  *)
(* and glue exactly at the headers.                                        *)
NoOverlap ==
  /\ free \cap used = {}
  /\ \A s, t \in Segments : s # t => End(s) <= t.at \/ End(t) <= s.at

(* No segment, and so no client's memory, reaches beyond HEAP_END_ADDR.    *)
InHeap == \A s \in Segments : End(s) <= HeapSize

(* No byte is lost between splits and joins: every one is in a segment.    *)
Covered ==
  \A a \in 0 .. HeapSize - 1 : \E s \in Segments : s.at <= a /\ a < End(s)

(* mem_free joins whatever can be joined: no two free segments touch, so   *)
(* fragmentation is only what the clients' segments cause.                 *)
Coalesced == \A s, t \in free : End(s) # t.at

(* The allocator keeps the promise of BlockHeap, over bytes.               *)
Heap == INSTANCE BlockHeap
          WITH ArenaSize <- HeapSize, held <- {<<s.at + Header, s.memSize>> : s \in used}
HeapPromise == Heap!Spec
=============================================================================

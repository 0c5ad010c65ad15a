---------------------------- MODULE MemoryLists ----------------------------
(***************************************************************************)
(* MemoryAllocator with the memory it works in: beside every step of the   *)
(* segments, the code's own step on the words of memory, as a client calls *)
(* it over mem_alloc and mem_free of syscall_c.cpp with a size in words.   *)
(* The words never hold a step of the segments back.                       *)
(***************************************************************************)
EXTENDS MemoryAllocator

CONSTANTS HeapStart,
          Sizes   \* the sizes clients ask for

VARIABLE mem

Words == INSTANCE MemoryWords

(* Addresses in the arena are not those of null and its next, a header has *)
(* its two words, and the allocator serves what the wrapper rounds up to.  *)
ASSUME WordsAssumption ==
  /\ HeapStart \in Nat /\ HeapStart > Words!Null + 1
  /\ Header >= 2
  /\ Sizes \subseteq Nat
  /\ {Words!sizeInBlocks(size) : size \in Sizes} \subseteq Requests

allVars == <<free, used, mem>>

InitWords == Init /\ mem = Words!InitialMemory

(* mem_alloc: a client that was given memory writes in it.                 *)
Allocates(size) ==
  LET blocks == Words!sizeInBlocks(size)
      result == Words!mem_alloc(mem, blocks)
  IN /\ AllocWhole(blocks) \/ AllocSplit(blocks) \/ AllocFail(blocks)
     /\ mem' = IF result.pointer = Words!Null
               THEN result.mem
               ELSE Words!Written(result.mem, result.pointer, size)

(* mem_free. *)
Frees(s) ==
  /\ FreeAlone(s) \/ FreeJoinPrevious(s) \/ FreeJoinNext(s) \/ FreeJoinBoth(s)
  /\ mem' = Words!mem_free(mem, HeapStart + s.at + Header)

NextWords ==
  \/ \E size \in Sizes : Allocates(size)
  \/ \E s \in used : Frees(s)

SpecWords == InitWords /\ [][NextWords]_allVars

-----------------------------------------------------------------------------
(* The list in memory is the list of the free segments, in the order of    *)
(* their addresses, and each segment a client holds has its length and no  *)
(* next in its header: linking, splitting and joining change no word they  *)
(* should not, and no client that keeps to the size it asked for reaches a *)
(* header, since mem_alloc rounds up.                                      *)
WordsAgree ==
  LET along  == Words!Along(mem)
      listed == {along[n] : n \in 0 .. HeapSize} \cap Words!Arena
  IN /\ free = {Segment(a - HeapStart, mem[a]) : a \in listed}
     /\ \A n \in 1 .. HeapSize : along[n] \in Words!Arena => along[n - 1] < along[n]
     /\ along[HeapSize] = Words!Null
     /\ \A s \in used :
          /\ mem[HeapStart + s.at] = s.memSize
          /\ mem[HeapStart + s.at + 1] = Words!Null
=============================================================================

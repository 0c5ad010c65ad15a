--------------------------- MODULE BuddyAllocator ---------------------------
(***************************************************************************)
(* The buddy allocator of src/BuddyAllocator.cpp at the level of its free  *)
(* lists.  Addresses are block numbers counted from                        *)
(* KERNEL_HEAP_START_ADDR (blockNumber), a list is the set of the blocks   *)
(* on it: the code keeps every list sorted by address, so the head is the  *)
(* lowest block and the neighbours of a node are the nearest blocks below  *)
(* and above it (module BuddyLists checks this against the pointers).      *)
(*                                                                         *)
(* buddy_alloc is one action per way out of it.  buddy_free is two: the    *)
(* insertion, then one step per recursive call of tryJoiningBuddies;       *)
(* while a call is pending (join) no other operation can begin, because    *)
(* the kernel runs them to the end with interrupts off.                    *)
(***************************************************************************)
EXTENDS Integers

CONSTANTS
  MaxDegree,  \* maxDegree: number of free lists (12 in the code)
  Size,       \* Size[d] = 1 << d, the blocks in a block of degree d
  Requests,   \* the request sizes, in blocks, that clients pass
  None        \* nullptr

Degrees == 0 .. MaxDegree - 1
Top     == MaxDegree - 1

ASSUME DegreesAssumption == MaxDegree \in Nat \ {0}

(* Size holds the powers of two.                                           *)
ASSUME SizeAssumption ==
  /\ Size \in [0 .. MaxDegree -> Nat \ {0}]
  /\ Size[0] = 1
  /\ \A d \in Degrees : Size[d + 1] = 2 * Size[d]

ASSUME RequestsAssumption == Requests \subseteq Nat

VARIABLES
  free,   \* buddy[d] for each degree d: the blocks on that list
  owned,  \* what clients hold, by the degree it was allocated with (ghost)
  join,   \* the pending tryJoiningBuddies(node, size), or None
  ret     \* what the last buddy_alloc or buddy_free returned

vars == <<free, owned, join, ret>>

(* buddyInit hands one block of the highest degree to the lists, although  *)
(* KERNEL_HEAP_END_ADDR lies twice as far.                                 *)
HeapBlocks    == 0 .. Size[Top] - 1
KernelHeapEnd == Size[MaxDegree]

(* The loop counts the shifts that take number - 1 to zero; for number = 0 *)
(* the subtraction wraps around and all 64 bits are shifted out.           *)
ceilLog2(number) ==
  IF number = 0
  THEN 64
  ELSE CHOOSE c \in 0 .. 64 : number <= 2^c /\ (c = 0 \/ 2^(c - 1) < number)

TypeOK ==
  /\ free  \in [Degrees -> SUBSET HeapBlocks]
  /\ owned \in [Degrees -> SUBSET HeapBlocks]
  /\ join  \in (HeapBlocks \X Degrees) \cup {None}
  /\ ret   \in Int \cup {None}

Init ==
  /\ free  = [d \in Degrees |-> IF d = Top THEN {0} ELSE {}]
  /\ owned = [d \in Degrees |-> {}]
  /\ join  = None
  /\ ret   = None

-----------------------------------------------------------------------------
(* The sorted lists. *)

IsHead(b, d)         == b \in free[d] /\ \A c \in free[d] : b <= c
IsFollowing(f, b, d) == f \in free[d] /\ b < f /\ \A c \in free[d] : b < c => f <= c
IsPrevious(p, b, d)  == p \in free[d] /\ p < b /\ \A c \in free[d] : c < b => c <= p

-----------------------------------------------------------------------------
(* buddy_alloc(reqSize). *)

Hand(b, d) == owned' = [owned EXCEPT ![d] = @ \cup {b}] /\ ret' = b

(* Mutant: buddy[size] = buddy[size]->next is forgotten. *)
AllocExactKeepsHead(req) ==
  LET size == ceilLog2(req) IN
  /\ join = None
  /\ size \in Degrees
  /\ \E b \in free[size] : IsHead(b, size) /\ Hand(b, size)
  /\ UNCHANGED <<free, join>>

(* The list of the wanted degree is not empty: its head is unlinked. *)
AllocExact(req) ==
  LET size == ceilLog2(req) IN
  /\ join = None
  /\ size \in Degrees
  /\ \E b \in free[size] :
       /\ IsHead(b, size)
       /\ free' = [free EXCEPT ![size] = @ \ {b}]
       /\ Hand(b, size)
  /\ UNCHANGED join

(* The lists that get a piece of a split block of degree cur, and the      *)
(* upper half of a block of degree e + 1 at b.                             *)
UpperHalfShifted(b, e) == b + Size[e + 1]   \* mutant: the shift is one too far
UpperHalf(b, e)        == b + Size[e]

SplitListsShort(size, cur) == size + 1 .. cur - 1   \* mutant: --upper > size
SplitLists(size, cur)      == size .. cur - 1

(* The first longer list that is not empty gives its head; the upper half  *)
(* of it goes to the list below, and so on down to the wanted degree.      *)
AllocSplit(req) ==
  LET size == ceilLog2(req) IN
  /\ join = None
  /\ size \in Degrees
  /\ free[size] = {}
  /\ \E cur \in size + 1 .. Top :
       /\ \A e \in size .. cur - 1 : free[e] = {}
       /\ \E b \in free[cur] :
            /\ IsHead(b, cur)
            /\ free' = [e \in Degrees |->
                          IF e = cur THEN free[e] \ {b}
                          ELSE IF e \in SplitLists(size, cur)
                               THEN free[e] \cup {UpperHalf(b, e)}
                               ELSE free[e]]
            /\ Hand(b, size)
  /\ UNCHANGED join

(* The request is beyond the lists, or no list from its degree on has a block. *)
AllocFail(req) ==
  LET size == ceilLog2(req) IN
  /\ join = None
  /\ \/ size \notin Degrees
     \/ \A e \in size .. Top : free[e] = {}
  /\ ret' = None
  /\ UNCHANGED <<free, owned, join>>

-----------------------------------------------------------------------------
(* buddy_free(addr, reqSize): a client returns a block with the request    *)
(* size it was allocated with.                                             *)

Free(b, req) ==
  LET size == ceilLog2(req) IN
  /\ join = None
  /\ size \in Degrees
  /\ b \in owned[size]
  /\ owned' = [owned EXCEPT ![size] = @ \ {b}]
  /\ free'  = [free EXCEPT ![size] = @ \cup {b}]
  /\ join'  = <<b, size>>
  /\ ret'   = Size[size]

(* The two refusals, in the order of the code. *)
FreeRefused(addr, req) ==
  LET size == ceilLog2(req) IN
  /\ join = None
  /\ \/ size \notin Degrees /\ ret' = -1
     \/ size \in Degrees /\ addr >= KernelHeapEnd /\ ret' = -2
  /\ UNCHANGED <<free, owned, join>>

-----------------------------------------------------------------------------
(* tryJoiningBuddies(node, size), one recursive call per step. *)

(* The test the code uses to tell a right buddy from a left one. *)
TakenAsRight(b, d) == (b + Size[d]) \div 2 = b

(* Mutants: the following node stays on its list; the merged block is      *)
(* listed at the address of the higher half; the recursion goes on with it. *)
MergeNoUnlink(low, high, d) ==
  /\ free' = [free EXCEPT ![d] = @ \ {low}, ![d + 1] = @ \cup {low}]
  /\ join' = <<low, d + 1>>
  /\ UNCHANGED <<owned, ret>>

MergeListsHigh(low, high, d) ==
  /\ free' = [free EXCEPT ![d] = @ \ {low, high}, ![d + 1] = @ \cup {high}]
  /\ join' = <<high, d + 1>>
  /\ UNCHANGED <<owned, ret>>

MergeJoinsHigh(low, high, d) ==
  /\ free' = [free EXCEPT ![d] = @ \ {low, high}, ![d + 1] = @ \cup {low}]
  /\ join' = <<high, d + 1>>
  /\ UNCHANGED <<owned, ret>>

(* The two blocks of degree d that begin at low are replaced by one.       *)
Merge(low, high, d) ==
  /\ free' = [free EXCEPT ![d] = @ \ {low, high}, ![d + 1] = @ \cup {low}]
  /\ join' = <<low, d + 1>>
  /\ UNCHANGED <<owned, ret>>

JoinFollowing ==
  /\ join # None
  /\ LET b == join[1]
         d == join[2]
     IN /\ ~TakenAsRight(b, d)
        /\ \E f \in free[d] :
             /\ IsFollowing(f, b, d)
             /\ b + Size[d] = f
             /\ Merge(b, f, d)

JoinPrevious ==
  /\ join # None
  /\ LET b == join[1]
         d == join[2]
     IN /\ TakenAsRight(b, d)
        /\ \E p \in free[d] :
             /\ IsPrevious(p, b, d)
             /\ p + Size[d] = b
             /\ Merge(p, b, d)

(* No neighbour on the side looked at, or the neighbour is not adjacent. *)
JoinStop ==
  /\ join # None
  /\ LET b == join[1]
         d == join[2]
     IN IF TakenAsRight(b, d)
        THEN ~\E p \in free[d] : IsPrevious(p, b, d) /\ p + Size[d] = b
        ELSE ~\E f \in free[d] : IsFollowing(f, b, d) /\ b + Size[d] = f
  /\ join' = None
  /\ UNCHANGED <<free, owned, ret>>

-----------------------------------------------------------------------------
Next ==
  \/ \E req \in Requests : AllocExact(req) \/ AllocSplit(req) \/ AllocFail(req)
  \/ \E req \in Requests, b \in HeapBlocks : Free(b, req)
  \/ \E req \in Requests, addr \in {0, KernelHeapEnd} : FreeRefused(addr, req)
  \/ JoinFollowing \/ JoinPrevious \/ JoinStop

Spec == Init /\ [][Next]_vars

-----------------------------------------------------------------------------
(* What makes the allocator correct. *)

(* The block of degree d at b and the block of degree e at c are disjoint. *)
Apart(b, d, c, e) == b + Size[d] <= c \/ c + Size[e] <= b

Known(d) == free[d] \cup owned[d]

(* No block is given out, or listed, twice: every two blocks on the lists  *)
(* or in the hands of clients are disjoint, across all degrees, also while *)
(* the recursion of tryJoiningBuddies is under way.                        *)
NoOverlap ==
  /\ \A d \in Degrees : free[d] \cap owned[d] = {}
  /\ \A d, e \in Degrees : \A b \in Known(d), c \in Known(e) :
       (b # c \/ d # e) => Apart(b, d, c, e)

(* Splitting and merging stay inside the block buddyInit listed.           *)
InHeap == \A d \in Degrees : \A b \in Known(d) : b + Size[d] <= Size[Top]

(* No memory leaks: every block of the heap is covered by a listed block   *)
(* or by one a client holds.                                               *)
Covered ==
  \A x \in HeapBlocks : \E d \in Degrees : \E b \in Known(d) :
    b <= x /\ x < b + Size[d]

(* A pending tryJoiningBuddies finds its node on the list of its degree:   *)
(* the search loop would otherwise run off the end and read through null.  *)
JoinListed == join # None => join[1] \in free[join[2]]

(* At the highest degree tryJoiningBuddies has nothing left to merge with, *)
(* or the recursion would index past buddy[maxDegree - 1].                 *)
JoinEndsAtTop == join # None /\ join[2] = Top => free[Top] = {0}

(* tryJoiningBuddies is said to join a block with its buddy: what it       *)
(* merges then begins at a multiple of the size of the merged block.       *)
JoinsOnlyBuddies ==
  [][\A d \in Degrees : \A b \in free'[d] \ free[d] :
       join # None => b % Size[d] = 0]_vars

(* The allocator keeps what a heap promises: BlockHeap over the blocks.    *)
Held == UNION {{<<b, Size[d]>> : b \in owned[d]} : d \in Degrees}
Heap == INSTANCE BlockHeap WITH ArenaSize <- Size[Top], held <- Held
HeapPromise == Heap!Spec
=============================================================================

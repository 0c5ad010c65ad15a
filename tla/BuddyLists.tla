----------------------------- MODULE BuddyLists -----------------------------
(***************************************************************************)
(* The buddy allocator with its pointers: the heads buddy[d], and the next *)
(* word of each node, which lies in the block it lists.  A block that is   *)
(* not on a list has no next word: its memory is a client's, or part of a  *)
(* longer block.  The loops of addToList and tryJoiningBuddies follow the  *)
(* pointers; where they stop is the state they leave.                      *)
(*                                                                         *)
(* It implements BuddyAllocator, whose sets are the blocks the pointers    *)
(* lead to, and whose head and neighbours are found by address.            *)
(***************************************************************************)
EXTENDS Integers, SequencesExt

CONSTANTS MaxDegree, Size, Requests, None,
          Junk   \* what the first word of a block that is not listed holds

VARIABLES
  buddy,              \* the heads, or None
  next,               \* node->next, by the block of the node
  owned, join, ret    \* as in BuddyAllocator

vars == <<buddy, next, owned, join, ret>>

Degrees    == 0 .. MaxDegree - 1
Top        == MaxDegree - 1
HeapBlocks == 0 .. Size[Top] - 1

(* As in BuddyAllocator; and null is not a block.                          *)
ASSUME DegreesAssumption == MaxDegree \in Nat \ {0}

ASSUME SizeAssumption ==
  /\ Size \in [0 .. MaxDegree -> Nat \ {0}]
  /\ Size[0] = 1
  /\ \A d \in Degrees : Size[d + 1] = 2 * Size[d]

ASSUME RequestsAssumption == Requests \subseteq Nat

ASSUME NullAssumption == None \notin HeapBlocks

(* The values of cur along a list from b on, where word[b] is the next     *)
(* word of b: its nodes and what ends it, or the nodes of n steps if       *)
(* nothing ends it before.                                                 *)
Path(word) ==
  LET path[at \in (0 .. Size[Top]) \X (HeapBlocks \cup {None, Junk})] ==
        LET n == at[1]
            b == at[2]
        IN  IF n = 0 \/ b \notin HeapBlocks THEN <<b>> ELSE <<b>> \o path[<<n - 1, word[b]>>]
  IN  path

Walk(d) == Path(next)[<<Size[Top], buddy[d]>>]

On(d) == Range(Walk(d)) \cap HeapBlocks

(* What the pointers stand for. *)
Sets == INSTANCE BuddyAllocator WITH free <- [d \in Degrees |-> On(d)]

Init ==
  /\ buddy = [d \in Degrees |-> IF d = Top THEN 0 ELSE None]
  /\ next  = [b \in HeapBlocks |-> IF b = 0 THEN None ELSE Junk]
  /\ owned = [d \in Degrees |-> {}]
  /\ join = None /\ ret = None

-----------------------------------------------------------------------------
(* Where a loop over list d is when it stops at the first node in Stop,    *)
(* and prev beside it.                                                     *)
PlaceOf(d, Stop) ==
  CHOOSE n \in DOMAIN Walk(d) : /\ Walk(d)[n] \notin HeapBlocks \ Stop
                                /\ \A m \in 1 .. n - 1 : Walk(d)[m] \in HeapBlocks \ Stop

Behind(d, n) == IF n <= 1 THEN None ELSE Walk(d)[n - 1]

(* addToList(b, d): the node goes before the first that does not lie below. *)
(* Mutant: the comparison is the wrong way round.                          *)
PlaceDescending(b, d) == PlaceOf(d, {c \in HeapBlocks : c <= b})
Place(b, d)           == PlaceOf(d, {c \in HeapBlocks : c >= b})

HeadWith(b, d) == IF Place(b, d) = 1 THEN b ELSE buddy[d]
NextWith(b, d) ==
  [x \in HeapBlocks |->
     IF x = b THEN Walk(d)[Place(b, d)]
     ELSE IF x = Behind(d, Place(b, d)) THEN b
     ELSE next[x]]

-----------------------------------------------------------------------------
(* buddy_alloc. *)

Hand(b, d) == owned' = [owned EXCEPT ![d] = @ \cup {b}] /\ ret' = b

AllocExact(req) ==
  LET size == Sets!ceilLog2(req) IN
  /\ join = None
  /\ size \in Degrees
  /\ buddy[size] # None
  /\ buddy' = [buddy EXCEPT ![size] = next[buddy[size]]]
  /\ next'  = [next EXCEPT ![buddy[size]] = Junk]
  /\ Hand(buddy[size], size)
  /\ UNCHANGED join

(* The lists that get an upper half are empty: each becomes one node. *)
AllocSplit(req) ==
  LET size == Sets!ceilLog2(req) IN
  /\ join = None
  /\ size \in Degrees
  /\ \E cur \in size + 1 .. Top :
       LET node == buddy[cur]
           Up(e) == Sets!UpperHalf(node, e)
       IN /\ node # None
          /\ \A e \in size .. cur - 1 : buddy[e] = None
          /\ buddy' = [e \in Degrees |->
                         IF e = cur THEN next[node]
                         ELSE IF e \in Sets!SplitLists(size, cur) THEN Up(e) ELSE buddy[e]]
          /\ next' = [x \in HeapBlocks |->
                        IF x = node THEN Junk
                        ELSE IF \E e \in Sets!SplitLists(size, cur) : x = Up(e) THEN None
                        ELSE next[x]]
          /\ Hand(node, size)
  /\ UNCHANGED join

AllocFail(req) ==
  LET size == Sets!ceilLog2(req) IN
  /\ join = None
  /\ \/ size \notin Degrees
     \/ \A e \in size .. Top : buddy[e] = None
  /\ ret' = None
  /\ UNCHANGED <<buddy, next, owned, join>>

-----------------------------------------------------------------------------
(* buddy_free, up to the call of tryJoiningBuddies. *)

Free(b, req) ==
  LET size == Sets!ceilLog2(req) IN
  /\ join = None
  /\ size \in Degrees
  /\ b \in owned[size]
  /\ buddy' = [buddy EXCEPT ![size] = HeadWith(b, size)]
  /\ next'  = NextWith(b, size)
  /\ owned' = [owned EXCEPT ![size] = @ \ {b}]
  /\ join'  = <<b, size>>
  /\ ret'   = Size[size]

FreeRefused(addr, req) == UNCHANGED <<buddy, next>> /\ Sets!FreeRefused(addr, req)

-----------------------------------------------------------------------------
(* tryJoiningBuddies. *)

(* Mutants: the first node of a list is unlinked as if another were before *)
(* it; the list goes on with the higher half.                              *)
UnlinkNotHead(d, before, rest) == next[buddy[d]]
Unlink(d, before, rest) == IF before = None THEN rest ELSE buddy[d]

(* The nodes low and high, neighbours on list d behind before, become one   *)
(* on list d + 1.  The new node takes the place of low in memory before    *)
(* the two are unlinked.                                                   *)
Merge(low, high, d, before) ==
  /\ buddy' = [buddy EXCEPT ![d + 1] = HeadWith(low, d + 1),
                            ![d]     = Unlink(d, before, next[high])]
  /\ next' = [x \in HeapBlocks |->
                IF x = before THEN next[high]
                ELSE IF x = high THEN Junk
                ELSE NextWith(low, d + 1)[x]]
  /\ join' = <<low, d + 1>>
  /\ UNCHANGED <<owned, ret>>

(* The side the code looks at, and what it finds there. *)
FollowingTouches(b, d) ==
  /\ ~Sets!TakenAsRight(b, d)
  /\ next[b] # None
  /\ b + Size[d] = next[b]

PrevTouches(b, d) ==
  LET prev == Behind(d, PlaceOf(d, {b})) IN
  /\ Sets!TakenAsRight(b, d)
  /\ prev # None
  /\ prev + Size[d] = b

JoinFollowing ==
  /\ join # None
  /\ LET b == join[1]
         d == join[2]
     IN /\ FollowingTouches(b, d)
        /\ Merge(b, next[b], d, Behind(d, PlaceOf(d, {b})))

JoinPrevious ==
  /\ join # None
  /\ LET b == join[1]
         d == join[2]
         n == PlaceOf(d, {b})
     IN /\ PrevTouches(b, d)
        /\ Merge(Behind(d, n), b, d, Behind(d, n - 1))

JoinStop ==
  /\ join # None
  /\ ~FollowingTouches(join[1], join[2])
  /\ ~PrevTouches(join[1], join[2])
  /\ join' = None
  /\ UNCHANGED <<buddy, next, owned, ret>>

-----------------------------------------------------------------------------
Next ==
  \/ \E req \in Requests : AllocExact(req) \/ AllocSplit(req) \/ AllocFail(req)
  \/ \E req \in Requests, b \in HeapBlocks : Free(b, req)
  \/ \E req \in Requests, addr \in {0, Sets!KernelHeapEnd} : FreeRefused(addr, req)
  \/ JoinFollowing \/ JoinPrevious \/ JoinStop

Spec == Init /\ [][Next]_vars

-----------------------------------------------------------------------------
(* The pointers implement the sets: taking a head, inserting, splitting    *)
(* and unlinking two neighbours while a third list is changed do to the    *)
(* lists what BuddyAllocator says, and the neighbours of a node by address *)
(* are its neighbours by pointer.                                          *)
ImplementsBuddyAllocator == Sets!Spec

(* Every list climbs in address and ends in null, and no next word of a    *)
(* block that a client holds or that lies in a longer block is followed.   *)
ListsClimb ==
  \A d \in Degrees :
    /\ Last(Walk(d)) = None
    /\ \A b \in On(d) : next[b] = None \/ (next[b] \in HeapBlocks /\ b < next[b])
=============================================================================

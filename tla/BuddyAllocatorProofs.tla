------------------------ MODULE BuddyAllocatorProofs ------------------------
(***************************************************************************)
(* Proofs about BuddyAllocator for every number of degrees: the lists and  *)
(* the clients never hold overlapping blocks, nothing leaves the heap,     *)
(* nothing leaks, the recursion never leaves the lists, and the allocator  *)
(* implements the promise of BlockHeap.                                    *)
(*                                                                         *)
(* The invariant that carries the induction is IInv.  Disjointness alone   *)
(* is not inductive: that the halves of a split lie apart from everything  *)
(* else needs the powers of two (SizeGrows), and that a merge stays below  *)
(* the highest degree needs InHeap.                                        *)
(***************************************************************************)
EXTENDS BuddyAllocator, Lemmas

LEMMA SizeFacts ==
  ASSUME NEW d \in Degrees
  PROVE  /\ d \in Nat /\ d < MaxDegree /\ MaxDegree \in Nat
         /\ Size[d] \in Nat /\ Size[d] >= 1
         /\ Size[d + 1] = 2 * Size[d]
  BY DegreesAssumption, SizeAssumption DEF Degrees

(* A block is at least twice as long as any block of a lower degree. *)
LEMMA SizeGrows ==
  ASSUME NEW d \in Degrees, NEW e \in Degrees, d < e
  PROVE  2 * Size[d] <= Size[e]
<1> DEFINE T == {k \in 0 .. e : d < k /\ 2 * Size[d] <= Size[k]}
<1>0. d \in Nat /\ e \in Nat /\ e < MaxDegree /\ MaxDegree \in Nat /\ Size[d] \in Nat
  BY SizeFacts
<1>1. d + 1 \in T
  BY <1>0, SizeFacts
<1>2. PICK m \in T : \A t \in T : t <= m
  <2> HIDE DEF T
  <2> QED
    BY <1>0, <1>1, GreatestMember, T \in SUBSET (0 .. e) DEF T
<1>3. m = e
  <2> SUFFICES ASSUME m < e
               PROVE  FALSE
    BY <1>0, <1>2
  <2>1. m \in Degrees
    BY <1>0, <1>2 DEF Degrees
  <2>2. Size[m + 1] = 2 * Size[m] /\ Size[m] \in Nat
    BY <2>1, SizeFacts
  <2>3. m + 1 \in T
    BY <2>2, <1>0, <1>2
  <2> QED
    BY <2>3, <1>2, <1>0
<1> QED
  BY <1>2, <1>3

(* A number from Size[d] up to Size[e] has its leading bit among d .. e-1. *)
LEMMA LeadingBit ==
  ASSUME NEW d \in Degrees, NEW e \in Degrees,
         NEW x \in Nat, Size[d] <= x, x < Size[e]
  PROVE  \E k \in d .. e - 1 : Size[k] <= x /\ x < 2 * Size[k]
<1> DEFINE T == {k \in 0 .. e : d <= k /\ Size[k] <= x}
<1>0. /\ d \in Nat /\ e \in Nat /\ e < MaxDegree /\ MaxDegree \in Nat
      /\ Size[d] \in Nat /\ Size[e] \in Nat
  BY SizeFacts
<1>1. d <= e
  <2> SUFFICES ASSUME e < d
               PROVE  FALSE
    BY <1>0
  <2>1. 2 * Size[e] <= Size[d]
    BY SizeGrows
  <2> QED
    BY <2>1, <1>0
<1>2. d \in T
  BY <1>0, <1>1
<1>3. PICK m \in T : \A t \in T : t <= m
  <2> HIDE DEF T
  <2> QED
    BY <1>0, <1>2, GreatestMember, T \in SUBSET (0 .. e) DEF T
<1>4. m < e /\ m \in Degrees
  BY <1>0, <1>3 DEF Degrees
<1>5. m + 1 \notin T
  BY <1>0, <1>3
<1>6. Size[m + 1] = 2 * Size[m] /\ Size[m] \in Nat
  BY <1>4, SizeFacts
<1>7. x < 2 * Size[m]
  BY <1>0, <1>3, <1>4, <1>5, <1>6
<1> QED
  BY <1>0, <1>3, <1>4, <1>7

-----------------------------------------------------------------------------
(* The inductive invariant. *)

IInv == TypeOK /\ NoOverlap /\ InHeap /\ JoinListed

LEMMA TopDegree == Top \in Degrees /\ Size[Top] \in Nat \ {0} /\ 0 \in HeapBlocks
  BY DegreesAssumption, SizeAssumption DEF Top, Degrees, HeapBlocks

LEMMA InitInv == Init => IInv
<1> SUFFICES ASSUME Init
             PROVE  IInv
  OBVIOUS
<1> USE TopDegree, SizeAssumption DEF Init
<1>1. TypeOK
  BY DEF TypeOK
<1>2. NoOverlap
  BY DEF NoOverlap, Known
<1>3. InHeap
  BY DEF InHeap, Known, Degrees
<1>4. JoinListed
  BY DEF JoinListed
<1> QED
  BY <1>1, <1>2, <1>3, <1>4 DEF IInv

(* A block moves between a list and the clients and no extent changes. *)
LEMMA MoveInv ==
  ASSUME IInv, TypeOK', JoinListed',
         \A d \in Degrees : Known(d)' = Known(d) /\ free'[d] \cap owned'[d] = {}
  PROVE  IInv'
<1>1. NoOverlap'
  BY DEF IInv, NoOverlap, Known, Apart
<1>2. InHeap'
  BY DEF IInv, InHeap, Known
<1> QED
  BY <1>1, <1>2 DEF IInv

LEMMA AllocExactInv ==
  ASSUME IInv, NEW req \in Requests, AllocExact(req)
  PROVE  IInv'
<1> DEFINE size == ceilLog2(req)
<1>1. size \in Degrees /\ join = None
  BY DEF AllocExact
<1>2. PICK b \in free[size] :
        /\ free'  = [free EXCEPT ![size] = @ \ {b}]
        /\ owned' = [owned EXCEPT ![size] = @ \cup {b}]
        /\ ret' = b /\ join' = join
  BY DEF AllocExact, Hand
<1> HIDE DEF size
<1>3. TypeOK'
  BY <1>1, <1>2 DEF IInv, TypeOK, HeapBlocks
<1>4. \A d \in Degrees : Known(d)' = Known(d) /\ free'[d] \cap owned'[d] = {}
  BY <1>1, <1>2 DEF IInv, TypeOK, NoOverlap, Known
<1>5. JoinListed'
  BY <1>1, <1>2 DEF JoinListed
<1> QED
  BY <1>3, <1>4, <1>5, MoveInv

LEMMA FreeInv ==
  ASSUME IInv, NEW req \in Requests, NEW b \in HeapBlocks, Free(b, req)
  PROVE  IInv'
<1> DEFINE size == ceilLog2(req)
<1>1. /\ size \in Degrees
      /\ b \in owned[size]
      /\ owned' = [owned EXCEPT ![size] = @ \ {b}]
      /\ free'  = [free EXCEPT ![size] = @ \cup {b}]
      /\ join'  = <<b, size>>
      /\ ret'   = Size[size]
  BY DEF Free
<1> HIDE DEF size
<1>2. Size[size] \in Int
  BY <1>1, SizeAssumption DEF Degrees
<1>3. TypeOK'
  BY <1>1, <1>2 DEF IInv, TypeOK
<1>4. \A d \in Degrees : Known(d)' = Known(d) /\ free'[d] \cap owned'[d] = {}
  BY <1>1 DEF IInv, TypeOK, NoOverlap, Known
<1>5. JoinListed'
  BY <1>1 DEF JoinListed, IInv, TypeOK
<1> QED
  BY <1>3, <1>4, <1>5, MoveInv

(* Splitting: the pieces of a block lie inside it and apart from each      *)
(* other, so whatever lay apart from the block lies apart from each piece. *)
LEMMA AllocSplitInv ==
  ASSUME IInv, NEW req \in Requests, AllocSplit(req)
  PROVE  IInv'
<1> DEFINE size == ceilLog2(req)
<1>1. size \in Degrees /\ join = None
  BY DEF AllocSplit
<1>0. PICK cur \in size + 1 .. Top : \E b \in free[cur] :
        /\ free' = [e \in Degrees |->
                      IF e = cur THEN free[e] \ {b}
                      ELSE IF e \in size .. cur - 1
                           THEN free[e] \cup {b + Size[e]}
                           ELSE free[e]]
        /\ owned' = [owned EXCEPT ![size] = @ \cup {b}]
        /\ ret' = b /\ join' = join
  BY DEF AllocSplit, Hand, SplitLists, UpperHalf
<1>2. PICK b \in free[cur] :
        /\ free' = [e \in Degrees |->
                      IF e = cur THEN free[e] \ {b}
                      ELSE IF e \in size .. cur - 1
                           THEN free[e] \cup {b + Size[e]}
                           ELSE free[e]]
        /\ owned' = [owned EXCEPT ![size] = @ \cup {b}]
        /\ ret' = b /\ join' = join
  BY <1>0
<1> HIDE DEF size
<1> DEFINE lower == size .. cur - 1
<1>3. cur \in Degrees /\ cur \in Nat /\ size \in Nat /\ size < cur
  BY <1>1, <1>2, SizeFacts DEF Degrees, Top
<1>4. \A e \in lower : e \in Degrees
  BY <1>1, <1>3, SizeFacts DEF Degrees
<1>5. /\ \A d \in Degrees : Size[d] \in Nat /\ Size[d] >= 1 /\ d \in Nat
      /\ \A d, e \in Degrees : d < e => 2 * Size[d] <= Size[e]
  BY SizeFacts, SizeGrows
<1>6. b \in HeapBlocks /\ b + Size[cur] <= Size[Top] /\ Size[Top] \in Nat /\ b \in Nat
  BY <1>2, <1>3, TopDegree DEF IInv, TypeOK, InHeap, Known, HeapBlocks
<1>7. \A e \in lower : b + Size[e] + Size[e] <= b + Size[cur]
  BY <1>3, <1>4, <1>5, <1>6
<1>8. TypeOK'
  <2>1. \A e \in lower : b + Size[e] \in HeapBlocks
    BY <1>3, <1>4, <1>5, <1>6, <1>7 DEF HeapBlocks
  <2>2. free' \in [Degrees -> SUBSET HeapBlocks]
    BY <1>2, <1>6, <2>1 DEF IInv, TypeOK
  <2> QED
    BY <1>1, <1>2, <1>6, <2>2 DEF IInv, TypeOK
<1>9. ASSUME NEW d \in Degrees, NEW c \in Known(d)'
      PROVE  \/ c \in Known(d) /\ (c # b \/ d # cur)
             \/ c = b /\ d = size
             \/ d \in lower /\ c = b + Size[d]
  <2>1. CASE c \in free'[d]
    BY <2>1, <1>2 DEF IInv, TypeOK, Known
  <2>2. CASE c \in owned'[d]
    <3>1. c \in owned[d] \/ (c = b /\ d = size)
      BY <2>2, <1>1, <1>2 DEF IInv, TypeOK
    <3>2. c \in owned[d] => c \in Known(d) /\ (c # b \/ d # cur)
      BY <1>2, <1>3 DEF IInv, NoOverlap, Known
    <3> QED
      BY <3>1, <3>2
  <2> QED
    BY <2>1, <2>2 DEF Known
<1>10. ASSUME NEW d \in Degrees, NEW c \in Known(d), c # b \/ d # cur
       PROVE  Apart(c, d, b, cur) /\ c \in Nat
  BY <1>2, <1>3, <1>10 DEF IInv, NoOverlap, Known, Apart, TypeOK, HeapBlocks
<1>11. NoOverlap'
  <2>1. ASSUME NEW d \in Degrees, NEW e \in Degrees,
               NEW c \in Known(d)', NEW f \in Known(e)', c # f \/ d # e
        PROVE  Apart(c, d, f, e)
    <3> DEFINE Old(x, g) == x \in Known(g) /\ (x # b \/ g # cur)
               Given(x, g) == x = b /\ g = size
               Half(x, g) == g \in lower /\ x = b + Size[g]
    <3>1. Old(c, d) \/ Given(c, d) \/ Half(c, d)
      BY <1>9
    <3>2. Old(f, e) \/ Given(f, e) \/ Half(f, e)
      BY <1>9
    <3>3. CASE Old(c, d) /\ Old(f, e)
      BY <3>3, <2>1 DEF IInv, NoOverlap
    <3>4. CASE Old(c, d) /\ (Given(f, e) \/ Half(f, e))
      <4>1. Apart(c, d, b, cur) /\ c \in Nat
        BY <3>4, <1>10
      <4>2. b <= f /\ f + Size[e] <= b + Size[cur] /\ f \in Nat
        BY <3>4, <1>1, <1>3, <1>4, <1>5, <1>6, <1>7
      <4> QED
        BY <4>1, <4>2, <1>3, <1>5, <1>6 DEF Apart
    <3>5. CASE Old(f, e) /\ (Given(c, d) \/ Half(c, d))
      <4>1. Apart(f, e, b, cur) /\ f \in Nat
        BY <3>5, <1>10
      <4>2. b <= c /\ c + Size[d] <= b + Size[cur] /\ c \in Nat
        BY <3>5, <1>1, <1>3, <1>4, <1>5, <1>6, <1>7
      <4> QED
        BY <4>1, <4>2, <1>3, <1>5, <1>6 DEF Apart
    <3>6. CASE (Given(c, d) \/ Half(c, d)) /\ (Given(f, e) \/ Half(f, e))
      <4>1. ASSUME NEW g \in lower
            PROVE  Size[size] <= Size[g]
        BY <1>1, <1>3, <1>4, <1>5
      <4>2. d < e \/ e < d \/ d = e
        BY <1>5
      <4>3. CASE Given(c, d) /\ Given(f, e)
        BY <4>3, <2>1
      <4>4. CASE Given(c, d) /\ Half(f, e)
        BY <4>4, <4>1, <1>1, <1>5, <1>6 DEF Apart
      <4>5. CASE Half(c, d) /\ Given(f, e)
        BY <4>5, <4>1, <1>1, <1>5, <1>6 DEF Apart
      <4>6. CASE Half(c, d) /\ Half(f, e)
        BY <4>6, <4>2, <2>1, <1>5, <1>6 DEF Apart
      <4> QED
        BY <3>6, <4>3, <4>4, <4>5, <4>6
    <3> QED
      BY <3>1, <3>2, <3>3, <3>4, <3>5, <3>6
  <2>2. ASSUME NEW d \in Degrees, NEW c \in free'[d], c \in owned'[d]
        PROVE  FALSE
    <3>1. CASE c \in owned[d]
      <4>1. c \in Known(d) /\ c \notin free[d]
        BY <3>1 DEF IInv, NoOverlap, Known
      <4>2. d \in lower /\ c = b + Size[d]
        BY <4>1, <2>2, <1>2 DEF IInv, TypeOK
      <4>3. Apart(c, d, b, cur)
        BY <4>1, <4>2, <1>3, <1>10
      <4> QED
        BY <4>2, <4>3, <1>3, <1>4, <1>5, <1>6, <1>7 DEF Apart
    <3>2. CASE c = b /\ d = size
      <4>1. c \in free[d] \/ c = b + Size[d]
        BY <3>2, <2>2, <1>2, <1>3
      <4>2. c # b + Size[d]
        BY <3>2, <1>5, <1>6
      <4>3. Apart(c, d, b, cur)
        BY <3>2, <4>1, <4>2, <1>3, <1>10 DEF Known
      <4> QED
        BY <3>2, <4>3, <1>3, <1>5, <1>6 DEF Apart
    <3> QED
      BY <3>1, <3>2, <2>2, <1>1, <1>2 DEF IInv, TypeOK
  <2> QED
    BY <2>1, <2>2 DEF NoOverlap, Apart
<1>12. InHeap'
  <2> SUFFICES ASSUME NEW d \in Degrees, NEW c \in Known(d)'
               PROVE  c + Size[d] <= Size[Top]
    BY DEF InHeap
  <2>1. CASE c \in Known(d)
    BY <2>1 DEF IInv, InHeap
  <2>2. CASE c = b /\ d = size
    BY <2>2, <1>3, <1>5, <1>6
  <2>3. CASE d \in lower /\ c = b + Size[d]
    BY <2>3, <1>3, <1>4, <1>5, <1>6, <1>7
  <2> QED
    BY <1>9, <2>1, <2>2, <2>3
<1>13. JoinListed'
  BY <1>1, <1>2 DEF JoinListed
<1> QED
  BY <1>8, <1>11, <1>12, <1>13 DEF IInv

(* Merging: the two blocks are adjacent, so what lies apart from both lies *)
(* apart from their union; and they are not both the whole heap.           *)
LEMMA MergeInv ==
  ASSUME IInv, NEW d \in Degrees, NEW low \in free[d], NEW high \in free[d],
         low + Size[d] = high, Merge(low, high, d)
  PROVE  IInv'
<1>1. /\ \A e \in Degrees : Size[e] \in Nat /\ Size[e] >= 1 /\ e \in Nat
      /\ Size[d + 1] = 2 * Size[d]
  BY SizeFacts
<1>2. /\ low \in HeapBlocks /\ low \in Nat /\ high \in Nat
      /\ Size[Top] \in Nat /\ high + Size[d] <= Size[Top]
  BY TopDegree DEF IInv, TypeOK, InHeap, Known, HeapBlocks
<1>3. d # Top
  BY <1>1, <1>2
<1>4. d + 1 \in Degrees /\ d + 1 # d
  BY <1>3, SizeFacts DEF Degrees, Top
<1>5. /\ free' = [free EXCEPT ![d] = @ \ {low, high}, ![d + 1] = @ \cup {low}]
      /\ join' = <<low, d + 1>> /\ owned' = owned /\ ret' = ret
  BY DEF Merge
<1>6. TypeOK'
  BY <1>2, <1>4, <1>5 DEF IInv, TypeOK
<1>7. ASSUME NEW e \in Degrees, NEW c \in Known(e)'
      PROVE  \/ c = low /\ e = d + 1
             \/ /\ c \in Known(e)
                /\ c # low \/ e # d
                /\ c # high \/ e # d
  <2>1. c \in free'[e] =>
          \/ c \in free[e] /\ (e = d => c # low /\ c # high)
          \/ c = low /\ e = d + 1
    BY <1>4, <1>5 DEF IInv, TypeOK
  <2>2. c \in owned[e] => c \notin free[e]
    BY DEF IInv, NoOverlap
  <2> QED
    BY <1>5, <2>1, <2>2 DEF Known
<1>8. ASSUME NEW e \in Degrees, NEW c \in Known(e),
             c # low \/ e # d, c # high \/ e # d
      PROVE  Apart(c, e, low, d + 1) /\ Apart(low, d + 1, c, e)
  <2>1. Apart(c, e, low, d) /\ Apart(c, e, high, d) /\ c \in Nat
    BY <1>8 DEF IInv, NoOverlap, Known, TypeOK, HeapBlocks
  <2> QED
    BY <2>1, <1>1, <1>2 DEF Apart
<1>9. NoOverlap'
  <2>1. ASSUME NEW e \in Degrees, NEW f \in Degrees,
               NEW x \in Known(e)', NEW y \in Known(f)', x # y \/ e # f
        PROVE  Apart(x, e, y, f)
    <3> DEFINE Old(c, g) == c \in Known(g) /\ (c # low \/ g # d) /\ (c # high \/ g # d)
               New(c, g) == c = low /\ g = d + 1
    <3>1. (Old(x, e) \/ New(x, e)) /\ (Old(y, f) \/ New(y, f))
      BY <1>7
    <3>2. CASE Old(x, e) /\ Old(y, f)
      BY <3>2, <2>1 DEF IInv, NoOverlap
    <3>3. CASE Old(x, e) /\ New(y, f)
      BY <3>3, <1>8
    <3>4. CASE New(x, e) /\ Old(y, f)
      BY <3>4, <1>8
    <3> QED
      BY <3>1, <3>2, <3>3, <3>4, <2>1
  <2>2. ASSUME NEW e \in Degrees
        PROVE  free'[e] \cap owned'[e] = {}
    <3>1. low \notin owned[d + 1]
      <4> SUFFICES ASSUME low \in owned[d + 1]
                   PROVE  FALSE
        OBVIOUS
      <4>1. Apart(low, d + 1, low, d)
        BY <1>4 DEF IInv, NoOverlap, Known
      <4> QED
        BY <4>1, <1>1, <1>2 DEF Apart
    <3> QED
      BY <3>1, <1>4, <1>5 DEF IInv, NoOverlap, TypeOK
  <2> QED
    BY <2>1, <2>2 DEF NoOverlap, Apart
<1>10. InHeap'
  BY <1>1, <1>2, <1>7 DEF InHeap, IInv
<1>11. JoinListed'
  BY <1>4, <1>5 DEF JoinListed, IInv, TypeOK
<1> QED
  BY <1>6, <1>9, <1>10, <1>11 DEF IInv

(* What the two merging steps give MergeInv. *)
LEMMA JoinSteps ==
  ASSUME IInv, JoinFollowing \/ JoinPrevious
  PROVE  \E d \in Degrees : \E low, high \in free[d] :
           low + Size[d] = high /\ Merge(low, high, d)
<1> DEFINE b == join[1]
           d == join[2]
<1>1. join # None /\ b \in free[d] /\ d \in Degrees
  BY DEF IInv, TypeOK, JoinListed, JoinFollowing, JoinPrevious
<1>2. CASE JoinFollowing
  BY <1>1, <1>2 DEF JoinFollowing
<1>3. CASE JoinPrevious
  BY <1>1, <1>3 DEF JoinPrevious
<1> QED
  BY <1>2, <1>3

LEMMA NextInv ==
  ASSUME IInv, [Next]_vars
  PROVE  IInv'
<1>1. CASE \E req \in Requests : AllocExact(req)
  BY <1>1, AllocExactInv
<1>2. CASE \E req \in Requests : AllocSplit(req)
  BY <1>2, AllocSplitInv
<1>3. CASE \E req \in Requests, b \in HeapBlocks : Free(b, req)
  BY <1>3, FreeInv
<1>4. CASE \E req \in Requests : AllocFail(req)
  <2>1. UNCHANGED <<free, owned, join>> /\ ret' = None
    BY <1>4 DEF AllocFail
  <2> QED
    BY <2>1 DEF IInv, TypeOK, NoOverlap, InHeap, JoinListed, Known, Apart
<1>5. CASE \E req \in Requests, addr \in {0, KernelHeapEnd} : FreeRefused(addr, req)
  <2>1. UNCHANGED <<free, owned, join>> /\ ret' \in Int
    BY <1>5 DEF FreeRefused
  <2> QED
    BY <2>1 DEF IInv, TypeOK, NoOverlap, InHeap, JoinListed, Known, Apart
<1>6. CASE JoinFollowing \/ JoinPrevious
  BY <1>6, JoinSteps, MergeInv
<1>7. CASE JoinStop
  <2>1. UNCHANGED <<free, owned, ret>> /\ join' = None
    BY <1>7 DEF JoinStop
  <2> QED
    BY <2>1 DEF IInv, TypeOK, NoOverlap, InHeap, JoinListed, Known, Apart
<1>8. CASE UNCHANGED vars
  BY <1>8 DEF vars, IInv, TypeOK, NoOverlap, InHeap, JoinListed, Known, Apart
<1> QED
  BY <1>1, <1>2, <1>3, <1>4, <1>5, <1>6, <1>7, <1>8 DEF Next

(* The inductive invariant holds throughout. *)
THEOREM Invariance == Spec => []IInv
<1>1. Init => IInv
  BY InitInv
<1>2. IInv /\ [Next]_vars => IInv'
  BY NextInv
<1> QED
  BY <1>1, <1>2, PTL DEF Spec

-----------------------------------------------------------------------------
(* The safety properties, for every number of degrees. *)

(* Every variable keeps its type: no list or client holds an address       *)
(* outside the heap, and the recursion stays within buddy[maxDegree].      *)
THEOREM TypeCorrect == Spec => []TypeOK
  BY Invariance, PTL DEF IInv

(* No block is on two lists, held twice, or held while on a list.          *)
THEOREM BlocksDisjoint == Spec => []NoOverlap
  BY Invariance, PTL DEF IInv

(* Splitting and merging never leave the block buddyInit listed.           *)
THEOREM StaysInHeap == Spec => []InHeap
  BY Invariance, PTL DEF IInv

(* The search loop of tryJoiningBuddies always finds its node.             *)
THEOREM JoinFindsNode == Spec => []JoinListed
  BY Invariance, PTL DEF IInv

(* The recursion ends at the highest degree: a block there is the heap.    *)
THEOREM JoinStopsAtTop == Spec => []JoinEndsAtTop
<1>1. IInv => JoinEndsAtTop
  <2> SUFFICES ASSUME IInv, join # None, join[2] = Top
               PROVE  free[Top] = {0}
    BY DEF JoinEndsAtTop
  <2>1. Top \in Degrees /\ Size[Top] \in Nat
    BY TopDegree
  <2>2. \A b \in free[Top] : b = 0
    <3> SUFFICES ASSUME NEW b \in free[Top]
                 PROVE  b = 0
      OBVIOUS
    <3>1. b \in 0 .. Size[Top] - 1 /\ b + Size[Top] <= Size[Top]
      BY <2>1 DEF IInv, TypeOK, InHeap, Known, HeapBlocks
    <3> QED
      BY <3>1, <2>1
  <2>3. join[1] \in free[Top]
    BY DEF IInv, JoinListed
  <2> QED
    BY <2>2, <2>3
<1> QED
  BY <1>1, Invariance, PTL

-----------------------------------------------------------------------------
(* No block leaks. *)

LEMMA InitCovered == Init => Covered
  BY TopDegree DEF Init, Covered, Known, HeapBlocks

LEMMA SplitCovered ==
  ASSUME IInv, Covered, NEW req \in Requests, AllocSplit(req)
  PROVE  Covered'
<1> DEFINE size == ceilLog2(req)
<1>1. size \in Degrees
  BY DEF AllocSplit
<1>2. PICK cur \in size + 1 .. Top : \E b \in free[cur] :
        /\ free' = [e \in Degrees |->
                      IF e = cur THEN free[e] \ {b}
                      ELSE IF e \in size .. cur - 1
                           THEN free[e] \cup {b + Size[e]}
                           ELSE free[e]]
        /\ owned' = [owned EXCEPT ![size] = @ \cup {b}]
  BY DEF AllocSplit, Hand, SplitLists, UpperHalf
<1>3. PICK b \in free[cur] :
        /\ free' = [e \in Degrees |->
                      IF e = cur THEN free[e] \ {b}
                      ELSE IF e \in size .. cur - 1
                           THEN free[e] \cup {b + Size[e]}
                           ELSE free[e]]
        /\ owned' = [owned EXCEPT ![size] = @ \cup {b}]
  BY <1>2
<1> HIDE DEF size
<1>4. cur \in Degrees /\ cur \in Nat /\ size \in Nat /\ Size[size] \in Nat /\ Size[cur] \in Nat
  BY <1>1, <1>2, SizeFacts DEF Degrees, Top
<1> SUFFICES ASSUME NEW x \in HeapBlocks
             PROVE  \E d \in Degrees : \E c \in Known(d)' : c <= x /\ x < c + Size[d]
  BY DEF Covered, HeapBlocks
<1>50. PICK d \in Degrees : \E c \in Known(d) : c <= x /\ x < c + Size[d]
  BY DEF Covered
<1>5. PICK c \in Known(d) : c <= x /\ x < c + Size[d]
  BY <1>50
<1>6. CASE c # b \/ d # cur
  <2>1. c \in Known(d)'
    BY <1>1, <1>3, <1>6 DEF IInv, TypeOK, Known
  <2> QED
    BY <1>5, <2>1
<1>7. CASE c = b /\ d = cur
  <2>1. x \in Nat /\ b \in Nat
    BY <1>3, <1>4, TopDegree DEF IInv, TypeOK, HeapBlocks
  <2>2. CASE x < b + Size[size]
    <3>1. b \in Known(size)'
      BY <1>1, <1>3 DEF IInv, TypeOK, Known
    <3> QED
      BY <1>1, <1>5, <1>7, <2>2, <3>1
  <2>3. CASE b + Size[size] <= x
    <3>1. PICK k \in size .. cur - 1 : Size[k] <= x - b /\ x - b < 2 * Size[k]
      <4>1. x - b \in Nat /\ Size[size] <= x - b /\ x - b < Size[cur]
        BY <1>4, <1>5, <1>7, <2>1, <2>3
      <4> QED
        BY <1>1, <1>4, <4>1, LeadingBit
    <3>2. k \in Degrees /\ Size[k] \in Nat /\ k # cur
      BY <1>1, <1>4, <3>1, SizeFacts DEF Degrees
    <3>3. b + Size[k] \in Known(k)'
      BY <1>3, <3>1, <3>2 DEF Known
    <3>4. b + Size[k] <= x /\ x < b + Size[k] + Size[k]
      BY <2>1, <3>1, <3>2
    <3> QED
      BY <3>2, <3>3, <3>4
  <2> QED
    BY <1>4, <2>1, <2>2, <2>3
<1> QED
  BY <1>6, <1>7

LEMMA MergeCovered ==
  ASSUME IInv, Covered, NEW d \in Degrees, NEW low \in free[d], NEW high \in free[d],
         low + Size[d] = high, Merge(low, high, d)
  PROVE  Covered'
<1>1. IInv' /\ Size[d] \in Nat /\ Size[d + 1] = 2 * Size[d]
  BY MergeInv, SizeFacts
<1>2. /\ free' = [free EXCEPT ![d] = @ \ {low, high}, ![d + 1] = @ \cup {low}]
      /\ join' = <<low, d + 1>> /\ owned' = owned
  BY DEF Merge
<1>3. d + 1 \in Degrees
  <2>1. d # Top
    BY <1>1, TopDegree DEF IInv, TypeOK, InHeap, Known, HeapBlocks
  <2> QED
    BY <2>1, SizeFacts DEF Degrees, Top
<1> SUFFICES ASSUME NEW x \in HeapBlocks
             PROVE  \E e \in Degrees : \E c \in Known(e)' : c <= x /\ x < c + Size[e]
  BY DEF Covered, HeapBlocks
<1>40. PICK e \in Degrees : \E c \in Known(e) : c <= x /\ x < c + Size[e]
  BY DEF Covered
<1>4. PICK c \in Known(e) : c <= x /\ x < c + Size[e]
  BY <1>40
<1>5. CASE e = d /\ c \in {low, high}
  <2>1. low \in Known(d + 1)'
    BY <1>2, <1>3 DEF IInv, TypeOK, Known
  <2>2. low <= x /\ x < low + Size[d + 1]
    BY <1>1, <1>4, <1>5, TopDegree DEF IInv, TypeOK, HeapBlocks
  <2> QED
    BY <1>3, <2>1, <2>2
<1>6. CASE ~(e = d /\ c \in {low, high})
  <2>1. c \in Known(e)'
    BY <1>2, <1>3, <1>6 DEF IInv, TypeOK, Known
  <2> QED
    BY <1>4, <2>1
<1> QED
  BY <1>5, <1>6

(* Every block of the heap stays covered by a listed or a held block.      *)
THEOREM NothingLeaks == Spec => []Covered
<1>1. ASSUME IInv, Covered, [Next]_vars
      PROVE  Covered'
  <2>1. CASE \E req \in Requests : AllocSplit(req)
    BY <1>1, <2>1, SplitCovered
  <2>2. CASE JoinFollowing \/ JoinPrevious
    BY <1>1, <2>2, JoinSteps, MergeCovered
  <2>3. CASE \E req \in Requests : AllocExact(req)
    <3>1. \A d \in Degrees : Known(d)' = Known(d)
      BY <1>1, <2>3 DEF AllocExact, Hand, IInv, TypeOK, Known
    <3> QED
      BY <1>1, <3>1 DEF Covered, HeapBlocks
  <2>4. CASE \E req \in Requests, b \in HeapBlocks : Free(b, req)
    <3>1. \A d \in Degrees : Known(d)' = Known(d)
      BY <1>1, <2>4 DEF Free, IInv, TypeOK, Known
    <3> QED
      BY <1>1, <3>1 DEF Covered, HeapBlocks
  <2>5. CASE UNCHANGED <<free, owned>>
    BY <1>1, <2>5 DEF Covered, Known, HeapBlocks
  <2> QED
    BY <1>1, <2>1, <2>2, <2>3, <2>4, <2>5
    DEF Next, vars, AllocFail, FreeRefused, JoinStop
<1> QED
  BY <1>1, InitCovered, Invariance, PTL DEF Spec

-----------------------------------------------------------------------------
(* The allocator implements BlockHeap. *)

LEMMA HeldMember ==
  \A r : r \in Held <=> \E d \in Degrees : \E b \in owned[d] : r = <<b, Size[d]>>
  BY DEF Held

(* A block leaves the lists for a client: BlockHeap grants its run.        *)
LEMMA GrantStep ==
  ASSUME IInv, IInv', NEW d \in Degrees, NEW b \in HeapBlocks, b \notin owned[d],
         owned' = [owned EXCEPT ![d] = @ \cup {b}]
  PROVE  Heap!Next
<1>1. /\ \A e \in Degrees : Size[e] \in Nat /\ Size[e] >= 1
      /\ Size[Top] \in Nat /\ b \in Nat
  BY SizeFacts, TopDegree DEF HeapBlocks
<1>2. owned'[d] = owned[d] \cup {b} /\ b \in Known(d)'
  BY DEF IInv, TypeOK, Known
<1>3. b + Size[d] <= Size[Top]
  BY <1>2 DEF IInv, InHeap
<1>4. Held' = Held \cup {<<b, Size[d]>>}
  <2>1. \A e \in Degrees : owned'[e] = owned[e] \cup (IF e = d THEN {b} ELSE {})
    BY DEF IInv, TypeOK
  <2> QED
    BY <2>1 DEF Held
<1>5. ASSUME NEW r \in Held
      PROVE  Heap!Disjoint(r, <<b, Size[d]>>)
  <2>1. PICK e \in Degrees : \E c \in owned[e] : r = <<c, Size[e]>>
    BY HeldMember
  <2>2. PICK c \in owned[e] : r = <<c, Size[e]>>
    BY <2>1
  <2>3. c \in Known(e)' /\ (c # b \/ e # d)
    BY <2>2 DEF IInv, TypeOK, Known
  <2>4. Apart(c, e, b, d)'
    BY <1>2, <2>3 DEF IInv, NoOverlap
  <2> QED
    BY <2>2, <2>4 DEF Apart, Heap!Disjoint
<1>6. Heap!Grant(b, Size[d])
  BY <1>3, <1>4, <1>5 DEF Heap!Grant
<1>7. b \in Heap!Arena /\ Size[d] \in 0 .. Size[Top]
  BY <1>1, <1>3 DEF Heap!Arena, HeapBlocks
<1> QED
  BY <1>6, <1>7 DEF Heap!Next

(* A client gives a block back: BlockHeap takes its run.                   *)
LEMMA ReturnStep ==
  ASSUME IInv, NEW d \in Degrees, NEW b \in owned[d],
         owned' = [owned EXCEPT ![d] = @ \ {b}]
  PROVE  Heap!Next
<1>1. \A e \in Degrees : Size[e] \in Nat /\ Size[e] >= 1
  BY SizeFacts
<1>2. \A e \in Degrees : owned'[e] = owned[e] \ (IF e = d THEN {b} ELSE {})
  BY DEF IInv, TypeOK
<1>3. \A e \in Degrees : e # d => b \notin owned[e]
  <2> SUFFICES ASSUME NEW e \in Degrees, e # d, b \in owned[e]
               PROVE  FALSE
    OBVIOUS
  <2>1. Apart(b, e, b, d) /\ b \in Nat
    BY DEF IInv, NoOverlap, Known, TypeOK, HeapBlocks
  <2> QED
    BY <2>1, <1>1 DEF Apart
<1>4. Held' = Held \ {<<b, Size[d]>>}
  <2>1. ASSUME NEW r \in Held'
        PROVE  r \in Held /\ r # <<b, Size[d]>>
    <3>1. PICK e \in Degrees : \E c \in owned'[e] : r = <<c, Size[e]>>
      BY DEF Held
    <3>2. PICK c \in owned'[e] : r = <<c, Size[e]>>
      BY <3>1
    <3> QED
      BY <3>2, <1>2, <1>3, HeldMember
  <2>2. ASSUME NEW r \in Held, r # <<b, Size[d]>>
        PROVE  r \in Held'
    <3>1. PICK e \in Degrees : \E c \in owned[e] : r = <<c, Size[e]>>
      BY HeldMember
    <3>2. PICK c \in owned[e] : r = <<c, Size[e]>>
      BY <3>1
    <3>3. c \in owned'[e]
      BY <2>2, <3>2, <1>2
    <3> QED
      BY <3>2, <3>3 DEF Held
  <2> QED
    BY <2>1, <2>2
<1>5. {<<b, Size[d]>>} \in SUBSET Held
  BY HeldMember
<1> QED
  BY <1>4, <1>5 DEF Heap!Next, Heap!Return

(* Every run buddy_alloc hands out is the client's alone until buddy_free. *)
THEOREM ImplementsHeap == Spec => HeapPromise
<1>1. Init => Heap!Init
  BY DEF Init, Heap!Init, Held
<1>2. ASSUME IInv, IInv', [Next]_vars
      PROVE  [Heap!Next]_Held
  <2>1. ASSUME NEW req \in Requests, AllocExact(req)
        PROVE  Heap!Next
    <3>1. PICK b \in free[ceilLog2(req)] : owned' = [owned EXCEPT ![ceilLog2(req)] = @ \cup {b}]
      BY <2>1 DEF AllocExact, Hand
    <3>2. ceilLog2(req) \in Degrees
      BY <2>1 DEF AllocExact
    <3>3. b \in HeapBlocks /\ b \notin owned[ceilLog2(req)]
      BY <1>2, <3>1, <3>2 DEF IInv, TypeOK, NoOverlap
    <3> QED
      BY <1>2, <3>1, <3>2, <3>3, GrantStep
  <2>2. ASSUME NEW req \in Requests, AllocSplit(req)
        PROVE  Heap!Next
    <3>1. PICK cur \in ceilLog2(req) + 1 .. Top :
            \E b \in free[cur] : owned' = [owned EXCEPT ![ceilLog2(req)] = @ \cup {b}]
      BY <2>2 DEF AllocSplit, Hand
    <3>2. PICK b \in free[cur] : owned' = [owned EXCEPT ![ceilLog2(req)] = @ \cup {b}]
      BY <3>1
    <3>3. ceilLog2(req) \in Degrees
      BY <2>2 DEF AllocSplit
    <3>4. cur \in Degrees /\ cur # ceilLog2(req)
      BY <3>1, <3>3, SizeFacts DEF Degrees, Top
    <3>5. b \in HeapBlocks
      BY <1>2, <3>2, <3>4 DEF IInv, TypeOK
    <3>6. b \notin owned[ceilLog2(req)]
      <4> SUFFICES ASSUME b \in owned[ceilLog2(req)]
                   PROVE  FALSE
        OBVIOUS
      <4>1. Apart(b, cur, b, ceilLog2(req))
        BY <1>2, <3>2, <3>3, <3>4 DEF IInv, NoOverlap, Known
      <4>2. Size[cur] >= 1 /\ Size[cur] \in Nat
        BY <3>4, SizeFacts
      <4>3. Size[ceilLog2(req)] >= 1 /\ Size[ceilLog2(req)] \in Nat
        BY <3>3, SizeFacts
      <4> QED
        BY <3>5, <4>1, <4>2, <4>3, TopDegree DEF Apart, HeapBlocks
    <3> QED
      BY <1>2, <3>2, <3>3, <3>5, <3>6, GrantStep
  <2>3. ASSUME NEW req \in Requests, NEW b \in HeapBlocks, Free(b, req)
        PROVE  Heap!Next
    BY <1>2, <2>3, ReturnStep DEF Free
  <2>4. CASE UNCHANGED owned
    BY <2>4 DEF Held
  <2> QED
    BY <1>2, <2>1, <2>2, <2>3, <2>4
    DEF Next, vars, AllocFail, FreeRefused, JoinFollowing, JoinPrevious, JoinStop, Merge
<1> QED
  BY <1>1, <1>2, Invariance, PTL DEF Spec, HeapPromise, Heap!Spec
=============================================================================

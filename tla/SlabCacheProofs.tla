-------------------------- MODULE SlabCacheProofs --------------------------
(***************************************************************************)
(* Proofs about SlabCache for every set of caches, sizes of their objects, *)
(* block and header sizes and heap: each slab is on the list its free      *)
(* slots call for, the runs held in the heap are those of the slabs, every *)
(* object is with a client or on a chain, and to its clients the slab      *)
(* layer is a heap of bytes.                                               *)
(*                                                                         *)
(* The lists hold slabs, the slabs hold slots.  The lemmas in the middle   *)
(* say what a step does that takes one slot, gives one back, or gives      *)
(* slabs back to the heap; the steps then only account for the lists.      *)
(***************************************************************************)
EXTENDS SlabCache, Lemmas

Arena == Blocks!Arena

(* What shrink left on empty is on no other list. *)
StaleApart ==
  \A k \in Caches : stale[k] \subseteq empty[k] \ (partial[k] \cup full[k])

(* Slabs lie in the heap, behind the block of the descriptors. *)
SlabsInArena ==
  \A k \in Caches : \A s \in SlabsOf(k) : 1 <= s /\ s + BlocksOf[k] <= ArenaSize

IInv ==
  /\ TypeOK
  /\ ListsMatchSlots
  /\ SlabsBacked
  /\ LiveAccounted
  /\ StaleApart
  /\ SlabsInArena

-----------------------------------------------------------------------------
(* Sizes. *)

(* Power2 doubles from 1.                                                  *)
LEMMA Power2Doubles ==
  /\ Power2[0] = 1
  /\ \A i \in 1 .. 30 : Power2[i] = 2 * Power2[i - 1]
<1> DEFINE Doubles(n, f) == f = [i \in 0 .. n |-> IF i = 0 THEN 1 ELSE 2 * f[i - 1]]
           S == {n \in 0 .. 30 : \E f : Doubles(n, f)}
<1>1. 0 \in S
  <2>1. Doubles(0, [i \in 0 .. 0 |-> 1])
    OBVIOUS
  <2> HIDE DEF Doubles
  <2> QED
    BY <2>1
<1>2. ASSUME NEW n \in 0 .. 30 - 1, n \in S PROVE n + 1 \in S
  <2>1. PICK f : Doubles(n, f)
    BY <1>2
  <2> DEFINE g == [i \in 0 .. n + 1 |-> IF i = n + 1 THEN 2 * f[n] ELSE f[i]]
             h == [i \in 0 .. n + 1 |-> IF i = 0 THEN 1 ELSE 2 * g[i - 1]]
  <2>2. ASSUME NEW i \in 0 .. n + 1 PROVE g[i] = h[i]
    <3>1. CASE i = n + 1
      <4>1. g[n + 1] = 2 * f[n] /\ g[n] = f[n] /\ n + 1 # 0 /\ (n + 1) - 1 = n
        OBVIOUS
      <4> QED
        BY <3>1, <4>1
    <3>2. CASE i \in 0 .. n
      <4>1. f[i] = IF i = 0 THEN 1 ELSE 2 * f[i - 1]
        BY <2>1, <3>2
      <4>2. g[i] = f[i] /\ (i # 0 => i - 1 \in 0 .. n /\ g[i - 1] = f[i - 1])
        BY <3>2
      <4> QED
        BY <4>1, <4>2
    <3> QED
      BY <3>1, <3>2
  <2>3. Doubles(n + 1, g)
    <3>1. g = h
      BY <2>2
    <3> QED
      BY <3>1
  <2>4. n + 1 \in 0 .. 30
    OBVIOUS
  <2> HIDE DEF Doubles, g
  <2> QED
    BY <2>3, <2>4
<1>3. \E f : Doubles(30, f)
  <2> HIDE DEF S
  <2>1. 0 .. 30 \subseteq S
    BY <1>1, <1>2, ClimbsTo
  <2> QED
    BY <2>1 DEF S
<1> DEFINE p == Power2
<1>4. p = CHOOSE f : Doubles(30, f)
  BY DEF Power2
<1>5. Doubles(30, p)
  <2> HIDE DEF Doubles, p
  <2> QED
    BY <1>3, <1>4
<1>6. \A i \in 0 .. 30 : p[i] = IF i = 0 THEN 1 ELSE 2 * p[i - 1]
  <2> HIDE DEF p
  <2> QED
    BY <1>5
<1> HIDE DEF p
<1>7. p[0] = 1 /\ \A i \in 1 .. 30 : p[i] = 2 * p[i - 1]
  BY <1>6
<1> QED
  BY <1>7 DEF p

LEMMA Power2Climbs ==
  /\ \A i \in 0 .. 30 : Power2[i] \in Nat \ {0}
  /\ \A i, j \in 0 .. 30 : i <= j => Power2[i] <= Power2[j]
<1> DEFINE S == {j \in 0 .. 30 : /\ Power2[j] \in Nat \ {0}
                                 /\ \A i \in 0 .. j : Power2[i] \in Int /\ Power2[i] <= Power2[j]}
<1>1. 0 \in S
  BY Power2Doubles
<1>2. ASSUME NEW j \in 0 .. 30 - 1, j \in S PROVE j + 1 \in S
  <2>1. j + 1 \in 1 .. 30 /\ j + 1 \in 0 .. 30 /\ (j + 1) - 1 = j
    OBVIOUS
  <2>2. Power2[j + 1] = 2 * Power2[j]
    BY <2>1, Power2Doubles
  <2>3. /\ Power2[j] \in Nat \ {0}
        /\ \A i \in 0 .. j : Power2[i] \in Int /\ Power2[i] <= Power2[j]
    BY <1>2
  <2>4. Power2[j + 1] \in Nat \ {0} /\ Power2[j] <= Power2[j + 1]
    BY <2>2, <2>3
  <2>5. ASSUME NEW i \in 0 .. j + 1 PROVE Power2[i] \in Int /\ Power2[i] <= Power2[j + 1]
    <3>1. CASE i = j + 1
      BY <2>4, <3>1
    <3>2. CASE i \in 0 .. j
      <4>1. Power2[i] <= Power2[j] /\ Power2[i] \in Int
        BY <2>3, <3>2
      <4> QED
        BY <2>3, <2>4, <4>1
    <3> QED
      BY <3>1, <3>2
  <2> QED
    BY <2>1, <2>4, <2>5
<1> HIDE DEF S
<1>3. 0 .. 30 \subseteq S
  BY <1>1, <1>2, ClimbsTo
<1>4. \A j \in 0 .. 30 : j \in S
  BY <1>3
<1> QED
  BY <1>4 DEF S

(* The loops that look for a power find the least that is enough.          *)
LEMMA LeastPower ==
  ASSUME NEW n \in Int, NEW low \in 0 .. 30, n <= Power2[30]
  PROVE  \E d \in low .. 30 : n <= Power2[d] /\ (d = low \/ Power2[d - 1] < n)
<1> SUFFICES ASSUME \A d \in low .. 30 : ~(n <= Power2[d] /\ (d = low \/ Power2[d - 1] < n))
             PROVE  FALSE
  OBVIOUS
<1> DEFINE S == {i \in 0 .. 30 - low : Power2[low + i] < n}
<1>1. 0 \in S
  <2>1. Power2[low] \in Int /\ low \in low .. 30 /\ low + 0 = low
    BY Power2Climbs
  <2>2. ~(n <= Power2[low])
    BY <2>1
  <2>3. Power2[low] < n
    BY <2>1, <2>2
  <2> QED
    BY <2>1, <2>3
<1>2. ASSUME NEW i \in 0 .. (30 - low) - 1, i \in S PROVE i + 1 \in S
  <2>1. /\ low + (i + 1) \in low .. 30 /\ (low + (i + 1)) - 1 = low + i
        /\ low + (i + 1) \in 0 .. 30 /\ i + 1 \in 0 .. 30 - low
    OBVIOUS
  <2>2. Power2[low + i] < n
    BY <1>2
  <2>3. ~(n <= Power2[low + (i + 1)])
    BY <2>1, <2>2
  <2>4. Power2[low + (i + 1)] \in Int
    BY <2>1, Power2Climbs
  <2>5. Power2[low + (i + 1)] < n
    BY <2>3, <2>4
  <2> QED
    BY <2>1, <2>5
<1> HIDE DEF S
<1>3. 30 - low \in Nat
  OBVIOUS
<1>4. 0 .. 30 - low \subseteq S
  BY <1>1, <1>2, <1>3, ClimbsTo
<1>5. 30 - low \in S /\ low + (30 - low) = 30
  BY <1>3, <1>4
<1>6. Power2[30] < n /\ Power2[30] \in Int
  BY <1>5, Power2Climbs DEF S
<1> QED
  BY <1>6

(* The heap grants what was asked for, or more.                            *)
LEMMA GrantedEnough ==
  ASSUME NEW n \in Int, n <= Power2[30]
  PROVE  granted(n) \in Nat /\ n <= granted(n)
<1> DEFINE c == CHOOSE cnt \in 0 .. 30 : n <= Power2[cnt] /\ (cnt = 0 \/ Power2[cnt - 1] < n)
<1>1. \E cnt \in 0 .. 30 : n <= Power2[cnt] /\ (cnt = 0 \/ Power2[cnt - 1] < n)
  BY LeastPower
<1>2. c \in 0 .. 30 /\ n <= Power2[c]
  BY <1>1
<1>3. granted(n) = Power2[c]
  BY DEF granted
<1> HIDE DEF c
<1> QED
  BY <1>2, <1>3, Power2Climbs

(* kalloc finds a buffer for every size up to the longest buffer, in a     *)
(* place that bufferCachesPointer has, long enough and less than twice as  *)
(* long as it has to be.                                                   *)
THEOREM BuffersFit ==
  ASSUME NEW size \in 0 .. Power2[MAX_BUFFER_SIZE]
  PROVE  BufferFits(size)
<1> DEFINE Enough(deg) == /\ size <= Power2[deg]
                          /\ deg = MIN_BUFFER_SIZE \/ Power2[deg - 1] < size
           deg == bufferDegree(size)
<1>1. MIN_BUFFER_SIZE = 5 /\ MAX_BUFFER_SIZE = 17
  BY DEF MIN_BUFFER_SIZE, MAX_BUFFER_SIZE
<1>2. Power2[17] \in Nat /\ Power2[17] <= Power2[30] /\ Power2[30] \in Nat
  BY Power2Climbs
<1>3. size \in Nat /\ size <= Power2[17] /\ size <= Power2[30]
  BY <1>1, <1>2
<1>4. deg \in 5 .. 30 /\ Enough(deg)
  <2>1. \E d \in 5 .. 30 : Enough(d)
    BY <1>1, <1>3, LeastPower
  <2>2. deg = CHOOSE d \in 5 .. 30 : Enough(d)
    BY <1>1 DEF bufferDegree
  <2> HIDE DEF Enough, deg
  <2> QED
    BY <2>1, <2>2
<1> HIDE DEF deg
<1>5. deg \in 0 .. 30 /\ Power2[deg] \in Nat
  BY <1>4, Power2Climbs
<1>6. deg <= 17
  <2> SUFFICES ASSUME deg > 17 PROVE FALSE
    BY <1>5
  <2>1. deg - 1 \in 0 .. 30 /\ 17 \in 0 .. 30 /\ 17 <= deg - 1 /\ deg # 5
    BY <1>4
  <2>2. Power2[17] <= Power2[deg - 1] /\ Power2[deg - 1] \in Nat
    BY <2>1, Power2Climbs
  <2>3. Power2[deg - 1] < size
    BY <1>1, <1>4, <2>1
  <2> QED
    BY <1>2, <1>3, <2>2, <2>3
<1>7. deg = 5 \/ Power2[deg] < 2 * size
  <2> SUFFICES ASSUME deg # 5 PROVE Power2[deg] < 2 * size
    OBVIOUS
  <2>1. deg \in 1 .. 30 /\ deg - 1 \in 0 .. 30
    BY <1>4
  <2>2. Power2[deg] = 2 * Power2[deg - 1] /\ Power2[deg - 1] \in Nat
    BY <2>1, Power2Doubles, Power2Climbs
  <2>3. Power2[deg - 1] < size
    BY <1>1, <1>4
  <2> QED
    BY <1>3, <2>2, <2>3
<1>8. size <= Power2[deg]
  BY <1>4
<1> HIDE DEF Enough
<1> QED
  BY <1>1, <1>4, <1>6, <1>7, <1>8 DEF BufferFits, deg

(* allocateNewSlab finds room in a slab for its header and its slots, for  *)
(* one slot at least and for no more than it links, whatever the sizes of  *)
(* objects, headers and blocks; deallocateSlab gives back the same blocks. *)
THEOREM SlabsFilled ==
  ASSUME NEW size \in Nat \ {0}, number(size) <= Power2[30]
  PROVE  SlabFilled(size)
<1> DEFINE n    == slotSize(size)
           c    == number(size)
           b    == granted(number(size))
<1>1. size \in Nat \ {0} /\ BlockSize \in Nat \ {0} /\ HeaderSize \in Nat /\ n \in Nat \ {0}
  BY CachesAssumption DEF slotSize
<1>2. c \in Int /\ b \in Nat /\ c <= b /\ c = returned(size)
  <2>1. c \in Int
    BY <1>1 DEF number
  <2>2. c <= Power2[30]
    OBVIOUS
  <2>3. c = returned(size)
    BY DEF number, returned
  <2> HIDE DEF c
  <2>4. granted(c) \in Nat /\ c <= granted(c)
    BY <2>1, <2>2, GrantedEnough
  <2>5. b = granted(c)
    BY DEF c
  <2> HIDE DEF b
  <2> QED
    BY <2>1, <2>3, <2>4, <2>5
<1>3. c \in Int /\ n + HeaderSize - 1 < c * BlockSize
  <2>1. n + HeaderSize - 1 \in Nat
    BY <1>1
  <2> HIDE DEF n
  <2>2. (n + HeaderSize - 1) \div BlockSize \in Int
        /\ n + HeaderSize - 1 < BlockSize * ((n + HeaderSize - 1) \div BlockSize) + BlockSize
    BY <1>1, <2>1
  <2> QED
    BY <1>1, <2>2 DEF number, n
<1> HIDE DEF n, b, c
<1>4. c * BlockSize <= b * BlockSize
  BY <1>1, <1>2, <1>3
<1> DEFINE total == b * BlockSize
<1>5. total \in Nat /\ n + HeaderSize <= total
  BY <1>1, <1>2, <1>3, <1>4
<1> HIDE DEF total
<1>6. \E q \in Int : /\ q = (total - HeaderSize) \div n
                     /\ n * q <= total - HeaderSize /\ total - HeaderSize < n * q + n
  BY <1>1, <1>5
<1>7. PICK q \in Int : /\ q = (total - HeaderSize) \div n
                       /\ n * q <= total - HeaderSize /\ total - HeaderSize < n * q + n
  BY <1>6
<1>8. q >= 1
  <2>1. q <= 0 => n * q <= 0
    BY <1>1
  <2> QED
    BY <1>1, <1>5, <1>7, <2>1
<1>9. n * q = q * n /\ (q + 1) * n = q * n + n
  BY <1>1
<1>10. /\ totalNumOfFreeSlots(size) = q /\ totalSizeOfSlab(size) = total
       /\ granted(returned(size)) = b
  BY <1>2, <1>7 DEF totalNumOfFreeSlots, totalSizeOfSlab, total, n, b, c
<1>11. /\ HeaderSize + q * n <= total /\ total < HeaderSize + (q + 1) * n
  BY <1>1, <1>5, <1>7, <1>9
<1> QED
  BY <1>8, <1>10, <1>11 DEF SlabFilled, n, total

(* What is known of the sizes of a cache. *)
LEMMA SizeFacts ==
  ASSUME NEW k \in Caches
  PROVE  /\ BlocksOf[k] \in Nat \ {0} /\ ReturnedOf[k] = BlocksOf[k]
         /\ SlotsOf[k] \in Nat \ {0}
         /\ slotSize(ObjectSize[k]) \in Nat \ {0}
         /\ HeaderSize + SlotsOf[k] * slotSize(ObjectSize[k]) <= BlocksOf[k] * BlockSize
<1>1. slotSize(ObjectSize[k]) \in Nat \ {0} /\ HeaderSize \in Nat /\ BlockSize \in Nat \ {0}
  BY CachesAssumption DEF slotSize
<1>2. /\ BlocksOf[k] \in Nat /\ ReturnedOf[k] = BlocksOf[k]
  <2>1. ReturnedOf[k] = BlocksOf[k]
    BY DEF BlocksOf, ReturnedOf, number, returned
  <2>2. number(ObjectSize[k]) \in Int /\ BlocksOf[k] = granted(number(ObjectSize[k]))
    BY <1>1 DEF number, BlocksOf
  <2> QED
    BY <2>1, <2>2, GrantedEnough, LengthsAssumption
<1>3. /\ SlotsOf[k] >= 1
      /\ HeaderSize + SlotsOf[k] * slotSize(ObjectSize[k]) <= BlocksOf[k] * BlockSize
  <2>1. SlabFilled(ObjectSize[k])
    BY SlabsFilled, LengthsAssumption, CachesAssumption
  <2> QED
    BY <2>1 DEF SlabFilled, SlotsOf, BlocksOf, totalSizeOfSlab
<1>4. SlotsOf[k] \in Int
  BY <1>1, <1>2 DEF SlotsOf, BlocksOf, totalNumOfFreeSlots, totalSizeOfSlab
<1>5. BlocksOf[k] # 0
  <2> SUFFICES ASSUME BlocksOf[k] = 0 PROVE FALSE
    OBVIOUS
  <2>1. BlocksOf[k] * BlockSize = 0
    BY <1>1
  <2>2. SlotsOf[k] * slotSize(ObjectSize[k]) >= slotSize(ObjectSize[k])
    BY <1>1, <1>3, <1>4
  <2>3. SlotsOf[k] * slotSize(ObjectSize[k]) \in Int
    BY <1>1, <1>4
  <2> QED
    BY <1>1, <1>3, <2>1, <2>2, <2>3
<1> QED
  BY <1>1, <1>2, <1>3, <1>4, <1>5

-----------------------------------------------------------------------------
(* Which runs are held and which objects are live, member by member. *)

LEMMA HeldMember ==
  ASSUME held = {<<0, 1>>} \cup UNION {{Run(k, s) : s \in SlabsOf(k)} : k \in Caches}
  PROVE  \A r : r \in held <=> \/ r = <<0, 1>>
                                 \/ \E k \in Caches : \E s \in SlabsOf(k) : r = Run(k, s)
  OBVIOUS

LEMMA HeldFromMembers ==
  ASSUME \A r : r \in held' <=> \/ r = <<0, 1>>
                                  \/ \E k \in Caches : \E s \in SlabsOf(k)' : r = Run(k, s)
  PROVE  (held = {<<0, 1>>} \cup UNION {{Run(k, s) : s \in SlabsOf(k)} : k \in Caches})'
  BY DEF Run

(* Slot i of the slab s of cache k is with a client. *)
Taken(k, s, i) == s \in SlabsOf(k) /\ i \in Slots(k) \ slots[s]

(* What a step does to the objects clients hold: one more, or none more.   *)
TakesObject(k, s, i) ==
  /\ ~Taken(k, s, i)
  /\ \A j \in Caches : \A t, n :
       Taken(j, t, n)' <=> Taken(j, t, n) \/ (j = k /\ t = s /\ n = i)
TakesNoObject ==
  \A j \in Caches : \A t, n : Taken(j, t, n)' => Taken(j, t, n)

LEMMA LiveMember ==
  ASSUME LiveAccounted
  PROVE  \A o : o \in live <=> \E k \in Caches : \E s, i : Taken(k, s, i) /\ o = <<s, i>>
  BY DEF LiveAccounted, Taken

LEMMA LiveFromMembers ==
  ASSUME \A o : o \in live' <=> \E k \in Caches : \E s, i : Taken(k, s, i)' /\ o = <<s, i>>
  PROVE  LiveAccounted'
  BY DEF LiveAccounted, Taken

(* A slab is of one cache. *)
LEMMA OneOwner ==
  ASSUME TypeOK, SlabsBacked,
         NEW k \in Caches, NEW j \in Caches, NEW s \in SlabsOf(k), s \in SlabsOf(j)
  PROVE  k = j
<1> SUFFICES ASSUME k # j PROVE FALSE
  OBVIOUS
<1>1. Blocks!Disjoint(Run(k, s), Run(j, s))
  BY DEF SlabsBacked
<1>2. s \in Int
  BY CachesAssumption DEF TypeOK, SlabsOf, Blocks!Arena
<1> QED
  BY <1>1, <1>2, SizeFacts DEF Blocks!Disjoint, Run

-----------------------------------------------------------------------------
(* What a step does to the slabs and objects of all caches. *)

SlabsUnchanged == \A j \in Caches : SlabsOf(j)' = SlabsOf(j)

LEMMA KeepsSlabs ==
  ASSUME IInv, held' = held, SlabsUnchanged
  PROVE  SlabsBacked' /\ SlabsInArena'
<1>1. \A r : r \in held' <=> \/ r = <<0, 1>>
                              \/ \E k \in Caches : \E s \in SlabsOf(k)' : r = Run(k, s)
  BY HeldMember DEF SlabsUnchanged, IInv, SlabsBacked
<1>2. (held = {<<0, 1>>} \cup UNION {{Run(k, s) : s \in SlabsOf(k)} : k \in Caches})'
  BY <1>1, HeldFromMembers
<1>3. SlabsBacked'
  BY <1>2 DEF SlabsBacked, IInv, SlabsUnchanged, Run
<1>4. SlabsInArena'
  BY DEF SlabsInArena, IInv, SlabsUnchanged
<1> QED
  BY <1>3, <1>4

LEMMA KeepsObjects ==
  ASSUME IInv, slots' = slots, live' = live, SlabsUnchanged
  PROVE  TakesNoObject /\ LiveAccounted'
<1>1. \A j \in Caches : \A t, n : Taken(j, t, n)' <=> Taken(j, t, n)
  BY DEF Taken, SlabsUnchanged, Slots
<1>2. \A o : o \in live' <=> \E k \in Caches : \E s, i : Taken(k, s, i)' /\ o = <<s, i>>
  BY <1>1, LiveMember DEF IInv
<1> QED
  BY <1>1, <1>2, LiveFromMembers DEF TakesNoObject

(* A client takes a slot: only the slab it is of changes. *)
LEMMA TakesSlot ==
  ASSUME IInv, NEW k \in Caches, NEW s \in SlabsOf(k), NEW i \in Slots(k), i \in slots[s],
         slots' = [slots EXCEPT ![s] = @ \ {i}],
         live' = live \cup {<<s, i>>},
         SlabsUnchanged
  PROVE  /\ s \in Arena /\ slots'[s] = slots[s] \ {i}
         /\ \A t \in Arena \ {s} : slots'[t] = slots[t]
         /\ slots' \in [Arena -> SUBSET Nat] /\ live' \subseteq Arena \X Nat
         /\ TakesObject(k, s, i) /\ LiveAccounted'
<1>1. s \in Arena /\ slots \in [Arena -> SUBSET Nat] /\ live \subseteq Arena \X Nat
  BY DEF IInv, TypeOK, Arena, SlabsOf
<1>2. slots'[s] = slots[s] \ {i} /\ \A t \in Arena \ {s} : slots'[t] = slots[t]
  BY <1>1
<1>3. i \in Nat
  BY <1>1
<1>4. slots' \in [Arena -> SUBSET Nat] /\ live' \subseteq Arena \X Nat
  BY <1>1, <1>3
<1>5. ASSUME NEW j \in Caches, NEW t, NEW n
      PROVE  Taken(j, t, n)' <=> Taken(j, t, n) \/ (j = k /\ t = s /\ n = i)
  <2>1. t \in SlabsOf(j) => t \in Arena
    BY DEF IInv, TypeOK, Arena, SlabsOf
  <2>2. s \in SlabsOf(j) => j = k
    BY OneOwner DEF IInv
  <2> QED
    BY <1>2, <2>1, <2>2 DEF Taken, SlabsUnchanged, Slots
<1>6. \A o : o \in live' <=> \E j \in Caches : \E t, n : Taken(j, t, n)' /\ o = <<t, n>>
  BY <1>5, LiveMember DEF IInv
<1>7. LiveAccounted'
  BY <1>6, LiveFromMembers
<1>8. TakesObject(k, s, i)
  BY <1>5 DEF TakesObject, Taken
<1> QED
  BY <1>1, <1>2, <1>4, <1>7, <1>8

(* A client gives object o back. *)
LEMMA GivesSlot ==
  ASSUME IInv, NEW k \in Caches, NEW o \in live, o[1] \in SlabsOf(k),
         ReturnSlot(k, o),
         SlabsUnchanged
  PROVE  /\ o[1] \in Arena /\ o[2] \in Slots(k) \ slots[o[1]]
         /\ slots'[o[1]] = slots[o[1]] \cup {o[2]}
         /\ \A t \in Arena \ {o[1]} : slots'[t] = slots[t]
         /\ slots' \in [Arena -> SUBSET Nat] /\ live' \subseteq Arena \X Nat
         /\ TakesNoObject /\ LiveAccounted'
<1>1. slots \in [Arena -> SUBSET Nat] /\ live \subseteq Arena \X Nat
  BY DEF IInv, TypeOK, Arena
<1>20. PICK j \in Caches : \E s, i : Taken(j, s, i) /\ o = <<s, i>>
  BY LiveMember DEF IInv
<1>2. PICK s, i : Taken(j, s, i) /\ o = <<s, i>>
  BY <1>20
<1>3. s = o[1] /\ i = o[2] /\ s \in Arena /\ i \in Nat
  BY <1>1, <1>2
<1>4. j = k
  BY <1>2, <1>3, OneOwner DEF IInv, Taken
<1>5. i \in Slots(k) \ slots[s]
  BY <1>2, <1>4 DEF Taken
<1>6. /\ slots' = [slots EXCEPT ![s] = @ \cup {i}]
      /\ live' = live \ {<<s, i>>}
  BY <1>2, <1>3 DEF ReturnSlot
<1>7. slots'[s] = slots[s] \cup {i} /\ \A t \in Arena \ {s} : slots'[t] = slots[t]
  BY <1>1, <1>3, <1>6
<1>8. slots' \in [Arena -> SUBSET Nat] /\ live' \subseteq Arena \X Nat
  BY <1>1, <1>3, <1>6
<1>9. ASSUME NEW h \in Caches, NEW t, NEW n
      PROVE  Taken(h, t, n)' <=> Taken(h, t, n) /\ ~(t = s /\ n = i)
  <2>1. t \in SlabsOf(h) => t \in Arena
    BY DEF IInv, TypeOK, Arena, SlabsOf
  <2> QED
    BY <1>7, <2>1 DEF Taken, SlabsUnchanged, Slots
<1>10. \A p : p \in live' <=> \E h \in Caches : \E t, n : Taken(h, t, n)' /\ p = <<t, n>>
  BY <1>6, <1>9, LiveMember DEF IInv
<1>11. LiveAccounted'
  BY <1>10, LiveFromMembers
<1>12. TakesNoObject
  BY <1>9 DEF TakesNoObject
<1> QED
  BY <1>3, <1>5, <1>7, <1>8, <1>11, <1>12

(* A cache is granted a slab, and a client its first object. *)
LEMMA GrowsSlab ==
  ASSUME IInv, NEW k \in Caches, NEW s \in Arena, NEW i \in Slots(k),
         Blocks!Grant(s, BlocksOf[k]),
         slots' = [slots EXCEPT ![s] = Slots(k) \ {i}],
         live' = live \cup {<<s, i>>},
         SlabsOf(k)' = SlabsOf(k) \cup {s},
         \A j \in Caches \ {k} : SlabsOf(j)' = SlabsOf(j)
  PROVE  /\ \A j \in Caches : s \notin SlabsOf(j)
         /\ slots'[s] = Slots(k) \ {i}
         /\ \A t \in Arena \ {s} : slots'[t] = slots[t]
         /\ held' \subseteq Arena \X Nat
         /\ slots' \in [Arena -> SUBSET Nat] /\ live' \subseteq Arena \X Nat
         /\ SlabsBacked' /\ SlabsInArena'
         /\ TakesObject(k, s, i) /\ LiveAccounted'
<1>1. /\ slots \in [Arena -> SUBSET Nat] /\ live \subseteq Arena \X Nat
      /\ held \subseteq Arena \X Nat /\ s \in Nat
      /\ \A j \in Caches : SlabsOf(j) \subseteq Arena
  BY CachesAssumption DEF IInv, TypeOK, Arena, Blocks!Arena, SlabsOf
<1>2. \A j \in Caches : BlocksOf[j] \in Nat \ {0}
  BY SizeFacts
<1>3. \A r : r \in held <=> \/ r = <<0, 1>>
                             \/ \E j \in Caches : \E t \in SlabsOf(j) : r = Run(j, t)
  BY HeldMember DEF IInv, SlabsBacked
<1>4. /\ s + BlocksOf[k] <= ArenaSize
      /\ \A r \in held : Blocks!Disjoint(r, Run(k, s))
      /\ held' = held \cup {Run(k, s)}
  BY DEF Blocks!Grant, Run
<1>5. 1 <= s
  <2>1. Blocks!Disjoint(<<0, 1>>, <<s, BlocksOf[k]>>)
    BY <1>3, <1>4 DEF Run
  <2>2. BlocksOf[k] \in Nat \ {0}
    BY <1>2
  <2> QED
    BY <1>1, <2>1, <2>2 DEF Blocks!Disjoint
<1>6. \A j \in Caches : \A t \in SlabsOf(j) : Blocks!Disjoint(Run(j, t), Run(k, s))
  BY <1>3, <1>4
<1>7. \A j \in Caches : s \notin SlabsOf(j)
  BY <1>1, <1>2, <1>6 DEF Blocks!Disjoint, Run
<1>8. /\ slots'[s] = Slots(k) \ {i}
      /\ \A t \in Arena \ {s} : slots'[t] = slots[t]
  BY <1>1
<1>9. /\ held' \subseteq Arena \X Nat
      /\ slots' \in [Arena -> SUBSET Nat] /\ live' \subseteq Arena \X Nat
  BY <1>1, <1>2, <1>4 DEF Run, Slots
<1>10. SlabsBacked'
  <2>1. \A r : r \in held' <=> \/ r = <<0, 1>>
                               \/ \E j \in Caches : \E t \in SlabsOf(j)' : r = Run(j, t)
    <3> SUFFICES ASSUME NEW r
                 PROVE  r \in held' <=> \/ r = <<0, 1>>
                                        \/ \E j \in Caches : \E t \in SlabsOf(j)' : r = Run(j, t)
      OBVIOUS
    <3>1. (\E j \in Caches : \E t \in SlabsOf(j)' : r = Run(j, t))
          <=> (\E j \in Caches : \E t \in SlabsOf(j) : r = Run(j, t)) \/ r = Run(k, s)
      OBVIOUS
    <3> QED
      BY <1>3, <1>4, <3>1
  <2>2. (held = {<<0, 1>>} \cup UNION {{Run(j, t) : t \in SlabsOf(j)} : j \in Caches})'
    BY <2>1, HeldFromMembers
  <2>3. \A j, h \in Caches : \A t \in SlabsOf(j)', u \in SlabsOf(h)' :
          (j # h \/ t # u) => Blocks!Disjoint(Run(j, t), Run(h, u))
    <3> SUFFICES ASSUME NEW j \in Caches, NEW h \in Caches,
                        NEW t \in SlabsOf(j)', NEW u \in SlabsOf(h)', j # h \/ t # u
                 PROVE  Blocks!Disjoint(Run(j, t), Run(h, u))
      OBVIOUS
    <3>1. CASE t \in SlabsOf(j) /\ u \in SlabsOf(h)
      BY <3>1 DEF IInv, SlabsBacked
    <3>2. CASE t \in SlabsOf(j) /\ u \notin SlabsOf(h)
      <4>1. h = k /\ u = s
        BY <3>2
      <4> QED
        BY <3>2, <4>1, <1>6
    <3>3. CASE t \notin SlabsOf(j) /\ u \in SlabsOf(h)
      <4>1. j = k /\ t = s
        BY <3>3
      <4>2. Blocks!Disjoint(Run(h, u), Run(k, s))
        BY <3>3, <1>6
      <4> QED
        BY <4>1, <4>2 DEF Blocks!Disjoint
    <3>4. CASE t \notin SlabsOf(j) /\ u \notin SlabsOf(h)
      BY <3>4
    <3> QED
      BY <3>1, <3>2, <3>3, <3>4
  <2> QED
    BY <2>2, <2>3 DEF SlabsBacked, Run, Blocks!Disjoint
<1>11. SlabsInArena'
  BY <1>4, <1>5 DEF IInv, SlabsInArena
<1>12. TakesObject(k, s, i) /\ LiveAccounted'
  <2>1. ASSUME NEW j \in Caches, NEW t, NEW n
        PROVE  Taken(j, t, n)' <=> Taken(j, t, n) \/ (j = k /\ t = s /\ n = i)
    <3>1. CASE t = s
      BY <1>7, <1>8, <3>1 DEF Taken, Slots
    <3>2. CASE t # s
      BY <1>1, <1>8, <3>2 DEF Taken, Slots
    <3> QED
      BY <3>1, <3>2
  <2>2. \A o : o \in live' <=> \E j \in Caches : \E t, n : Taken(j, t, n)' /\ o = <<t, n>>
    BY <2>1, LiveMember DEF IInv
  <2>3. TakesObject(k, s, i)
    BY <1>7, <2>1 DEF TakesObject, Taken
  <2> QED
    BY <2>2, <2>3, LiveFromMembers
<1> QED
  BY <1>7, <1>8, <1>9, <1>10, <1>11, <1>12

(* Slabs S of a cache go back to the heap, with the objects on them. *)
LEMMA GivesSlabs ==
  ASSUME IInv, NEW k \in Caches, NEW S, S \subseteq SlabsOf(k),
         Deallocate(k, S),
         SlabsOf(k)' = SlabsOf(k) \ S,
         \A j \in Caches \ {k} : SlabsOf(j)' = SlabsOf(j)
  PROVE  /\ \A j \in Caches : \A t \in SlabsOf(j)' : slots'[t] = slots[t]
         /\ held' \subseteq held /\ live' \subseteq live
         /\ slots' \in [Arena -> SUBSET Nat]
         /\ SlabsBacked' /\ SlabsInArena'
         /\ TakesNoObject /\ LiveAccounted'
<1>1. /\ slots \in [Arena -> SUBSET Nat]
      /\ \A j \in Caches : SlabsOf(j) \subseteq Arena /\ SlabsOf(j)' \subseteq SlabsOf(j)
  BY DEF IInv, TypeOK, Arena, SlabsOf
<1>2. /\ held' = held \ {Run(k, s) : s \in S}
      /\ slots' = [s \in Arena |-> IF s \in S THEN {} ELSE slots[s]]
      /\ live' = live \ UNION {Objects(k, s) : s \in S}
  BY SizeFacts DEF Deallocate, Blocks!Return, Run, Arena
<1>3. ASSUME NEW j \in Caches, NEW t \in SlabsOf(j)
      PROVE  t \in SlabsOf(j)' <=> t \notin S
  BY <1>3, OneOwner DEF IInv
<1>4. ASSUME NEW j \in Caches, NEW t \in SlabsOf(j)'
      PROVE  slots'[t] = slots[t]
  BY <1>1, <1>2, <1>3
<1>5. slots' \in [Arena -> SUBSET Nat]
  BY <1>1, <1>2
<1>6. SlabsBacked'
  <2>1. \A r : r \in held <=> \/ r = <<0, 1>>
                              \/ \E j \in Caches : \E t \in SlabsOf(j) : r = Run(j, t)
    BY HeldMember DEF IInv, SlabsBacked
  <2>2. \A s \in S : Run(k, s) # <<0, 1>>
    <3> SUFFICES ASSUME NEW s \in S PROVE s # 0
      BY DEF Run
    <3> QED
      BY DEF IInv, SlabsInArena
  <2>3. ASSUME NEW r
        PROVE  r \in held' <=> \/ r = <<0, 1>>
                               \/ \E j \in Caches : \E t \in SlabsOf(j)' : r = Run(j, t)
    <3>1. ASSUME NEW j \in Caches, NEW t \in SlabsOf(j), r = Run(j, t)
          PROVE  (\E s \in S : r = Run(k, s)) <=> t \in S
      <4>1. \A s : r = Run(k, s) => s = t
        BY <3>1 DEF Run
      <4>2. t \in S => j = k
        BY OneOwner DEF IInv
      <4> QED
        BY <3>1, <4>1, <4>2
    <3> QED
      BY <1>1, <1>2, <1>3, <2>1, <2>2, <3>1
  <2>4. (held = {<<0, 1>>} \cup UNION {{Run(j, t) : t \in SlabsOf(j)} : j \in Caches})'
    BY <2>3, HeldFromMembers
  <2> QED
    BY <1>1, <2>4 DEF IInv, SlabsBacked, Run
<1>7. SlabsInArena'
  BY <1>1 DEF IInv, SlabsInArena
<1>8. TakesNoObject /\ LiveAccounted'
  <2>1. ASSUME NEW j \in Caches, NEW t, NEW n
        PROVE  Taken(j, t, n)' <=> Taken(j, t, n) /\ t \notin S
    BY <1>1, <1>3, <1>4 DEF Taken, Slots
  <2>2. ASSUME NEW j \in Caches, NEW t, NEW n, Taken(j, t, n)
        PROVE  <<t, n>> \in UNION {Objects(k, s) : s \in S} <=> t \in S
    <3>1. t \in S => j = k
      BY <2>2, OneOwner DEF IInv, Taken
    <3> QED
      BY <2>2, <3>1 DEF Objects, Taken
  <2>3. \A o : o \in live' <=> \E j \in Caches : \E t, n : Taken(j, t, n)' /\ o = <<t, n>>
    BY <1>2, <2>1, <2>2, LiveMember DEF IInv
  <2>4. TakesNoObject
    BY <2>1 DEF TakesNoObject
  <2> QED
    BY <2>3, <2>4, LiveFromMembers
<1> QED
  BY <1>2, <1>4, <1>5, <1>6, <1>7, <1>8

(* Slab s of cache k goes to the list that its free slots call for, and    *)
(* nothing else changes on the lists.                                      *)
LEMMA MovesSlab ==
  ASSUME IInv, NEW k \in Caches, NEW s \in Arena \ stale[k],
         \A j \in Caches \ {k} : s \notin SlabsOf(j),
         \A t \in Arena \ {s} : slots'[t] = slots[t],
         stale' = stale,
         \A j \in Caches \ {k} : /\ partial'[j] = partial[j]
                                  /\ full'[j] = full[j]
                                  /\ empty'[j] = empty[j],
         partial'[k] \ {s} = partial[k] \ {s},
         full'[k] \ {s} = full[k] \ {s},
         empty'[k] \ {s} = empty[k] \ {s},
         s \in partial'[k] => slots'[s] \subseteq Slots(k) /\ slots'[s] \notin {{}, Slots(k)},
         s \in full'[k] => slots'[s] = {},
         s \in empty'[k] => slots'[s] = Slots(k)
  PROVE  ListsMatchSlots' /\ StaleApart'
<1>1. \A j \in Caches : /\ partial[j] \subseteq Arena /\ full[j] \subseteq Arena
                         /\ empty[j] \subseteq Arena
  BY DEF IInv, TypeOK, Arena
<1>2. ListsMatchSlots'
  <2> SUFFICES ASSUME NEW j \in Caches
               PROVE  /\ \A t \in partial'[j] : slots'[t] \subseteq Slots(j) /\ slots'[t] \notin {{}, Slots(j)}
                      /\ \A t \in full'[j] : slots'[t] = {}
                      /\ \A t \in empty'[j] \ stale[j] : slots'[t] = Slots(j)
    BY DEF ListsMatchSlots, Slots
  <2>1. CASE j # k
    BY <1>1, <2>1 DEF IInv, ListsMatchSlots, SlabsOf
  <2>2. CASE j = k
    BY <1>1, <2>2 DEF IInv, ListsMatchSlots
  <2> QED
    BY <2>1, <2>2
<1>3. StaleApart'
  <2> SUFFICES ASSUME NEW j \in Caches
               PROVE  stale[j] \subseteq empty'[j] \ (partial'[j] \cup full'[j])
    BY DEF StaleApart
  <2>1. CASE j # k
    BY <2>1 DEF IInv, StaleApart
  <2>2. CASE j = k
    BY <2>2 DEF IInv, StaleApart
  <2> QED
    BY <2>1, <2>2
<1> QED
  BY <1>2, <1>3

LEMMA OwnedNotStale ==
  ASSUME IInv, NEW k \in Caches, NEW s \in SlabsOf(k)
  PROVE  /\ s \in Arena \ stale[k]
         /\ \A j \in Caches \ {k} : s \notin SlabsOf(j)
<1>1. s \in Arena \ stale[k]
  BY DEF IInv, TypeOK, Arena, SlabsOf, StaleApart
<1> QED
  BY <1>1, OneOwner DEF IInv

-----------------------------------------------------------------------------
(* Every operation keeps the invariant. *)

LEMMA InitInv == Init => IInv
<1> SUFFICES ASSUME Init PROVE IInv
  OBVIOUS
<1>1. 0 \in Blocks!Arena
  BY CachesAssumption DEF Blocks!Arena
<1>2. \A k \in Caches : SlabsOf(k) = {}
  BY DEF Init, SlabsOf
<1>3. TypeOK
  BY <1>1 DEF Init, TypeOK
<1>4. ListsMatchSlots /\ StaleApart
  BY DEF Init, ListsMatchSlots, StaleApart
<1>5. SlabsBacked /\ SlabsInArena
  BY <1>2 DEF Init, SlabsBacked, SlabsInArena
<1>6. LiveAccounted
  BY <1>2 DEF Init, LiveAccounted
<1> QED
  BY <1>3, <1>4, <1>5, <1>6 DEF IInv

LEMMA AllocPartialInv ==
  ASSUME IInv, NEW k \in Caches, AllocPartial(k)
  PROVE  IInv' /\ \E s, i : TakesObject(k, s, i)
<1>1. PICK s \in partial[k], i \in Slots(k) :
       /\ i \in slots[s]
       /\ slots' = [slots EXCEPT ![s] = @ \ {i}]
       /\ live'  = live \cup {<<s, i>>}
       /\ IF slots[s] = {i}
          THEN /\ partial' = [partial EXCEPT ![k] = @ \ {s}]
               /\ full'    = [full EXCEPT ![k] = @ \cup {s}]
          ELSE UNCHANGED <<partial, full>>
  BY DEF AllocPartial
<1>2. UNCHANGED <<held, created, linked, empty, grown, error, stale, fault>>
  BY DEF AllocPartial
<1>3. s \in SlabsOf(k)
  BY DEF SlabsOf
<1>4. s \in Arena \ stale[k] /\ \A j \in Caches \ {k} : s \notin SlabsOf(j)
  BY <1>3, OwnedNotStale
<1>5. /\ partial \in [Caches -> SUBSET Arena] /\ full \in [Caches -> SUBSET Arena]
      /\ partial' \in [Caches -> SUBSET Arena] /\ full' \in [Caches -> SUBSET Arena]
  BY <1>1, <1>4 DEF IInv, TypeOK, Arena
<1>6. SlabsUnchanged
  BY <1>1, <1>2, <1>5 DEF SlabsUnchanged, SlabsOf
<1>7. /\ slots'[s] = slots[s] \ {i}
      /\ \A t \in Arena \ {s} : slots'[t] = slots[t]
      /\ slots' \in [Arena -> SUBSET Nat] /\ live' \subseteq Arena \X Nat
      /\ TakesObject(k, s, i) /\ LiveAccounted'
  BY <1>1, <1>3, <1>6, TakesSlot
<1>8. s \notin full[k] \cup empty[k] /\ slots[s] \subseteq Slots(k)
  BY <1>1, <1>4 DEF IInv, ListsMatchSlots
<1>9. TypeOK'
  BY <1>2, <1>5, <1>7 DEF IInv, TypeOK, Arena
<1>10. ListsMatchSlots' /\ StaleApart'
  <2>1. \A j \in Caches \ {k} : /\ partial'[j] = partial[j] /\ full'[j] = full[j]
                                 /\ empty'[j] = empty[j]
    BY <1>1, <1>2, <1>5
  <2>2. /\ partial'[k] \ {s} = partial[k] \ {s} /\ full'[k] \ {s} = full[k] \ {s}
        /\ empty'[k] = empty[k]
    BY <1>1, <1>2, <1>5
  <2>3. /\ s \in partial'[k] => slots'[s] \subseteq Slots(k) /\ slots'[s] \notin {{}, Slots(k)}
        /\ s \in full'[k] => slots'[s] = {}
    BY <1>1, <1>5, <1>7, <1>8
  <2> QED
    BY <1>2, <1>4, <1>7, <1>8, <2>1, <2>2, <2>3, MovesSlab
<1> QED
  BY <1>2, <1>6, <1>7, <1>9, <1>10, KeepsSlabs DEF IInv

LEMMA AllocEmptyInv ==
  ASSUME IInv, NEW k \in Caches, AllocEmpty(k)
  PROVE  IInv' /\ \E s, i : TakesObject(k, s, i)
<1>1. PICK s \in empty[k] \ stale[k], i \in Slots(k) :
       /\ i \in slots[s]
       /\ slots' = [slots EXCEPT ![s] = @ \ {i}]
       /\ live'  = live \cup {<<s, i>>}
       /\ empty' = [empty EXCEPT ![k] = @ \ {s}]
       /\ IF slots[s] = {i}
          THEN /\ full' = [full EXCEPT ![k] = @ \cup {s}]
               /\ UNCHANGED partial
          ELSE /\ partial' = [partial EXCEPT ![k] = @ \cup {s}]
               /\ UNCHANGED full
  BY DEF AllocEmpty
<1>2. UNCHANGED <<held, created, linked, grown, error, stale, fault>>
  BY DEF AllocEmpty
<1>3. s \in SlabsOf(k)
  BY DEF SlabsOf
<1>4. s \in Arena \ stale[k] /\ \A j \in Caches \ {k} : s \notin SlabsOf(j)
  BY <1>3, OwnedNotStale
<1>5. /\ partial \in [Caches -> SUBSET Arena] /\ full \in [Caches -> SUBSET Arena]
      /\ empty \in [Caches -> SUBSET Arena] /\ empty' \in [Caches -> SUBSET Arena]
      /\ partial' \in [Caches -> SUBSET Arena] /\ full' \in [Caches -> SUBSET Arena]
  BY <1>1, <1>4 DEF IInv, TypeOK, Arena
<1>6. SlabsUnchanged
  BY <1>1, <1>2, <1>4, <1>5 DEF SlabsUnchanged, SlabsOf
<1>7. /\ slots'[s] = slots[s] \ {i}
      /\ \A t \in Arena \ {s} : slots'[t] = slots[t]
      /\ slots' \in [Arena -> SUBSET Nat] /\ live' \subseteq Arena \X Nat
      /\ TakesObject(k, s, i) /\ LiveAccounted'
  BY <1>1, <1>3, <1>6, TakesSlot
<1>8. s \notin full[k] \cup partial[k] /\ slots[s] = Slots(k)
  BY <1>1, <1>4 DEF IInv, ListsMatchSlots
<1>9. TypeOK'
  BY <1>2, <1>5, <1>7 DEF IInv, TypeOK, Arena
<1>10. ListsMatchSlots' /\ StaleApart'
  <2>1. \A j \in Caches \ {k} : /\ partial'[j] = partial[j] /\ full'[j] = full[j]
                                 /\ empty'[j] = empty[j]
    BY <1>1, <1>2, <1>5
  <2>2. /\ partial'[k] \ {s} = partial[k] \ {s} /\ full'[k] \ {s} = full[k] \ {s}
        /\ empty'[k] \ {s} = empty[k] \ {s} /\ s \notin empty'[k]
    BY <1>1, <1>2, <1>5
  <2>3. /\ s \in partial'[k] => slots'[s] \subseteq Slots(k) /\ slots'[s] \notin {{}, Slots(k)}
        /\ s \in full'[k] => slots'[s] = {}
    BY <1>1, <1>5, <1>7, <1>8
  <2> QED
    BY <1>2, <1>4, <1>7, <2>1, <2>2, <2>3, MovesSlab
<1> QED
  BY <1>2, <1>6, <1>7, <1>9, <1>10, KeepsSlabs DEF IInv

LEMMA AllocGrowInv ==
  ASSUME IInv, NEW k \in Caches, AllocGrow(k)
  PROVE  IInv' /\ \E s, i : TakesObject(k, s, i)
<1>1. PICK s \in Arena, i \in Slots(k) :
       /\ Blocks!Grant(s, BlocksOf[k])
       /\ slots' = [slots EXCEPT ![s] = Slots(k) \ {i}]
       /\ live'  = live \cup {<<s, i>>}
       /\ IF SlotsOf[k] = 1
          THEN /\ full' = [full EXCEPT ![k] = @ \cup {s}]
               /\ UNCHANGED partial
          ELSE /\ partial' = [partial EXCEPT ![k] = {s}]
               /\ UNCHANGED full
  BY DEF AllocGrow, Arena
<1>2. /\ partial[k] = {} /\ empty[k] = {} /\ EnsureCreated(k)
      /\ grown' = [grown EXCEPT ![k] = TRUE]
      /\ UNCHANGED <<empty, error, stale, fault>>
  BY DEF AllocGrow
<1>3. stale[k] = {}
  BY <1>2 DEF IInv, StaleApart
<1>4. /\ partial \in [Caches -> SUBSET Arena] /\ full \in [Caches -> SUBSET Arena]
      /\ partial' \in [Caches -> SUBSET Arena] /\ full' \in [Caches -> SUBSET Arena]
      /\ grown' \in [Caches -> BOOLEAN]
  BY <1>1, <1>2 DEF IInv, TypeOK, Arena
<1>5. /\ SlabsOf(k)' = SlabsOf(k) \cup {s}
      /\ \A j \in Caches \ {k} : SlabsOf(j)' = SlabsOf(j)
  BY <1>1, <1>2, <1>3, <1>4 DEF SlabsOf
<1>6. /\ \A j \in Caches : s \notin SlabsOf(j)
      /\ slots'[s] = Slots(k) \ {i}
      /\ \A t \in Arena \ {s} : slots'[t] = slots[t]
      /\ held' \subseteq Arena \X Nat
      /\ slots' \in [Arena -> SUBSET Nat] /\ live' \subseteq Arena \X Nat
      /\ SlabsBacked' /\ SlabsInArena'
      /\ TakesObject(k, s, i) /\ LiveAccounted'
  BY <1>1, <1>5, GrowsSlab
<1>7. created' \subseteq Caches /\ linked' \subseteq created' /\ error' \subseteq linked'
  BY <1>2 DEF IInv, TypeOK, EnsureCreated
<1>8. TypeOK'
  BY <1>2, <1>4, <1>6, <1>7 DEF IInv, TypeOK, Arena
<1>9. ListsMatchSlots' /\ StaleApart'
  <2>1. \A j \in Caches \ {k} : /\ partial'[j] = partial[j] /\ full'[j] = full[j]
                                 /\ empty'[j] = empty[j]
    BY <1>1, <1>2, <1>4
  <2>2. /\ partial'[k] \ {s} = partial[k] \ {s} /\ full'[k] \ {s} = full[k] \ {s}
        /\ empty'[k] \ {s} = empty[k] \ {s} /\ s \notin empty'[k]
    BY <1>1, <1>2, <1>4
  <2>3. /\ SlotsOf[k] = 1 => slots'[s] = {}
        /\ SlotsOf[k] # 1 => slots'[s] \notin {{}, Slots(k)}
    <3>1. SlotsOf[k] \in Nat \ {0}
      BY SizeFacts
    <3>2. SlotsOf[k] # 1 => 1 \in Slots(k) /\ 2 \in Slots(k)
      BY <3>1 DEF Slots
    <3>3. SlotsOf[k] = 1 => Slots(k) = {1}
      BY <3>1 DEF Slots
    <3> QED
      BY <1>6, <3>2, <3>3
  <2>4. /\ s \in partial'[k] => SlotsOf[k] # 1
        /\ s \in full'[k] => SlotsOf[k] = 1
    BY <1>1, <1>2, <1>4, <1>6 DEF SlabsOf
  <2> QED
    BY <1>2, <1>3, <1>6, <2>1, <2>2, <2>3, <2>4, MovesSlab
<1> QED
  BY <1>6, <1>8, <1>9 DEF IInv

LEMMA FreePartialInv ==
  ASSUME IInv, NEW k \in Caches, NEW o \in live, FreePartial(k, o)
  PROVE  IInv' /\ TakesNoObject
<1> DEFINE s == o[1]
<1>1. /\ s \in partial[k] /\ ReturnSlot(k, o)
      /\ IF AllFree(k, o)
         THEN /\ partial' = [partial EXCEPT ![k] = @ \ {s}]
              /\ empty'   = [empty EXCEPT ![k] = @ \cup {s}]
         ELSE UNCHANGED <<partial, empty>>
      /\ UNCHANGED <<held, created, linked, full, grown, error, stale, fault>>
  BY DEF FreePartial
<1>2. s \in SlabsOf(k)
  BY <1>1 DEF SlabsOf
<1>3. s \in Arena \ stale[k] /\ \A j \in Caches \ {k} : s \notin SlabsOf(j)
  BY <1>2, OwnedNotStale
<1> HIDE DEF s
<1>4. /\ partial \in [Caches -> SUBSET Arena] /\ empty \in [Caches -> SUBSET Arena]
      /\ partial' \in [Caches -> SUBSET Arena] /\ empty' \in [Caches -> SUBSET Arena]
  BY <1>1, <1>3 DEF IInv, TypeOK, Arena
<1>5. SlabsUnchanged
  BY <1>1, <1>3, <1>4 DEF SlabsUnchanged, SlabsOf
<1>6. /\ o[2] \in Slots(k) \ slots[s]
      /\ slots'[s] = slots[s] \cup {o[2]}
      /\ \A t \in Arena \ {s} : slots'[t] = slots[t]
      /\ slots' \in [Arena -> SUBSET Nat] /\ live' \subseteq Arena \X Nat
      /\ TakesNoObject /\ LiveAccounted'
  BY <1>1, <1>2, <1>5, GivesSlot DEF s
<1>7. s \notin full[k] \cup empty[k] /\ slots[s] \subseteq Slots(k)
  BY <1>1, <1>3 DEF IInv, ListsMatchSlots
<1>8. TypeOK'
  BY <1>1, <1>4, <1>6 DEF IInv, TypeOK, Arena
<1>9. ListsMatchSlots' /\ StaleApart'
  <2>1. \A j \in Caches \ {k} : /\ partial'[j] = partial[j] /\ full'[j] = full[j]
                                 /\ empty'[j] = empty[j]
    BY <1>1, <1>4
  <2>2. /\ partial'[k] \ {s} = partial[k] \ {s} /\ empty'[k] \ {s} = empty[k] \ {s}
        /\ full'[k] = full[k]
    BY <1>1, <1>4
  <2>3. /\ s \in partial'[k] => slots'[s] \subseteq Slots(k) /\ slots'[s] \notin {{}, Slots(k)}
        /\ s \in empty'[k] => slots'[s] = Slots(k)
    BY <1>1, <1>4, <1>6, <1>7 DEF AllFree, s
  <2> QED
    BY <1>1, <1>3, <1>6, <1>7, <2>1, <2>2, <2>3, MovesSlab
<1> QED
  BY <1>1, <1>5, <1>6, <1>8, <1>9, KeepsSlabs DEF IInv

LEMMA FreeFullInv ==
  ASSUME IInv, NEW k \in Caches, NEW o \in live, FreeFull(k, o)
  PROVE  IInv' /\ TakesNoObject
<1> DEFINE s == o[1]
<1>1. /\ s \in full[k] /\ ReturnSlot(k, o)
      /\ full' = [full EXCEPT ![k] = @ \ {s}]
      /\ IF AllFree(k, o)
         THEN /\ empty' = [empty EXCEPT ![k] = @ \cup {s}]
              /\ UNCHANGED partial
         ELSE /\ partial' = [partial EXCEPT ![k] = @ \cup {s}]
              /\ UNCHANGED empty
      /\ UNCHANGED <<held, created, linked, grown, error, stale, fault>>
  BY DEF FreeFull
<1>2. s \in SlabsOf(k)
  BY <1>1 DEF SlabsOf
<1>3. s \in Arena \ stale[k] /\ \A j \in Caches \ {k} : s \notin SlabsOf(j)
  BY <1>2, OwnedNotStale
<1> HIDE DEF s
<1>4. /\ partial \in [Caches -> SUBSET Arena] /\ empty \in [Caches -> SUBSET Arena]
      /\ partial' \in [Caches -> SUBSET Arena] /\ empty' \in [Caches -> SUBSET Arena]
      /\ full \in [Caches -> SUBSET Arena] /\ full' \in [Caches -> SUBSET Arena]
  BY <1>1, <1>3 DEF IInv, TypeOK, Arena
<1>5. SlabsUnchanged
  BY <1>1, <1>3, <1>4 DEF SlabsUnchanged, SlabsOf
<1>6. /\ o[2] \in Slots(k) \ slots[s]
      /\ slots'[s] = slots[s] \cup {o[2]}
      /\ \A t \in Arena \ {s} : slots'[t] = slots[t]
      /\ slots' \in [Arena -> SUBSET Nat] /\ live' \subseteq Arena \X Nat
      /\ TakesNoObject /\ LiveAccounted'
  BY <1>1, <1>2, <1>5, GivesSlot DEF s
<1>7. s \notin partial[k] /\ slots[s] = {}
  BY <1>1, <1>3 DEF IInv, ListsMatchSlots
<1>8. s \notin empty[k]
  <2>1. Slots(k) # {}
    BY <1>6
  <2> QED
    BY <1>3, <1>7, <2>1 DEF IInv, ListsMatchSlots
<1>9. TypeOK'
  BY <1>1, <1>4, <1>6 DEF IInv, TypeOK, Arena
<1>10. ListsMatchSlots' /\ StaleApart'
  <2>1. \A j \in Caches \ {k} : /\ partial'[j] = partial[j] /\ full'[j] = full[j]
                                 /\ empty'[j] = empty[j]
    BY <1>1, <1>4
  <2>2. /\ partial'[k] \ {s} = partial[k] \ {s} /\ empty'[k] \ {s} = empty[k] \ {s}
        /\ full'[k] \ {s} = full[k] \ {s} /\ s \notin full'[k]
    BY <1>1, <1>4
  <2>3. /\ s \in partial'[k] => slots'[s] \subseteq Slots(k) /\ slots'[s] \notin {{}, Slots(k)}
        /\ s \in empty'[k] => slots'[s] = Slots(k)
    BY <1>1, <1>4, <1>6, <1>7, <1>8 DEF AllFree, s
  <2> QED
    BY <1>1, <1>3, <1>6, <2>1, <2>2, <2>3, MovesSlab
<1> QED
  BY <1>1, <1>5, <1>6, <1>9, <1>10, KeepsSlabs DEF IInv

LEMMA ShrinkInv ==
  ASSUME IInv, NEW k \in Caches, Shrink(k)
  PROVE  IInv' /\ TakesNoObject
<1>1. /\ stale[k] = {} /\ Deallocate(k, empty[k])
      /\ stale' = [stale EXCEPT ![k] = empty[k]]
      /\ UNCHANGED <<created, linked, partial, full, empty, grown, error, fault>>
  BY DEF Shrink
<1>2. /\ stale \in [Caches -> SUBSET Arena] /\ empty \in [Caches -> SUBSET Arena]
      /\ stale' \in [Caches -> SUBSET Arena]
  BY <1>1 DEF IInv, TypeOK, Arena
<1>3. empty[k] \cap (partial[k] \cup full[k]) = {}
  <2>1. Slots(k) # {}
    BY SizeFacts DEF Slots
  <2> QED
    BY <1>1, <2>1 DEF IInv, ListsMatchSlots
<1>4. /\ empty[k] \subseteq SlabsOf(k) /\ SlabsOf(k)' = SlabsOf(k) \ empty[k]
      /\ \A j \in Caches \ {k} : SlabsOf(j)' = SlabsOf(j)
  BY <1>1, <1>2, <1>3 DEF SlabsOf
<1>5. /\ \A j \in Caches : \A t \in SlabsOf(j)' : slots'[t] = slots[t]
      /\ held' \subseteq held /\ live' \subseteq live
      /\ slots' \in [Arena -> SUBSET Nat]
      /\ SlabsBacked' /\ SlabsInArena'
      /\ TakesNoObject /\ LiveAccounted'
  BY <1>1, <1>4, GivesSlabs
<1>6. TypeOK'
  BY <1>1, <1>2, <1>5 DEF IInv, TypeOK, Arena
<1>7. ListsMatchSlots'
  <2>1. \A j \in Caches : empty'[j] \ stale'[j] \subseteq empty[j] \ stale[j]
    BY <1>1, <1>2
  <2> QED
    BY <1>1, <1>5, <2>1 DEF IInv, ListsMatchSlots, SlabsOf, Slots
<1>8. StaleApart'
  BY <1>1, <1>2, <1>3 DEF IInv, StaleApart
<1> QED
  BY <1>5, <1>6, <1>7, <1>8 DEF IInv

LEMMA DestroyInv ==
  ASSUME IInv, NEW k \in Caches, Destroy(k)
  PROVE  IInv' /\ TakesNoObject
<1>1. /\ stale[k] = {} /\ Deallocate(k, SlabsOf(k))
      /\ linked'  = linked \ {k} /\ error' = error \ {k}
      /\ partial' = [partial EXCEPT ![k] = {}]
      /\ full'    = [full EXCEPT ![k] = {}]
      /\ empty'   = [empty EXCEPT ![k] = {}]
      /\ grown'   = [grown EXCEPT ![k] = TRUE]
      /\ UNCHANGED <<created, stale, fault>>
  BY DEF Destroy, DestructorFrees
<1>2. /\ partial \in [Caches -> SUBSET Arena] /\ full \in [Caches -> SUBSET Arena]
      /\ empty \in [Caches -> SUBSET Arena] /\ empty' \in [Caches -> SUBSET Arena]
      /\ partial' \in [Caches -> SUBSET Arena] /\ full' \in [Caches -> SUBSET Arena]
      /\ grown' \in [Caches -> BOOLEAN]
  BY <1>1 DEF IInv, TypeOK, Arena
<1>3. /\ SlabsOf(k)' = {}
      /\ \A j \in Caches \ {k} : SlabsOf(j)' = SlabsOf(j)
  BY <1>1, <1>2 DEF SlabsOf
<1>4. /\ \A j \in Caches : \A t \in SlabsOf(j)' : slots'[t] = slots[t]
      /\ held' \subseteq held /\ live' \subseteq live
      /\ slots' \in [Arena -> SUBSET Nat]
      /\ SlabsBacked' /\ SlabsInArena'
      /\ TakesNoObject /\ LiveAccounted'
  BY <1>1, <1>3, GivesSlabs
<1>5. TypeOK'
  BY <1>1, <1>2, <1>4 DEF IInv, TypeOK, Arena
<1>6. \A j \in Caches : /\ partial'[j] \subseteq partial[j] /\ full'[j] \subseteq full[j]
                        /\ empty'[j] \subseteq empty[j]
                        /\ j # k => empty'[j] = empty[j]
  BY <1>1, <1>2
<1>7. ListsMatchSlots'
  BY <1>1, <1>4, <1>6 DEF IInv, ListsMatchSlots, SlabsOf, Slots
<1>8. StaleApart'
  BY <1>1, <1>6 DEF IInv, StaleApart
<1> QED
  BY <1>4, <1>5, <1>7, <1>8 DEF IInv

(* What leaves slabs, slots and objects alone. *)
LEMMA KeepsInv ==
  ASSUME IInv, TypeOK', UNCHANGED <<held, partial, full, empty, slots, live, stale>>
  PROVE  IInv' /\ TakesNoObject
<1>1. SlabsUnchanged
  BY DEF SlabsUnchanged, SlabsOf
<1>2. ListsMatchSlots' /\ StaleApart'
  BY DEF IInv, ListsMatchSlots, StaleApart, Slots
<1> QED
  BY <1>1, <1>2, KeepsSlabs, KeepsObjects DEF IInv

(* A step hands out one object or none. *)
HandsOutOneAtMost ==
  TakesNoObject \/ \E k \in Caches : \E s, i : TakesObject(k, s, i)

LEMMA NextInv ==
  ASSUME IInv, [Next]_vars
  PROVE  IInv' /\ HandsOutOneAtMost
<1> USE DEF HandsOutOneAtMost
<1>1. ASSUME NEW k \in Caches, Create(k) PROVE IInv' /\ TakesNoObject
  <2>1. TypeOK' /\ UNCHANGED <<held, partial, full, empty, slots, live, stale>>
    BY <1>1 DEF Create, IInv, TypeOK
  <2> QED
    BY <2>1, KeepsInv
<1>2. ASSUME NEW k \in Caches, AllocFail(k) PROVE IInv' /\ TakesNoObject
  <2>1. TypeOK' /\ UNCHANGED <<held, partial, full, empty, slots, live, stale>>
    BY <1>2 DEF AllocFail, EnsureCreated, IInv, TypeOK
  <2> QED
    BY <2>1, KeepsInv
<1>3. ASSUME NEW k \in Caches, ShrinkSkipped(k) PROVE IInv' /\ TakesNoObject
  <2>1. TypeOK' /\ UNCHANGED <<held, partial, full, empty, slots, live, stale>>
    BY <1>3 DEF ShrinkSkipped, IInv, TypeOK
  <2> QED
    BY <2>1, KeepsInv
<1>4. ASSUME NEW k \in Caches,
             AllocStale(k) \/ ShrinkStale(k) \/ DestroyStale(k) \/ InfoNull(k) \/ InfoStale(k)
      PROVE  IInv' /\ TakesNoObject
  <2>1. TypeOK' /\ UNCHANGED <<held, partial, full, empty, slots, live, stale>>
    BY <1>4 DEF AllocStale, ShrinkStale, DestroyStale, InfoNull, InfoStale, IInv, TypeOK
  <2> QED
    BY <2>1, KeepsInv
<1>5. CASE UNCHANGED vars
  <2>1. TypeOK' /\ UNCHANGED <<held, partial, full, empty, slots, live, stale>>
    BY <1>5 DEF vars, IInv, TypeOK
  <2> QED
    BY <2>1, KeepsInv
<1> QED
  BY <1>1, <1>2, <1>3, <1>4, <1>5, AllocPartialInv, AllocEmptyInv, AllocGrowInv,
     FreePartialInv, FreeFullInv, ShrinkInv, DestroyInv DEF Next

(* Cache::alloc, free, shrink and destroy keep lists, chains, the heap and  *)
(* the clients' objects in step.                                           *)
THEOREM Invariance == Spec => []IInv
<1>1. IInv /\ [Next]_vars => IInv'
  BY NextInv
<1> QED
  BY InitInv, <1>1, PTL DEF Spec

(* Lists, slots and runs stay what they are declared to be, whatever is    *)
(* allocated, freed, shrunk and destroyed, in any order.                   *)
THEOREM TypeCorrect == Spec => []TypeOK
  BY Invariance, PTL DEF IInv

(* A slab is on the list its free slots call for: alloc finds a free slot  *)
(* on the list it looks at, and shrink gives back no slab with objects.    *)
THEOREM SlabsOnRightList == Spec => []ListsMatchSlots
  BY Invariance, PTL DEF IInv

(* The heap holds the slabs on the lists and no others, each once: moving  *)
(* slabs from list to list, shrinking and destroying leak none and share   *)
(* none.                                                                   *)
THEOREM NoSlabLeaks == Spec => []SlabsBacked
  BY Invariance, PTL DEF IInv

(* An object is with a client or on the chain of its slab.                 *)
THEOREM ObjectsAccounted == Spec => []LiveAccounted
  BY Invariance, PTL DEF IInv

-----------------------------------------------------------------------------
(* The slab layer implements a heap of bytes. *)

(* An object lies inside its slab, behind the header. *)
LEMMA ObjectInSlab ==
  ASSUME NEW k \in Caches, NEW s \in Nat, NEW i \in Slots(k), NEW r, r = ObjectRun(k, s, i)
  PROVE  /\ r[1] \in Nat /\ r[2] \in Nat \ {0}
         /\ s * BlockSize <= r[1] /\ r[1] + r[2] <= (s + BlocksOf[k]) * BlockSize
<1> DEFINE z == slotSize(ObjectSize[k])
           b == BlocksOf[k]
           n == SlotsOf[k]
<1>1. /\ z \in Nat \ {0} /\ b \in Nat /\ n \in Nat /\ BlockSize \in Nat /\ HeaderSize \in Nat
      /\ HeaderSize + n * z <= b * BlockSize
  BY SizeFacts, CachesAssumption
<1>2. i \in Nat \ {0} /\ i <= n
  BY <1>1 DEF Slots
<1>3. r[1] = s * BlockSize + HeaderSize + (i - 1) * z /\ r[2] = z
  BY DEF ObjectRun
<1> HIDE DEF z, b, n
<1>4. (i - 1) * z + z = i * z /\ i * z <= n * z /\ (i - 1) * z \in Nat
  BY <1>1, <1>2
<1>5. (s + b) * BlockSize = s * BlockSize + b * BlockSize /\ s * BlockSize \in Nat
  BY <1>1
<1>6. n * z \in Nat /\ b * BlockSize \in Nat /\ i * z \in Nat
  BY <1>1, <1>2
<1>7. (s + b) * BlockSize \in Nat
  BY <1>5, <1>6
<1>8. r[1] + r[2] <= (s + b) * BlockSize
  BY <1>1, <1>3, <1>4, <1>5, <1>6, <1>7
<1> QED
  BY <1>1, <1>3, <1>4, <1>5, <1>8 DEF b

(* Two slots of a slab, and slots of slabs that lie apart, are apart. *)
LEMMA ObjectsApart ==
  ASSUME NEW k \in Caches, NEW s \in Nat, NEW i \in Slots(k),
         NEW j \in Caches, NEW t \in Nat, NEW n \in Slots(j),
         \/ k = j /\ s = t /\ i # n
         \/ Blocks!Disjoint(Run(k, s), Run(j, t))
  PROVE  Bytes!Disjoint(ObjectRun(k, s, i), ObjectRun(j, t, n))
<1>1. BlockSize \in Nat /\ HeaderSize \in Nat
  BY CachesAssumption
<1>2. CASE k = j /\ s = t /\ i # n
  <2> DEFINE z == slotSize(ObjectSize[k])
             at == s * BlockSize + HeaderSize
  <2>1. z \in Nat /\ at \in Nat
    BY SizeFacts, <1>1
  <2>2. i \in Nat /\ n \in Nat
    BY <1>2, SizeFacts DEF Slots
  <2>3. /\ ObjectRun(k, s, i) = <<at + (i - 1) * z, z>>
        /\ ObjectRun(j, t, n) = <<at + (n - 1) * z, z>>
    BY <1>2 DEF ObjectRun
  <2> HIDE DEF z, at
  <2>4. /\ (i - 1) * z + z = i * z /\ (n - 1) * z + z = n * z
        /\ i <= n - 1 => i * z <= (n - 1) * z
        /\ n <= i - 1 => n * z <= (i - 1) * z
    BY <2>1, <2>2
  <2>5. (i - 1) * z \in Int /\ (n - 1) * z \in Int
    BY <2>1, <2>2
  <2>6. i <= n - 1 \/ n <= i - 1
    BY <1>2, <2>2
  <2> QED
    BY <2>1, <2>3, <2>4, <2>5, <2>6 DEF Bytes!Disjoint
<1>3. CASE Blocks!Disjoint(Run(k, s), Run(j, t))
  <2>1. PICK q, r : q = ObjectRun(k, s, i) /\ r = ObjectRun(j, t, n)
    OBVIOUS
  <2>2. /\ q[1] \in Nat /\ q[2] \in Nat
        /\ s * BlockSize <= q[1] /\ q[1] + q[2] <= (s + BlocksOf[k]) * BlockSize
    BY <2>1, ObjectInSlab
  <2>3. /\ r[1] \in Nat /\ r[2] \in Nat
        /\ t * BlockSize <= r[1] /\ r[1] + r[2] <= (t + BlocksOf[j]) * BlockSize
    BY <2>1, ObjectInSlab
  <2>4. BlocksOf[k] \in Nat /\ BlocksOf[j] \in Nat
    BY SizeFacts
  <2>5. s + BlocksOf[k] <= t \/ t + BlocksOf[j] <= s
    BY <1>3 DEF Blocks!Disjoint, Run
  <2>6. \/ (s + BlocksOf[k]) * BlockSize <= t * BlockSize
        \/ (t + BlocksOf[j]) * BlockSize <= s * BlockSize
    BY <1>1, <2>4, <2>5
  <2>7. /\ (s + BlocksOf[k]) * BlockSize \in Int /\ t * BlockSize \in Int
        /\ (t + BlocksOf[j]) * BlockSize \in Int /\ s * BlockSize \in Int
    BY <1>1, <2>4
  <2>8. q[1] + q[2] <= r[1] \/ r[1] + r[2] <= q[1]
    BY <2>2, <2>3, <2>6, <2>7
  <2> QED
    BY <2>1, <2>8 DEF Bytes!Disjoint
<1> QED
  BY <1>2, <1>3

ObjectsHeldAreTaken ==
  \A r : r \in ObjectsHeld <=>
           \E k \in Caches : \E s, i : Taken(k, s, i) /\ r = ObjectRun(k, s, i)

LEMMA ObjectsHeldMember == IInv => ObjectsHeldAreTaken
<1> SUFFICES ASSUME IInv PROVE ObjectsHeldAreTaken
  OBVIOUS
<1>1. ASSUME NEW k \in Caches, NEW s \in SlabsOf(k), NEW i \in Slots(k)
      PROVE  <<s, i>> \in live <=> Taken(k, s, i)
  BY LiveMember, OneOwner DEF IInv, Taken
<1>2. \A r : r \in ObjectsHeld <=>
        \E k \in Caches : \E s \in SlabsOf(k) : \E i \in Slots(k) :
          <<s, i>> \in live /\ r = ObjectRun(k, s, i)
  <2> DEFINE OnSlab(k, s) == {ObjectRun(k, s, i) : i \in {j \in Slots(k) : <<s, j>> \in live}}
             OfCache(k)   == UNION {OnSlab(k, s) : s \in SlabsOf(k)}
  <2>1. ObjectsHeld = UNION {OfCache(k) : k \in Caches}
    BY DEF ObjectsHeld
  <2>2. \A k, s, r : r \in OnSlab(k, s) <=>
          \E i \in Slots(k) : <<s, i>> \in live /\ r = ObjectRun(k, s, i)
    OBVIOUS
  <2> HIDE DEF OnSlab
  <2>3. \A k, r : r \in OfCache(k) <=> \E s \in SlabsOf(k) : r \in OnSlab(k, s)
    OBVIOUS
  <2> HIDE DEF OfCache
  <2>4. \A r : r \in ObjectsHeld <=> \E k \in Caches : r \in OfCache(k)
    BY <2>1
  <2> QED
    BY <2>2, <2>3, <2>4
<1>3. ASSUME NEW k \in Caches, NEW s, NEW i, Taken(k, s, i)
      PROVE  s \in SlabsOf(k) /\ i \in Slots(k)
  BY <1>3 DEF Taken
<1> QED
  BY <1>1, <1>2, <1>3 DEF ObjectsHeldAreTaken

LEMMA ObjectsHeldMemberNext == IInv' => ObjectsHeldAreTaken'
  BY ObjectsHeldMember, PTL

(* A step that hands out no object gives objects back, or does nothing to  *)
(* them.                                                                   *)
LEMMA ReturnsObjects ==
  ASSUME IInv, IInv', TakesNoObject
  PROVE  Bytes!Next
<1>1. ObjectsHeld' \subseteq ObjectsHeld
  BY ObjectsHeldMember, ObjectsHeldMemberNext DEF ObjectsHeldAreTaken, TakesNoObject
<1>2. Bytes!Return(ObjectsHeld \ ObjectsHeld')
  BY <1>1 DEF Bytes!Return
<1>3. ObjectsHeld \ ObjectsHeld' \in SUBSET ObjectsHeld
  OBVIOUS
<1> QED
  BY <1>2, <1>3 DEF Bytes!Next

(* A step that hands out an object grants its bytes. *)
LEMMA GrantsObject ==
  ASSUME IInv, IInv', NEW k \in Caches, NEW s, NEW i, TakesObject(k, s, i)
  PROVE  Bytes!Next
<1> DEFINE new == ObjectRun(k, s, i)
           size == ArenaSize * BlockSize
<1>1. Taken(k, s, i)' /\ ~Taken(k, s, i)
  BY DEF TakesObject
<1>2. /\ s \in SlabsOf(k)' /\ i \in Slots(k) /\ s \in Nat /\ s + BlocksOf[k] <= ArenaSize
  BY <1>1, CachesAssumption DEF Taken, IInv, TypeOK, SlabsInArena, SlabsOf, Blocks!Arena, Slots
<1>3. /\ new[1] \in Nat /\ new[2] \in Nat \ {0} /\ new[1] + new[2] <= size /\ size \in Nat
      /\ new = <<new[1], new[2]>>
  <2>1. ArenaSize \in Nat /\ BlockSize \in Nat /\ BlocksOf[k] \in Nat
    BY CachesAssumption, SizeFacts
  <2>2. (s + BlocksOf[k]) * BlockSize <= size /\ size \in Nat
        /\ (s + BlocksOf[k]) * BlockSize \in Nat
    BY <1>2, <2>1
  <2>3. PICK r : r = new
    OBVIOUS
  <2>4. /\ r[1] \in Nat /\ r[2] \in Nat \ {0}
        /\ r[1] + r[2] <= (s + BlocksOf[k]) * BlockSize
    BY <1>2, <2>3, ObjectInSlab
  <2>5. new = <<new[1], new[2]>>
    BY DEF ObjectRun
  <2> HIDE DEF new, size
  <2> QED
    BY <2>2, <2>3, <2>4, <2>5
<1>4. ObjectsHeld' = ObjectsHeld \cup {new}
  BY ObjectsHeldMember, ObjectsHeldMemberNext DEF ObjectsHeldAreTaken, TakesObject
<1>5. \A r \in ObjectsHeld : Bytes!Disjoint(r, new)
  <2> SUFFICES ASSUME NEW r \in ObjectsHeld PROVE Bytes!Disjoint(r, new)
    OBVIOUS
  <2>10. PICK j \in Caches : \E t, n : Taken(j, t, n) /\ r = ObjectRun(j, t, n)
    BY ObjectsHeldMember DEF ObjectsHeldAreTaken
  <2>1. PICK t, n : Taken(j, t, n) /\ r = ObjectRun(j, t, n)
    BY <2>10
  <2>2. Taken(j, t, n)' /\ ~(j = k /\ t = s /\ n = i)
    BY <1>1, <2>1 DEF TakesObject
  <2>3. t \in SlabsOf(j)' /\ n \in Slots(j) /\ t \in Nat
    BY <2>2, CachesAssumption DEF Taken, IInv, TypeOK, SlabsOf, Blocks!Arena, Slots
  <2>4. (j # k \/ t # s) => Blocks!Disjoint(Run(j, t), Run(k, s))
    BY <1>2, <2>3 DEF IInv, SlabsBacked, Run, Blocks!Disjoint
  <2> QED
    BY <1>2, <2>1, <2>2, <2>3, <2>4, ObjectsApart
<1> HIDE DEF new, size
<1>6. Bytes!Grant(new[1], new[2])
  BY <1>3, <1>4, <1>5 DEF Bytes!Grant, size
<1>7. new[1] \in Bytes!Arena /\ new[2] \in 0 .. size
  BY <1>3 DEF Bytes!Arena, size
<1> QED
  BY <1>6, <1>7 DEF Bytes!Next, size

(* To its clients the slab layer is a heap of bytes that keeps the promise *)
(* of BlockHeap, as the heap of blocks below it does: no object overlaps   *)
(* another of any cache, from when it is handed out until it is given back.*)
THEOREM ImplementsHeap == Spec => ObjectPromise
<1>1. Init => Bytes!Init
  <2> SUFFICES ASSUME Init PROVE ObjectsHeld = {}
    BY DEF Bytes!Init
  <2>1. live = {}
    BY DEF Init
  <2> QED
    BY <2>1 DEF ObjectsHeld
<1>2. IInv /\ IInv' /\ [Next]_vars => [Bytes!Next]_ObjectsHeld
  BY NextInv, ReturnsObjects, GrantsObject DEF HandsOutOneAtMost
<1> QED
  BY <1>1, <1>2, Invariance, PTL DEF Spec, ObjectPromise, Bytes!Spec

=============================================================================

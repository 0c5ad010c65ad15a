-------------------------- MODULE SlabListsProofs --------------------------
(***************************************************************************)
(* Proofs about SlabLists for every set of caches, sizes and heap: the     *)
(* pointers implement the sets of SlabCache, counts agree with chains, and *)
(* objects are handed out constructed.                                     *)
(*                                                                         *)
(* A list is the least set of slabs its loop cannot leave.  No slab but    *)
(* the head's is entered from nowhere and none from two sides (Listed):    *)
(* that is what keeps a list whole when one slab is cut out of it.  What   *)
(* the lists hold and that they are disjoint is IInv of SlabCacheProofs.   *)
(***************************************************************************)
EXTENDS SlabLists, Lemmas

Abs == INSTANCE SlabCacheProofs WITH
         partial <- Partial, full <- Full, empty <- Empty, slots <- Chained, linked <- Linked

ListNames == {"partial", "full", "empty"}

(* What ends a list: null, or the slabs shrink left on it.                 *)
Ends(k, l) == IF l = "empty" /\ stale[k] # {} THEN stale[k] ELSE {NULL}

(* The loops from head along word meet the slabs of G, each once, and then *)
(* one of ends.                                                            *)
Listed(head, word, ends, G) ==
  /\ G \in SUBSET Arena /\ G \cap ends = {}
  /\ head \in G \cup ends
  /\ \A s \in G : word[s] \in G \cup ends /\ word[s] # head
  /\ \A s, t \in G : word[s] = word[t] => s = t
  /\ \A C \in SUBSET G :
       (head \in G => head \in C) /\ (\A s \in C : word[s] \in G => word[s] \in C) => C = G

-----------------------------------------------------------------------------
(* Lists. *)

(* Where the loops stop does not matter, as long as it is at the end.      *)
LEMMA ListedReach ==
  ASSUME NEW head, NEW word, NEW ends, NEW G, Listed(head, word, ends, G),
         NEW stop, G \cap stop = {}, ends \cap (Arena \ stop) = {}
  PROVE  Reach(head, word, stop) = G
<1>1. Closed(G, head, word, stop)
  BY DEF Listed, Closed
<1>2. ASSUME NEW C \in SUBSET Arena, Closed(C, head, word, stop)
      PROVE  G \subseteq C
  <2>1. C \cap G \in SUBSET G
    OBVIOUS
  <2>2. head \in G => head \in C \cap G
    BY <1>2 DEF Closed, Listed
  <2>3. \A s \in C \cap G : word[s] \in G => word[s] \in C \cap G
    BY <1>2 DEF Closed, Listed
  <2>4. C \cap G = G
    BY <2>1, <2>2, <2>3 DEF Listed
  <2> QED
    BY <2>4
<1>3. ASSUME NEW s \in G PROVE s \in Reach(head, word, stop)
  <2>1. s \in Arena
    BY DEF Listed
  <2>2. ASSUME NEW S \in SUBSET (Arena \ {s}) PROVE ~Closed(S, head, word, stop)
    BY <1>2
  <2> QED
    BY <2>1, <2>2 DEF Reach
<1>4. ASSUME NEW s \in Reach(head, word, stop) PROVE s \in G
  <2>1. s \in Arena
    BY DEF Reach
  <2>2. s \notin G => G \in SUBSET (Arena \ {s})
    BY DEF Listed
  <2> QED
    BY <1>1, <1>4, <2>2 DEF Reach
<1> QED
  BY <1>3, <1>4

(* A list of other slabs is not touched by what is written into the words  *)
(* of slabs that are not on it.                                            *)
LEMMA ListedKept ==
  ASSUME NEW head, NEW word, NEW ends, NEW G, Listed(head, word, ends, G),
         NEW word2, \A s \in G : word2[s] = word[s]
  PROVE  Listed(head, word2, ends, G)
  BY DEF Listed

(* A slab is put in front. *)
LEMMA ListedPushed ==
  ASSUME NEW head, NEW word, NEW ends, NEW G, Listed(head, word, ends, G),
         NEW s \in Arena \ (G \cup ends),
         NEW word2, word2[s] = head, \A t \in G : word2[t] = word[t]
  PROVE  Listed(s, word2, ends, G \cup {s})
<1> DEFINE H == G \cup {s}
<1>1. H \in SUBSET Arena /\ H \cap ends = {} /\ s \in H \cup ends
  BY DEF Listed
<1>2. \A t \in H : word2[t] \in H \cup ends /\ word2[t] # s
  BY DEF Listed
<1>3. \A t, u \in H : word2[t] = word2[u] => t = u
  BY DEF Listed
<1>4. ASSUME NEW C \in SUBSET H, s \in C, \A t \in C : word2[t] \in H => word2[t] \in C
      PROVE  C = H
  <2>1. head \in G => head \in C \ {s}
    BY <1>4
  <2>2. \A t \in C \ {s} : word[t] \in G => word[t] \in C \ {s}
    BY <1>4
  <2>3. C \ {s} \in SUBSET G
    OBVIOUS
  <2>4. C \ {s} = G
    BY <2>1, <2>2, <2>3 DEF Listed
  <2> QED
    BY <1>4, <2>4
<1> QED
  BY <1>1, <1>2, <1>3, <1>4 DEF Listed

(* The head is taken off. *)
LEMMA ListedPopped ==
  ASSUME NEW head, NEW word, NEW ends, NEW G, Listed(head, word, ends, G), head \in G,
         NEW word2, \A t \in G \ {head} : word2[t] = word[t]
  PROVE  Listed(word[head], word2, ends, G \ {head})
<1> DEFINE H == G \ {head}
           h == word[head]
<1>1. H \in SUBSET Arena /\ H \cap ends = {} /\ h \in H \cup ends
  BY DEF Listed
<1>2. \A t \in H : word2[t] \in H \cup ends /\ word2[t] # h
  BY DEF Listed
<1>3. \A t, u \in H : word2[t] = word2[u] => t = u
  BY DEF Listed
<1>4. ASSUME NEW C \in SUBSET H, h \in H => h \in C,
             \A t \in C : word2[t] \in H => word2[t] \in C
      PROVE  C = H
  <2>1. \A t \in C \cup {head} : word[t] \in G => word[t] \in C \cup {head}
    BY <1>4 DEF Listed
  <2>2. C \cup {head} \in SUBSET G
    OBVIOUS
  <2>3. C \cup {head} = G
    BY <2>1, <2>2 DEF Listed
  <2> QED
    BY <1>4, <2>3
<1> QED
  BY <1>1, <1>2, <1>3, <1>4 DEF Listed

(* A slab that is not the head is not its own successor. *)
LEMMA ListedNoLoop ==
  ASSUME NEW head, NEW word, NEW ends, NEW G, Listed(head, word, ends, G),
         NEW s \in G, s # head
  PROVE  word[s] # s
<1> SUFFICES ASSUME word[s] = s PROVE FALSE
  OBVIOUS
<1>1. \A t \in G \ {s} : word[t] \in G => word[t] \in G \ {s}
  BY DEF Listed
<1>2. G \ {s} \in SUBSET G /\ (head \in G => head \in G \ {s})
  OBVIOUS
<1>3. G \ {s} = G
  BY <1>1, <1>2 DEF Listed
<1> QED
  BY <1>3

(* A slab behind prev is unlinked. *)
LEMMA ListedUnlinked ==
  ASSUME NEW head, NEW word, NEW ends, NEW G, Listed(head, word, ends, G),
         NEW s \in G, s # head, NEW prev \in G, word[prev] = s,
         NEW word2, word2[prev] = word[s], \A t \in G \ {s, prev} : word2[t] = word[t]
  PROVE  Listed(head, word2, ends, G \ {s})
<1> DEFINE H == G \ {s}
<1>1. prev # s
  BY ListedNoLoop
<1>2. H \in SUBSET Arena /\ H \cap ends = {} /\ head \in H \cup ends
  BY DEF Listed
<1>3. ASSUME NEW t \in H PROVE word2[t] \in H \cup ends /\ word2[t] # head
  <2>1. CASE t = prev
    BY <1>1, <2>1 DEF Listed
  <2>2. CASE t # prev
    BY <2>2 DEF Listed
  <2> QED
    BY <2>1, <2>2
<1>4. ASSUME NEW t \in H, NEW u \in H, word2[t] = word2[u] PROVE t = u
  <2>1. CASE t = prev \/ u = prev
    BY <1>4, <2>1 DEF Listed
  <2>2. CASE t # prev /\ u # prev
    BY <1>4, <2>2 DEF Listed
  <2> QED
    BY <2>1, <2>2
<1>5. ASSUME NEW C \in SUBSET H, head \in H => head \in C,
             \A t \in C : word2[t] \in H => word2[t] \in C
      PROVE  C = H
  <2>1. head \in G => head \in C
    BY <1>5
  <2>2. prev \in C
    <3> SUFFICES ASSUME prev \notin C PROVE FALSE
      OBVIOUS
    <3>1. ASSUME NEW t \in C, word[t] \in G PROVE word[t] \in C
      <4>1. t \in G /\ t # s /\ t # prev
        BY <1>5
      <4>2. word[t] # s /\ word2[t] = word[t]
        BY <4>1 DEF Listed
      <4> QED
        BY <1>5, <3>1, <4>2
    <3>2. C \in SUBSET G
      OBVIOUS
    <3>3. C = G
      BY <2>1, <3>1, <3>2 DEF Listed
    <3> QED
      BY <3>3
  <2>3. ASSUME NEW t \in C \cup {s}, word[t] \in G PROVE word[t] \in C \cup {s}
    <3>1. CASE t = s
      <4>1. word2[prev] \in H
        BY <1>1, <1>3, <2>3, <3>1 DEF Listed
      <4> QED
        BY <1>5, <2>2, <3>1, <4>1
    <3>2. CASE t = prev
      BY <3>2
    <3>3. CASE t # s /\ t # prev
      BY <1>5, <2>3, <3>3
    <3> QED
      BY <3>1, <3>2, <3>3
  <2>4. C \cup {s} \in SUBSET G
    OBVIOUS
  <2>5. C \cup {s} = G
    BY <2>1, <2>3, <2>4 DEF Listed
  <2> QED
    BY <1>5, <2>5
<1> QED
  BY <1>2, <1>3, <1>4, <1>5 DEF Listed

LEMMA ListedNothing ==
  ASSUME NEW head, NEW word, NEW ends, head \in ends
  PROVE  Listed(head, word, ends, {})
  BY DEF Listed

(* A list is empty when its head is at an end. *)
LEMMA ListedHead ==
  ASSUME NEW head, NEW word, NEW ends, NEW G, Listed(head, word, ends, G)
  PROVE  head \in ends <=> G = {}
<1>1. head \in ends => G = {}
  <2> SUFFICES ASSUME head \in ends PROVE G = {}
    OBVIOUS
  <2>1. head \notin G /\ {} \in SUBSET G
    BY DEF Listed
  <2> QED
    BY <2>1 DEF Listed
<1> QED
  BY <1>1 DEF Listed
-----------------------------------------------------------------------------
(* The invariant. *)

PointersTyped ==
  /\ list \in [Caches -> [ListNames -> Arena \cup {NULL}]]
  /\ next \in [Arena -> Arena \cup {NULL}]
  /\ headCache \in Seq(Caches) /\ IsInjective(headCache)

(* Each slot is once on the chain, and counted. *)
ChainsCounted ==
  /\ chain \in [Arena -> Seq(Nat)] /\ numFree \in [Arena -> Nat]
  /\ \A s \in Arena : IsInjective(chain[s]) /\ numFree[s] = Len(chain[s])

ListsWhole ==
  \A k \in Caches : \A l \in ListNames : Listed(list[k][l], next, Ends(k, l), On(k, l))

(* Slots are constructed from when their slab is made, held or not. *)
BuiltButLast ==
  \A k \in Ctor \ Dtor : \A s \in SlabsOf(k) : \A i \in 1 .. SlotsOf[k] - 1 : <<s, i>> \in built

PointersWhole == PointersTyped /\ ChainsCounted /\ ListsWhole /\ BuiltButLast

IInv ==
  /\ PointersTyped
  /\ ChainsCounted
  /\ ListsWhole
  /\ BuiltButLast
  /\ Abs!IInv

-----------------------------------------------------------------------------
(* SlabCache over the same constants. *)

LEMMA AbsSizes ==
  /\ Abs!SlotsOf = SlotsOf /\ Abs!BlocksOf = SC!BlocksOf /\ Abs!ReturnedOf = SC!ReturnedOf
  /\ Abs!Blocks!Arena = Arena /\ Abs!Arena = Arena
  /\ \A k : Abs!Slots(k) = 1 .. SlotsOf[k]
  BY DEF SlotsOf, Abs!SlotsOf, SC!SlotsOf, Abs!BlocksOf, SC!BlocksOf, Abs!ReturnedOf, SC!ReturnedOf,
         Abs!Slots, Abs!Arena, Abs!Blocks!Arena, Arena,
         Abs!granted, SC!granted, Abs!number, SC!number, Abs!returned, SC!returned,
         Abs!totalNumOfFreeSlots, SC!totalNumOfFreeSlots, Abs!totalSizeOfSlab, SC!totalSizeOfSlab,
         Abs!slotSize, SC!slotSize, Abs!Power2, SC!Power2

(* What the proofs about SlabCache assume. *)
LEMMA AbsAssumed ==
  /\ Buffers \subseteq Caches
  /\ ObjectSize \in [Caches -> Nat \ {0}]
  /\ BlockSize \in Nat \ {0} /\ HeaderSize \in Nat /\ FreeSlotSize \in Nat
  /\ ArenaSize \in Nat \ {0}
  /\ \A k \in Caches : /\ Abs!number(ObjectSize[k]) <= Abs!Power2[30]
                       /\ Abs!totalSizeOfSlab(ObjectSize[k]) <= Abs!INT_MAX
<1>1. Abs!Power2 = Power2 /\ Abs!INT_MAX = INT_MAX
  BY DEF Abs!Power2, Power2, Abs!INT_MAX, INT_MAX
<1>2. \A k \in Caches : /\ Abs!number(ObjectSize[k]) = number(ObjectSize[k])
                         /\ Abs!totalSizeOfSlab(ObjectSize[k]) = totalSizeOfSlab(ObjectSize[k])
  BY <1>1 DEF Abs!number, number, Abs!slotSize, slotSize, Abs!granted, granted,
              Abs!totalSizeOfSlab, totalSizeOfSlab
<1> QED
  BY <1>1, <1>2, CachesAssumption, LengthsAssumption

LEMMA SizeFacts ==
  ASSUME NEW k \in Caches
  PROVE  SlotsOf[k] \in Nat \ {0} /\ SC!BlocksOf[k] \in Nat \ {0}
  BY AbsAssumed, AbsSizes, Abs!SizeFacts

(* The lists are apart, whoever they belong to. *)
LEMMA OnFacts ==
  ASSUME IInv
  PROVE  /\ \A k \in Caches : \A l \in ListNames :
              /\ On(k, l) \in SUBSET Arena /\ On(k, l) \cap stale[k] = {}
              /\ Listed(list[k][l], next, Ends(k, l), On(k, l))
         /\ \A k \in Caches : Abs!SlabsOf(k) = SlabsOf(k)
         /\ \A k, j \in Caches : \A l, m \in ListNames :
              k # j \/ l # m => On(k, l) \cap On(j, m) = {}
<1>1. \A k \in Caches : \A l \in ListNames : /\ On(k, l) \in SUBSET Arena
                                              /\ Listed(list[k][l], next, Ends(k, l), On(k, l))
  BY DEF IInv, ListsWhole, Listed
<1>2. \A k \in Caches : \A l \in ListNames : On(k, l) \cap stale[k] = {}
  <2> SUFFICES ASSUME NEW k \in Caches PROVE \A l \in ListNames : On(k, l) \cap stale[k] = {}
    OBVIOUS
  <2>1. On(k, "partial") \cap stale[k] = {} /\ On(k, "full") \cap stale[k] = {}
    BY DEF IInv, Abs!IInv, Abs!StaleApart, Partial, Full, Empty
  <2>2. On(k, "empty") \cap stale[k] = {}
    BY DEF IInv, ListsWhole, Listed, Ends, ListNames
  <2> QED
    BY <2>1, <2>2 DEF ListNames
<1>3. \A k \in Caches : Abs!SlabsOf(k) = SlabsOf(k)
  BY <1>2 DEF Abs!SlabsOf, SlabsOf, ListNames, Partial, Full, Empty
<1>4. ASSUME NEW k \in Caches, NEW j \in Caches, k # j, NEW l \in ListNames, NEW m \in ListNames
      PROVE  On(k, l) \cap On(j, m) = {}
  <2>1. On(k, l) \subseteq SlabsOf(k) /\ On(j, m) \subseteq SlabsOf(j)
    BY DEF SlabsOf, ListNames
  <2>2. \A s \in Abs!SlabsOf(k) : s \notin Abs!SlabsOf(j)
    BY <1>4, AbsAssumed, Abs!OneOwner DEF IInv, Abs!IInv
  <2> QED
    BY <1>3, <2>1, <2>2
<1>5. ASSUME NEW k \in Caches, NEW l \in ListNames, NEW m \in ListNames, l # m
      PROVE  On(k, l) \cap On(k, m) = {}
  <2>1. 1 .. SlotsOf[k] # {}
    BY SizeFacts
  <2>2. /\ \A s \in On(k, "partial") : Range(chain[s]) \notin {{}, 1 .. SlotsOf[k]}
        /\ \A s \in On(k, "full") : Range(chain[s]) = {}
        /\ \A s \in On(k, "empty") : Range(chain[s]) = 1 .. SlotsOf[k]
    BY <1>1, <1>2, AbsSizes DEF IInv, Abs!IInv, Abs!ListsMatchSlots, ListNames, Partial, Full, Empty, Chained
  <2>3. /\ On(k, "partial") \cap On(k, "full") = {}
        /\ On(k, "partial") \cap On(k, "empty") = {}
        /\ On(k, "full") \cap On(k, "empty") = {}
    BY <2>1, <2>2
  <2>4. CASE l = "partial"
    BY <1>5, <2>3, <2>4 DEF ListNames
  <2>5. CASE l = "full"
    BY <1>5, <2>3, <2>5 DEF ListNames
  <2>6. CASE l = "empty"
    BY <1>5, <2>3, <2>6 DEF ListNames
  <2> QED
    BY <2>4, <2>5, <2>6 DEF ListNames
<1> QED
  BY <1>1, <1>2, <1>3, <1>4, <1>5

(* Heads and words that keep the sets of after, do so after a step. *)
LEMMA ListsAfter ==
  ASSUME NEW after,
         \A k \in Caches : \A l \in ListNames :
           /\ Listed(list'[k][l], next', Ends(k, l)', after[k][l])
           /\ after[k][l] \cap stale'[k] = {}
  PROVE  ListsWhole' /\ \A k \in Caches : \A l \in ListNames : On(k, l)' = after[k][l]
<1>1. ASSUME NEW k \in Caches, NEW l \in ListNames
      PROVE  On(k, l)' = after[k][l]
  <2>1. Ends(k, l)' \subseteq stale'[k] \cup {NULL}
    BY DEF Ends
  <2>2. Ends(k, l)' \cap (Arena \ stale'[k]) = {}
    BY <2>1, PointersAssumption
  <2> HIDE DEF Ends
  <2>3. Reach(list'[k][l], next', stale'[k]) = after[k][l]
    BY <2>2, ListedReach
  <2> QED
    BY <2>3 DEF On
<1>2. ListsWhole'
  BY <1>1 DEF ListsWhole
<1> QED
  BY <1>1, <1>2

(* What a move of slab s of cache k from one list to another leaves. *)
Moved(k, s, from, to) ==
  [j \in Caches |-> [l \in ListNames |->
     IF j = k /\ l = from THEN On(j, l) \ {s}
     ELSE IF j = k /\ l = to THEN On(j, l) \cup {s}
     ELSE On(j, l)]]

LEMMA MoveHeadMoves ==
  ASSUME IInv, NEW k \in Caches, NEW from \in ListNames, NEW to \in ListNames, from # to,
         NEW s \in On(k, from), list[k][from] = s,
         MoveHead(k, s, from, to), stale' = stale
  PROVE  /\ list' \in [Caches -> [ListNames -> Arena \cup {NULL}]]
         /\ next' \in [Arena -> Arena \cup {NULL}]
         /\ \A j \in Caches : \A l \in ListNames :
              Listed(list'[j][l], next', Ends(j, l), Moved(k, s, from, to)[j][l])
<1>1. /\ list \in [Caches -> [ListNames -> Arena \cup {NULL}]]
      /\ next \in [Arena -> Arena \cup {NULL}]
  BY DEF IInv, PointersTyped
<1>2. s \in Arena /\ s \notin stale[k] /\ s # NULL
  BY OnFacts, PointersAssumption
<1>3. /\ list' \in [Caches -> [ListNames -> Arena \cup {NULL}]]
      /\ list'[k][from] = next[s] /\ list'[k][to] = s
      /\ \A j \in Caches : \A l \in ListNames :
           j # k \/ l \notin {from, to} => list'[j][l] = list[j][l]
  BY <1>1, <1>2 DEF MoveHead
<1>4. /\ next' \in [Arena -> Arena \cup {NULL}]
      /\ next'[s] = list[k][to]
      /\ \A t \in Arena \ {s} : next'[t] = next[t]
  BY <1>1, <1>2 DEF MoveHead
<1>5. Listed(next[s], next', Ends(k, from), On(k, from) \ {s})
  <2>1. Listed(s, next, Ends(k, from), On(k, from))
    BY OnFacts
  <2>2. \A t \in On(k, from) \ {s} : next'[t] = next[t]
    BY <1>4, OnFacts
  <2> QED
    BY <2>1, <2>2, ListedPopped
<1>6. Listed(s, next', Ends(k, to), On(k, to) \cup {s})
  <2>1. s \notin On(k, to)
    BY OnFacts
  <2>2. s \notin Ends(k, to)
    BY <1>2 DEF Ends
  <2>3. Listed(list[k][to], next, Ends(k, to), On(k, to)) /\ On(k, to) \subseteq Arena
    BY OnFacts
  <2>4. \A t \in On(k, to) : next'[t] = next[t]
    BY <1>4, <2>1, <2>3
  <2> QED
    BY <1>2, <1>4, <2>1, <2>2, <2>3, <2>4, ListedPushed
<1>7. ASSUME NEW j \in Caches, NEW l \in ListNames, j # k \/ l \notin {from, to}
      PROVE  Listed(list'[j][l], next', Ends(j, l), On(j, l))
  <2>1. s \notin On(j, l) /\ On(j, l) \subseteq Arena
    BY <1>7, OnFacts
  <2>2. \A t \in On(j, l) : next'[t] = next[t]
    BY <1>4, <2>1
  <2>3. Listed(list[j][l], next, Ends(j, l), On(j, l))
    BY OnFacts
  <2> QED
    BY <1>3, <1>7, <2>2, <2>3, ListedKept
<1> QED
  BY <1>3, <1>4, <1>5, <1>6, <1>7 DEF Moved

LEMMA MoveMoves ==
  ASSUME IInv, NEW k \in Caches, NEW from \in ListNames, NEW to \in ListNames, from # to,
         NEW s \in On(k, from),
         Move(k, s, from, to), stale' = stale
  PROVE  /\ list' \in [Caches -> [ListNames -> Arena \cup {NULL}]]
         /\ next' \in [Arena -> Arena \cup {NULL}]
         /\ \A j \in Caches : \A l \in ListNames :
              Listed(list'[j][l], next', Ends(j, l), Moved(k, s, from, to)[j][l])
<1>1. CASE list[k][from] = s
  BY <1>1, MoveHeadMoves DEF Move
<1>2. CASE list[k][from] # s
  <2>1. /\ list \in [Caches -> [ListNames -> Arena \cup {NULL}]]
        /\ next \in [Arena -> Arena \cup {NULL}]
    BY DEF IInv, PointersTyped
  <2>2. s \in Arena /\ s \notin stale[k] /\ s # NULL
    BY OnFacts, PointersAssumption
  <2>3. PICK prev \in On(k, from) :
          /\ next[prev] = s
          /\ next' = [next EXCEPT ![prev] = next[s], ![s] = list[k][to]]
    BY <1>2 DEF Move
  <2>4. prev \in Arena /\ prev # s
    <3>1. prev \in Arena /\ Listed(list[k][from], next, Ends(k, from), On(k, from))
      BY OnFacts
    <3>2. prev # s
      BY <1>2, <2>3, <3>1, ListedNoLoop
    <3> QED
      BY <3>1, <3>2
  <2>5. /\ list' \in [Caches -> [ListNames -> Arena \cup {NULL}]]
        /\ list'[k][to] = s
        /\ \A j \in Caches : \A l \in ListNames : j # k \/ l # to => list'[j][l] = list[j][l]
    BY <1>2, <2>1, <2>2 DEF Move
  <2>6. /\ next' \in [Arena -> Arena \cup {NULL}]
        /\ next'[s] = list[k][to] /\ next'[prev] = next[s]
        /\ \A t \in Arena \ {s, prev} : next'[t] = next[t]
    BY <2>1, <2>2, <2>3, <2>4
  <2>7. Listed(list'[k][from], next', Ends(k, from), On(k, from) \ {s})
    <3>1. Listed(list[k][from], next, Ends(k, from), On(k, from)) /\ On(k, from) \subseteq Arena
      BY OnFacts
    <3>2. \A t \in On(k, from) \ {s, prev} : next'[t] = next[t]
      BY <2>6, <3>1
    <3>3. Listed(list[k][from], next', Ends(k, from), On(k, from) \ {s})
      <4> DEFINE G == On(k, from)
      <4>1. /\ s \in G /\ prev \in G /\ s # list[k][from] /\ next[prev] = s
            /\ next'[prev] = next[s] /\ \A t \in G \ {s, prev} : next'[t] = next[t]
            /\ Listed(list[k][from], next, Ends(k, from), G)
        BY <1>2, <2>3, <2>6, <3>1, <3>2
      <4> HIDE DEF G
      <4>2. Listed(list[k][from], next', Ends(k, from), G \ {s})
        BY <4>1, ListedUnlinked
      <4> QED
        BY <4>2 DEF G
    <3> QED
      BY <2>5, <3>3
  <2>8. Listed(s, next', Ends(k, to), On(k, to) \cup {s})
    <3>1. s \notin On(k, to) /\ prev \notin On(k, to)
      BY OnFacts
    <3>2. s \notin Ends(k, to)
      BY <2>2 DEF Ends
    <3>3. Listed(list[k][to], next, Ends(k, to), On(k, to)) /\ On(k, to) \subseteq Arena
      BY OnFacts
    <3>4. \A t \in On(k, to) : next'[t] = next[t]
      BY <2>6, <3>1, <3>3
    <3> QED
      BY <2>2, <2>6, <3>1, <3>2, <3>3, <3>4, ListedPushed
  <2>9. ASSUME NEW j \in Caches, NEW l \in ListNames, j # k \/ l \notin {from, to}
        PROVE  Listed(list'[j][l], next', Ends(j, l), On(j, l))
    <3>1. s \notin On(j, l) /\ prev \notin On(j, l) /\ On(j, l) \subseteq Arena
      BY <2>9, OnFacts
    <3>2. \A t \in On(j, l) : next'[t] = next[t]
      BY <2>6, <3>1
    <3>3. Listed(list[j][l], next, Ends(j, l), On(j, l))
      BY OnFacts
    <3> QED
      BY <2>5, <2>9, <3>2, <3>3, ListedKept
  <2> QED
    BY <2>5, <2>6, <2>7, <2>8, <2>9 DEF Moved
<1> QED
  BY <1>1, <1>2

LEMMA AfterMove ==
  ASSUME IInv, NEW k \in Caches, NEW from \in ListNames, NEW to \in ListNames, from # to,
         NEW s \in On(k, from), Move(k, s, from, to), stale' = stale
  PROVE  /\ list' \in [Caches -> [ListNames -> Arena \cup {NULL}]]
         /\ next' \in [Arena -> Arena \cup {NULL}]
         /\ ListsWhole'
         /\ \A j \in Caches : \A l \in ListNames : On(j, l)' = Moved(k, s, from, to)[j][l]
<1> DEFINE after == Moved(k, s, from, to)
<1>1. /\ list' \in [Caches -> [ListNames -> Arena \cup {NULL}]]
      /\ next' \in [Arena -> Arena \cup {NULL}]
      /\ \A j \in Caches : \A l \in ListNames : Listed(list'[j][l], next', Ends(j, l), after[j][l])
  BY MoveMoves
<1>2. \A j \in Caches : \A l \in ListNames : after[j][l] \cap stale'[j] = {}
  BY OnFacts DEF Moved
<1>3. \A j \in Caches : \A l \in ListNames : Ends(j, l)' = Ends(j, l)
  BY DEF Ends
<1> HIDE DEF after
<1>4. ListsWhole' /\ \A j \in Caches : \A l \in ListNames : On(j, l)' = after[j][l]
  BY <1>1, <1>2, <1>3, ListsAfter
<1> QED
  BY <1>1, <1>4 DEF after

LEMMA ListsStay ==
  ASSUME IInv, UNCHANGED <<list, next, stale>>
  PROVE  /\ list' \in [Caches -> [ListNames -> Arena \cup {NULL}]]
         /\ next' \in [Arena -> Arena \cup {NULL}]
         /\ ListsWhole'
         /\ \A j \in Caches : \A l \in ListNames : On(j, l)' = On(j, l)
  BY DEF IInv, PointersTyped, ListsWhole, On, Ends

-----------------------------------------------------------------------------
(* Slots. *)

LEMMA RangeIsToSet == \A q : Range(q) = ToSet(q)
  BY DEF Range, ToSet

(* getFreeSlot. *)
LEMMA SlotTaken ==
  ASSUME IInv, NEW s \in Arena, chain[s] # <<>>, GetFreeSlot(s)
  PROVE  /\ ChainsCounted'
         /\ Head(chain[s]) \in Range(chain[s])
         /\ Chained' = [Chained EXCEPT ![s] = @ \ {Head(chain[s])}]
         /\ numFree[s] = 1 <=> Range(chain[s]) = {Head(chain[s])}
<1> DEFINE q == chain[s]
<1>1. /\ chain \in [Arena -> Seq(Nat)] /\ numFree \in [Arena -> Nat]
      /\ \A t \in Arena : IsInjective(chain[t]) /\ numFree[t] = Len(chain[t])
  BY DEF IInv, ChainsCounted
<1>2. q \in Seq(Nat) /\ q # <<>> /\ IsInjective(q) /\ numFree[s] = Len(q)
  BY <1>1
<1> HIDE DEF q
<1>3. /\ Head(q) \in ToSet(q) /\ Tail(q) \in Seq(Nat) /\ Len(Tail(q)) = Len(q) - 1
      /\ ToSet(q) = ToSet(Tail(q)) \cup {Head(q)}
      /\ IsInjective(Tail(q)) /\ Head(q) \notin ToSet(Tail(q))
  BY <1>2, TakenFromQueue
<1>4. Len(q) \in Nat /\ Len(Tail(q)) \in Nat
  BY <1>2, <1>3, LenProperties
<1>5. chain' = [chain EXCEPT ![s] = Tail(q)] /\ numFree' = [numFree EXCEPT ![s] = @ - 1]
  BY DEF GetFreeSlot, q
<1>6. ChainsCounted'
  BY <1>1, <1>2, <1>3, <1>4, <1>5 DEF ChainsCounted
<1>7. Len(q) = 1 <=> ToSet(q) = {Head(q)}
  <2>1. Len(Tail(q)) = 0 <=> Tail(q) = <<>>
    BY <1>3, EmptySeq
  <2>2. Tail(q) = <<>> <=> ToSet(Tail(q)) = {}
    BY <1>3, QueueMembers
  <2> QED
    BY <1>3, <1>4, <2>1, <2>2
<1>8. \A t \in Arena : Range(chain'[t]) = IF t = s THEN Range(q) \ {Head(q)} ELSE Range(chain[t])
  BY <1>1, <1>3, <1>5, RangeIsToSet
<1> QED
  BY <1>2, <1>3, <1>6, <1>7, <1>8, RangeIsToSet DEF q, Chained

(* returnFreeSlot. *)
LEMMA SlotGiven ==
  ASSUME IInv, NEW k, NEW o, o[1] \in Arena, o[2] \in Nat, o[2] \notin Range(chain[o[1]]),
         ReturnFreeSlot(k, o),
         NEW n \in Nat, Range(chain[o[1]]) \cup {o[2]} \subseteq 1 .. n
  PROVE  /\ ChainsCounted'
         /\ Chained' = [Chained EXCEPT ![o[1]] = @ \cup {o[2]}]
         /\ numFree[o[1]] + 1 = n <=> Range(chain[o[1]]) \cup {o[2]} = 1 .. n
<1> DEFINE s == o[1]
           i == o[2]
           q == chain[s]
           r == <<i>> \o q
<1>1. /\ chain \in [Arena -> Seq(Nat)] /\ numFree \in [Arena -> Nat]
      /\ \A t \in Arena : IsInjective(chain[t]) /\ numFree[t] = Len(chain[t])
  BY DEF IInv, ChainsCounted
<1>2. /\ q \in Seq(Nat) /\ IsInjective(q) /\ numFree[s] = Len(q)
      /\ i \in Nat /\ i \notin ToSet(q) /\ s \in Arena
      /\ ToSet(q) \cup {i} \subseteq 1 .. n
  BY <1>1, RangeIsToSet
<1>3. chain' = [chain EXCEPT ![s] = r] /\ numFree' = [numFree EXCEPT ![s] = @ + 1]
  BY DEF ReturnFreeSlot
<1> HIDE DEF s, i, q
<1>4. /\ r \in Seq(Nat) /\ ToSet(r) = ToSet(q) \cup {i} /\ IsInjective(r)
      /\ Len(r) = Len(q) + 1
  BY <1>2, PutInFront
<1> HIDE DEF r
<1>5. Len(r) \in Nat /\ Len(q) \in Nat
  BY <1>2, <1>4, LenProperties
<1>6. Len(r) = n <=> ToSet(r) = 1 .. n
  BY <1>2, <1>4, QueueOfAll
<1>7. ChainsCounted'
  <2>1. chain' \in [Arena -> Seq(Nat)] /\ numFree' \in [Arena -> Nat]
    BY <1>1, <1>2, <1>3, <1>4, <1>5
  <2>2. ASSUME NEW t \in Arena PROVE IsInjective(chain'[t]) /\ numFree'[t] = Len(chain'[t])
    <3>1. CASE t = s
      BY <1>1, <1>2, <1>3, <1>4, <3>1
    <3>2. CASE t # s
      BY <1>1, <1>3, <3>2
    <3> QED
      BY <3>1, <3>2
  <2> QED
    BY <2>1, <2>2 DEF ChainsCounted
<1>8. \A t \in Arena : Range(chain'[t]) = IF t = s THEN Range(q) \cup {i} ELSE Range(chain[t])
  BY <1>1, <1>3, <1>4, RangeIsToSet
<1>9. Chained' = [Chained EXCEPT ![s] = @ \cup {i}]
  BY <1>2, <1>8 DEF q, Chained
<1>10. numFree[s] + 1 = n <=> Range(q) \cup {i} = 1 .. n
  BY <1>2, <1>4, <1>6, RangeIsToSet
<1> QED
  BY <1>7, <1>9, <1>10 DEF s, i, q

-----------------------------------------------------------------------------
(* Each step is a step of SlabCache. *)

(* What IInv of SlabCache says of the lists and slots here. *)
LEMMA SlabFacts ==
  ASSUME IInv, NEW k \in Caches
  PROVE  /\ \A l \in ListNames : \A s \in On(k, l) : s \in Arena /\ s \in Abs!SlabsOf(k)
         /\ \A s \in On(k, "partial") : /\ Range(chain[s]) \subseteq 1 .. SlotsOf[k]
                                        /\ Range(chain[s]) \notin {{}, 1 .. SlotsOf[k]}
         /\ \A s \in On(k, "full") : Range(chain[s]) = {}
         /\ \A s \in On(k, "empty") : Range(chain[s]) = 1 .. SlotsOf[k]
         /\ \A s \in Arena : Range(chain[s]) = {} <=> chain[s] = <<>>
<1>1. \A l \in ListNames : \A s \in On(k, l) : s \in Arena /\ s \in Abs!SlabsOf(k)
  BY OnFacts DEF SlabsOf, ListNames
<1>2. /\ \A s \in On(k, "partial") : /\ Range(chain[s]) \subseteq 1 .. SlotsOf[k]
                                     /\ Range(chain[s]) \notin {{}, 1 .. SlotsOf[k]}
      /\ \A s \in On(k, "full") : Range(chain[s]) = {}
      /\ \A s \in On(k, "empty") : Range(chain[s]) = 1 .. SlotsOf[k]
  BY <1>1, OnFacts, AbsSizes
     DEF IInv, Abs!IInv, Abs!ListsMatchSlots, ListNames, Partial, Full, Empty, Chained
<1>3. \A s \in Arena : Range(chain[s]) = {} <=> chain[s] = <<>>
  BY QueueMembers, RangeIsToSet DEF IInv, ChainsCounted
<1> QED
  BY <1>1, <1>2, <1>3

(* The lists are empty when SlabCache says so. *)
LEMMA HeadFacts ==
  ASSUME IInv, NEW k \in Caches
  PROVE  /\ list[k].partial = NULL <=> Partial[k] = {}
         /\ list[k].partial # NULL => list[k].partial \in On(k, "partial")
         /\ list[k].empty = NULL <=> Empty[k] = {}
         /\ list[k].empty # NULL /\ list[k].empty \notin stale[k] => list[k].empty \in On(k, "empty")
         /\ list[k].empty \in stale[k] => Empty[k] # {} /\ Empty[k] = stale[k]
         /\ Empty[k] = stale[k] /\ stale[k] # {} => list[k].empty \in stale[k]
         /\ list[k].full = NULL <=> Full[k] = {}
<1>1. /\ Listed(list[k]["partial"], next, {NULL}, On(k, "partial"))
      /\ Listed(list[k]["empty"], next, Ends(k, "empty"), On(k, "empty"))
      /\ Listed(list[k]["full"], next, {NULL}, On(k, "full"))
  BY OnFacts DEF Ends, ListNames
<1>2. /\ NULL \notin On(k, "partial") /\ NULL \notin On(k, "empty") /\ NULL \notin stale[k]
      /\ NULL \notin On(k, "full") /\ On(k, "empty") \cap stale[k] = {}
  <2>1. stale[k] \subseteq Arena
    BY AbsSizes DEF IInv, Abs!IInv, Abs!TypeOK
  <2> QED
    BY <2>1, OnFacts, PointersAssumption DEF ListNames
<1>3. list[k]["partial"] = NULL <=> On(k, "partial") = {}
  BY <1>1, ListedHead
<1>4. list[k]["partial"] # NULL => list[k]["partial"] \in On(k, "partial")
  BY <1>1 DEF Listed
<1>5. list[k]["empty"] \in Ends(k, "empty") <=> On(k, "empty") = {}
  BY <1>1, ListedHead
<1>6. list[k]["empty"] \in On(k, "empty") \cup Ends(k, "empty")
  BY <1>1 DEF Listed
<1>7. Ends(k, "empty") = IF stale[k] # {} THEN stale[k] ELSE {NULL}
  BY DEF Ends
<1>8. /\ Partial[k] = On(k, "partial") /\ Empty[k] = On(k, "empty") \cup stale[k]
      /\ Full[k] = On(k, "full")
  BY DEF Partial, Empty, Full
<1>9. list[k]["full"] = NULL <=> On(k, "full") = {}
  BY <1>1, <1>2, ListedHead
<1>10. Empty[k] = stale[k] /\ stale[k] # {} => list[k]["empty"] \in stale[k]
  BY <1>2, <1>5, <1>7, <1>8
<1> QED
  BY <1>2, <1>3, <1>4, <1>5, <1>6, <1>7, <1>8, <1>9, <1>10

(* Slots stay constructed while slabs only leave. *)
LEMMA BuiltStays ==
  ASSUME IInv, \A j \in Caches : SlabsOf(j)' \subseteq SlabsOf(j),
         \A j \in Ctor \ Dtor : \A s \in SlabsOf(j)' : \A i : <<s, i>> \in built => <<s, i>> \in built'
  PROVE  BuiltButLast'
  BY PointersAssumption DEF IInv, BuiltButLast

(* The sets after a move. *)
LEMMA MovedSets ==
  ASSUME IInv, NEW k \in Caches, NEW from \in ListNames, NEW to \in ListNames, from # to,
         NEW s \in On(k, from), UNCHANGED stale,
         \A j \in Caches : \A l \in ListNames : On(j, l)' = Moved(k, s, from, to)[j][l]
  PROVE  /\ from = "partial" => Partial' = [Partial EXCEPT ![k] = @ \ {s}]
         /\ from = "full" => Full' = [Full EXCEPT ![k] = @ \ {s}]
         /\ from = "empty" => Empty' = [Empty EXCEPT ![k] = @ \ {s}]
         /\ to = "partial" => Partial' = [Partial EXCEPT ![k] = @ \cup {s}]
         /\ to = "full" => Full' = [Full EXCEPT ![k] = @ \cup {s}]
         /\ to = "empty" => Empty' = [Empty EXCEPT ![k] = @ \cup {s}]
         /\ "partial" \notin {from, to} => Partial' = Partial
         /\ "full" \notin {from, to} => Full' = Full
         /\ "empty" \notin {from, to} => Empty' = Empty
         /\ \A j \in Caches : SlabsOf(j)' = SlabsOf(j)
<1>1. s \notin stale[k]
  BY OnFacts
<1>2. \A j \in Caches : On(j, "partial")' = Moved(k, s, from, to)[j]["partial"]
  BY DEF ListNames
<1>3. \A j \in Caches : On(j, "full")' = Moved(k, s, from, to)[j]["full"]
  BY DEF ListNames
<1>4. \A j \in Caches : On(j, "empty")' = Moved(k, s, from, to)[j]["empty"]
  BY DEF ListNames
<1>5. /\ from = "partial" => Partial' = [Partial EXCEPT ![k] = @ \ {s}]
      /\ to = "partial" => Partial' = [Partial EXCEPT ![k] = @ \cup {s}]
      /\ "partial" \notin {from, to} => Partial' = Partial
  BY <1>2 DEF Partial, Moved, ListNames
<1>6. /\ from = "full" => Full' = [Full EXCEPT ![k] = @ \ {s}]
      /\ to = "full" => Full' = [Full EXCEPT ![k] = @ \cup {s}]
      /\ "full" \notin {from, to} => Full' = Full
  BY <1>3 DEF Full, Moved, ListNames
<1>7. /\ from = "empty" => Empty' = [Empty EXCEPT ![k] = @ \ {s}]
      /\ to = "empty" => Empty' = [Empty EXCEPT ![k] = @ \cup {s}]
      /\ "empty" \notin {from, to} => Empty' = Empty
  BY <1>1, <1>4 DEF Empty, Moved, ListNames
<1>8. ASSUME NEW j \in Caches PROVE SlabsOf(j)' = SlabsOf(j)
  <2>1. SlabsOf(j)' = UNION {Moved(k, s, from, to)[j][l] : l \in ListNames}
    BY <1>2, <1>3, <1>4 DEF SlabsOf, ListNames
  <2>2. SlabsOf(j) = UNION {On(j, l) : l \in ListNames}
    BY DEF SlabsOf, ListNames
  <2> QED
    BY <2>1, <2>2 DEF Moved
<1> QED
  BY <1>5, <1>6, <1>7, <1>8

LEMMA StaySets ==
  ASSUME IInv, UNCHANGED <<list, next, stale>>
  PROVE  /\ Partial' = Partial /\ Full' = Full /\ Empty' = Empty
         /\ \A j \in Caches : SlabsOf(j)' = SlabsOf(j)
  BY ListsStay DEF Partial, Full, Empty, SlabsOf, ListNames

LEMMA AllocPartialKeeps ==
  ASSUME IInv, NEW k \in Caches, AllocPartial(k)
  PROVE  PointersWhole' /\ Abs!AllocPartial(k)
<1> DEFINE s == list[k].partial
           i == Head(chain[s])
<1>1. /\ fault = "none" /\ Usable(k) /\ s # NULL /\ GetFreeSlot(s)
      /\ IF numFree[s] = 1 THEN MoveHead(k, s, "partial", "full") ELSE UNCHANGED <<list, next>>
      /\ UNCHANGED <<headCache, held, created, grown, error, built, stale, fault>>
  BY DEF AllocPartial
<1>2. s \in On(k, "partial") /\ s \in Partial[k] /\ s \in Arena
  BY <1>1, HeadFacts, SlabFacts DEF Partial, ListNames
<1>3. /\ ChainsCounted' /\ i \in Range(chain[s])
      /\ Chained' = [Chained EXCEPT ![s] = @ \ {i}]
      /\ numFree[s] = 1 <=> Range(chain[s]) = {i}
  <2>1. chain[s] # <<>>
    BY <1>2, SlabFacts
  <2> QED
    BY <1>1, <1>2, <2>1, SlotTaken
<1>4. i \in Abs!Slots(k) /\ i \in Chained[s] /\ Chained[s] = Range(chain[s])
  BY <1>2, <1>3, SlabFacts, AbsSizes DEF Chained
<1>5. live' = live \cup {<<s, i>>}
  BY <1>1 DEF GetFreeSlot
<1>6. Linked' = Linked /\ Abs!Usable(k)
  BY <1>1 DEF Linked, Usable, Abs!Usable
<1> HIDE DEF s, i
<1>7. /\ PointersTyped' /\ ListsWhole'
      /\ \A j \in Caches : SlabsOf(j)' = SlabsOf(j)
      /\ IF Chained[s] = {i}
         THEN /\ Partial' = [Partial EXCEPT ![k] = @ \ {s}]
              /\ Full'    = [Full EXCEPT ![k] = @ \cup {s}]
         ELSE UNCHANGED <<Partial, Full>>
      /\ Empty' = Empty
  <2>1. CASE numFree[s] = 1
    <3>1. Move(k, s, "partial", "full")
      BY <1>1, <2>1 DEF Move, s
    <3>2. /\ list' \in [Caches -> [ListNames -> Arena \cup {NULL}]]
          /\ next' \in [Arena -> Arena \cup {NULL}]
          /\ ListsWhole'
          /\ \A j \in Caches : \A l \in ListNames : On(j, l)' = Moved(k, s, "partial", "full")[j][l]
      BY <1>1, <1>2, <3>1, AfterMove DEF ListNames
    <3>3. /\ Partial' = [Partial EXCEPT ![k] = @ \ {s}]
          /\ Full' = [Full EXCEPT ![k] = @ \cup {s}] /\ Empty' = Empty
          /\ \A j \in Caches : SlabsOf(j)' = SlabsOf(j)
      BY <1>1, <1>2, <3>2, MovedSets DEF ListNames
    <3> QED
      BY <1>1, <1>3, <1>4, <2>1, <3>2, <3>3 DEF PointersTyped, IInv
  <2>2. CASE numFree[s] # 1
    BY <1>1, <1>3, <1>4, <2>2, ListsStay, StaySets DEF PointersTyped, IInv
  <2> QED
    BY <2>1, <2>2
<1>8. BuiltButLast'
  BY <1>1, <1>7, BuiltStays
<1>9. Abs!AllocPartial(k)
  BY <1>1, <1>2, <1>3, <1>4, <1>5, <1>6, <1>7 DEF Abs!AllocPartial
<1> QED
  BY <1>3, <1>7, <1>8, <1>9 DEF PointersWhole

LEMMA AllocEmptyKeeps ==
  ASSUME IInv, NEW k \in Caches, AllocEmpty(k)
  PROVE  PointersWhole' /\ Abs!AllocEmpty(k)
<1> DEFINE s == list[k].empty
           i == Head(chain[s])
           to == IF numFree[s] = 1 THEN "full" ELSE "partial"
<1>1. /\ fault = "none" /\ Usable(k)
      /\ list[k].partial = NULL /\ s # NULL /\ s \notin stale[k]
      /\ GetFreeSlot(s) /\ MoveHead(k, s, "empty", to)
      /\ UNCHANGED <<headCache, held, created, grown, error, built, stale, fault>>
  BY DEF AllocEmpty
<1>2. s \in On(k, "empty") /\ s \in Empty[k] \ stale[k] /\ s \in Arena /\ Partial[k] = {}
  BY <1>1, HeadFacts, SlabFacts DEF Empty, ListNames
<1>3. /\ ChainsCounted' /\ i \in Range(chain[s])
      /\ Chained' = [Chained EXCEPT ![s] = @ \ {i}]
      /\ numFree[s] = 1 <=> Range(chain[s]) = {i}
  <2>1. Range(chain[s]) = 1 .. SlotsOf[k] /\ 1 \in 1 .. SlotsOf[k]
    BY <1>2, SlabFacts, SizeFacts
  <2>2. chain[s] # <<>>
    BY <1>2, <2>1, SlabFacts
  <2> QED
    BY <1>1, <1>2, <2>2, SlotTaken
<1>4. i \in Abs!Slots(k) /\ i \in Chained[s] /\ Chained[s] = Range(chain[s])
  BY <1>2, <1>3, SlabFacts, AbsSizes DEF Chained
<1>5. live' = live \cup {<<s, i>>}
  BY <1>1 DEF GetFreeSlot
<1>6. Linked' = Linked /\ Abs!Usable(k)
  BY <1>1 DEF Linked, Usable, Abs!Usable
<1>7. to \in ListNames /\ to # "empty" /\ "empty" \in ListNames
  BY DEF ListNames
<1>8. Move(k, s, "empty", to)
  BY <1>1 DEF Move
<1> HIDE DEF s, i, to
<1>9. /\ list' \in [Caches -> [ListNames -> Arena \cup {NULL}]]
      /\ next' \in [Arena -> Arena \cup {NULL}]
      /\ ListsWhole'
      /\ \A j \in Caches : \A l \in ListNames : On(j, l)' = Moved(k, s, "empty", to)[j][l]
  BY <1>1, <1>2, <1>7, <1>8, AfterMove
<1>10. /\ Empty' = [Empty EXCEPT ![k] = @ \ {s}]
       /\ to = "partial" => Partial' = [Partial EXCEPT ![k] = @ \cup {s}] /\ Full' = Full
       /\ to = "full" => Full' = [Full EXCEPT ![k] = @ \cup {s}] /\ Partial' = Partial
       /\ \A j \in Caches : SlabsOf(j)' = SlabsOf(j)
  BY <1>1, <1>2, <1>7, <1>9, MovedSets
<1>11. BuiltButLast'
  BY <1>1, <1>10, BuiltStays
<1>12. IF Chained[s] = {i} THEN to = "full" ELSE to = "partial"
  BY <1>3, <1>4 DEF to
<1>13. Abs!AllocEmpty(k)
  BY <1>1, <1>2, <1>3, <1>4, <1>5, <1>6, <1>10, <1>12 DEF Abs!AllocEmpty
<1>14. PointersTyped'
  BY <1>1, <1>9 DEF PointersTyped, IInv
<1> QED
  BY <1>3, <1>9, <1>11, <1>13, <1>14 DEF PointersWhole

(* An object a client holds on a slab of k is a slot of it, and not on the *)
(* chain.                                                                  *)
LEMMA HeldObject ==
  ASSUME IInv, NEW k \in Caches, NEW o \in live, o[1] \in SlabsOf(k)
  PROVE  o = <<o[1], o[2]>> /\ o[2] \in (1 .. SlotsOf[k]) \ Range(chain[o[1]])
<1>1. PICK j \in Caches : \E s, i : Abs!Taken(j, s, i) /\ o = <<s, i>>
  BY AbsAssumed, Abs!LiveMember DEF IInv, Abs!IInv
<1>2. PICK s, i : Abs!Taken(j, s, i) /\ o = <<s, i>>
  BY <1>1
<1>3. s \in Abs!SlabsOf(j) /\ i \in Abs!Slots(j) \ Chained[s] /\ s = o[1] /\ i = o[2]
  BY <1>2 DEF Abs!Taken
<1>4. s \in Abs!SlabsOf(k) /\ s \in Arena
  BY <1>3, OnFacts DEF SlabsOf, ListNames
<1>5. j = k
  BY <1>3, <1>4, AbsAssumed, Abs!OneOwner DEF IInv, Abs!IInv
<1> QED
  BY <1>2, <1>3, <1>4, <1>5, AbsSizes DEF Chained

(* A freed object loses its construction only to a destructor.             *)
LEMMA FreedStaysBuilt ==
  ASSUME IInv, NEW k \in Caches, NEW o \in live, o[1] \in SlabsOf(k), ReturnFreeSlot(k, o),
         \A j \in Caches : SlabsOf(j)' = SlabsOf(j)
  PROVE  BuiltButLast'
<1>1. ASSUME NEW j \in Ctor \ Dtor, NEW t \in SlabsOf(j), NEW i, <<t, i>> \in built
      PROVE  <<t, i>> \in built'
  <2>1. built' = IF k \in Dtor THEN built \ {o} ELSE built
    BY DEF ReturnFreeSlot
  <2>2. CASE k = j
    BY <1>1, <2>1, <2>2
  <2>3. CASE k # j
    <3>1. \A l, m \in ListNames : On(k, l) \cap On(j, m) = {}
      BY <2>3, OnFacts, PointersAssumption
    <3>2. SlabsOf(k) \cap SlabsOf(j) = {}
      BY <3>1 DEF SlabsOf, ListNames
    <3>3. o = <<o[1], o[2]>>
      BY HeldObject
    <3>4. <<t, i>> # o
      BY <3>2, <3>3
    <3> QED
      BY <1>1, <2>1, <3>4
  <2> QED
    BY <2>2, <2>3
<1>2. \A j \in Ctor \ Dtor : SlabsOf(j)' = SlabsOf(j)
  BY PointersAssumption
<1> QED
  BY <1>1, <1>2, BuiltStays

LEMMA FreePartialKeeps ==
  ASSUME IInv, NEW k \in Caches, NEW o \in live, FreePartial(k, o)
  PROVE  PointersWhole' /\ Abs!FreePartial(k, o)
<1> DEFINE s == o[1]
<1>1. /\ fault = "none" /\ k \in Linked
      /\ s \in On(k, "partial")
      /\ ReturnFreeSlot(k, o)
      /\ IF numFree[s] + 1 = SlotsOf[k]
         THEN Move(k, s, "partial", "empty")
         ELSE UNCHANGED <<list, next>>
      /\ UNCHANGED <<headCache, held, created, grown, error, stale, fault>>
  BY DEF FreePartial
<1>2. s \in Partial[k] /\ s \in SlabsOf(k) /\ s \in Arena
  BY <1>1, SlabFacts DEF Partial, SlabsOf, ListNames
<1>3. o[2] \in 1 .. SlotsOf[k] /\ o[2] \notin Range(chain[s]) /\ o[2] \in Nat /\ SlotsOf[k] \in Nat
  BY <1>2, HeldObject, SizeFacts
<1>4. /\ ChainsCounted'
      /\ Chained' = [Chained EXCEPT ![s] = @ \cup {o[2]}]
      /\ numFree[s] + 1 = SlotsOf[k] <=> Range(chain[s]) \cup {o[2]} = 1 .. SlotsOf[k]
  <2>1. Range(chain[s]) \cup {o[2]} \subseteq 1 .. SlotsOf[k]
    BY <1>1, <1>3, SlabFacts
  <2> QED
    BY <1>1, <1>2, <1>3, <2>1, SlotGiven
<1>5. Abs!ReturnSlot(k, o) /\ (Abs!AllFree(k, o) <=> numFree[s] + 1 = SlotsOf[k])
  <2>1. live' = live \ {o}
    BY <1>1 DEF ReturnFreeSlot
  <2> QED
    BY <1>2, <1>4, <2>1, AbsSizes DEF Abs!ReturnSlot, Abs!AllFree, Chained
<1>6. Linked' = Linked
  BY <1>1 DEF Linked
<1> HIDE DEF s
<1>7. /\ PointersTyped' /\ ListsWhole'
      /\ \A j \in Caches : SlabsOf(j)' = SlabsOf(j)
      /\ IF Abs!AllFree(k, o)
         THEN /\ Partial' = [Partial EXCEPT ![k] = @ \ {s}]
              /\ Empty'   = [Empty EXCEPT ![k] = @ \cup {s}]
         ELSE UNCHANGED <<Partial, Empty>>
      /\ Full' = Full
  <2>1. CASE numFree[s] + 1 = SlotsOf[k]
    <3>1. Move(k, s, "partial", "empty")
      BY <1>1, <2>1
    <3>2. /\ list' \in [Caches -> [ListNames -> Arena \cup {NULL}]]
          /\ next' \in [Arena -> Arena \cup {NULL}]
          /\ ListsWhole'
          /\ \A j \in Caches : \A l \in ListNames : On(j, l)' = Moved(k, s, "partial", "empty")[j][l]
      BY <1>1, <1>2, <3>1, AfterMove DEF ListNames
    <3>3. /\ Partial' = [Partial EXCEPT ![k] = @ \ {s}]
          /\ Empty' = [Empty EXCEPT ![k] = @ \cup {s}] /\ Full' = Full
          /\ \A j \in Caches : SlabsOf(j)' = SlabsOf(j)
      BY <1>1, <1>2, <3>2, MovedSets DEF ListNames
    <3> QED
      BY <1>1, <1>5, <2>1, <3>2, <3>3 DEF PointersTyped, IInv
  <2>2. CASE numFree[s] + 1 # SlotsOf[k]
    BY <1>1, <1>5, <2>2, ListsStay, StaySets DEF PointersTyped, IInv
  <2> QED
    BY <2>1, <2>2
<1>8. BuiltButLast'
  BY <1>1, <1>2, <1>7, FreedStaysBuilt DEF s
<1>9. Abs!FreePartial(k, o)
  BY <1>1, <1>2, <1>5, <1>6, <1>7 DEF Abs!FreePartial, s
<1> QED
  BY <1>4, <1>7, <1>8, <1>9 DEF PointersWhole

LEMMA FreeFullKeeps ==
  ASSUME IInv, NEW k \in Caches, NEW o \in live, FreeFull(k, o)
  PROVE  PointersWhole' /\ Abs!FreeFull(k, o)
<1> DEFINE s == o[1]
           to == IF numFree[s] + 1 = SlotsOf[k] THEN "empty" ELSE "partial"
<1>1. /\ fault = "none" /\ k \in Linked
      /\ s \notin On(k, "partial") /\ s \in On(k, "full")
      /\ ReturnFreeSlot(k, o)
      /\ Move(k, s, "full", to)
      /\ UNCHANGED <<headCache, held, created, grown, error, stale, fault>>
  BY DEF FreeFull
<1>2. s \in Full[k] /\ s \notin Partial[k] /\ s \in SlabsOf(k) /\ s \in Arena
  BY <1>1, SlabFacts DEF Full, Partial, SlabsOf, ListNames
<1>3. o[2] \in 1 .. SlotsOf[k] /\ o[2] \notin Range(chain[s]) /\ o[2] \in Nat /\ SlotsOf[k] \in Nat
  BY <1>2, HeldObject, SizeFacts
<1>4. /\ ChainsCounted'
      /\ Chained' = [Chained EXCEPT ![s] = @ \cup {o[2]}]
      /\ numFree[s] + 1 = SlotsOf[k] <=> Range(chain[s]) \cup {o[2]} = 1 .. SlotsOf[k]
  <2>1. Range(chain[s]) \cup {o[2]} \subseteq 1 .. SlotsOf[k]
    BY <1>1, <1>3, SlabFacts
  <2> QED
    BY <1>1, <1>2, <1>3, <2>1, SlotGiven
<1>5. Abs!ReturnSlot(k, o) /\ (Abs!AllFree(k, o) <=> to = "empty")
  <2>1. live' = live \ {o}
    BY <1>1 DEF ReturnFreeSlot
  <2> QED
    BY <1>2, <1>4, <2>1, AbsSizes DEF Abs!ReturnSlot, Abs!AllFree, Chained
<1>6. Linked' = Linked
  BY <1>1 DEF Linked
<1>7. to \in {"empty", "partial"} /\ to \in ListNames /\ "full" \in ListNames /\ to # "full"
  BY DEF ListNames
<1> HIDE DEF s, to
<1>8. /\ list' \in [Caches -> [ListNames -> Arena \cup {NULL}]]
      /\ next' \in [Arena -> Arena \cup {NULL}]
      /\ ListsWhole'
      /\ \A j \in Caches : \A l \in ListNames : On(j, l)' = Moved(k, s, "full", to)[j][l]
  BY <1>1, <1>7, AfterMove
<1>9. /\ Full' = [Full EXCEPT ![k] = @ \ {s}]
      /\ to = "empty" => Empty' = [Empty EXCEPT ![k] = @ \cup {s}] /\ Partial' = Partial
      /\ to = "partial" => Partial' = [Partial EXCEPT ![k] = @ \cup {s}] /\ Empty' = Empty
      /\ \A j \in Caches : SlabsOf(j)' = SlabsOf(j)
  BY <1>1, <1>7, <1>8, MovedSets
<1>10. BuiltButLast'
  BY <1>1, <1>2, <1>9, FreedStaysBuilt DEF s
<1>11. Abs!FreeFull(k, o)
  BY <1>1, <1>2, <1>5, <1>6, <1>7, <1>9 DEF Abs!FreeFull, s
<1>12. PointersTyped'
  BY <1>1, <1>8 DEF PointersTyped, IInv
<1> QED
  BY <1>4, <1>8, <1>10, <1>11, <1>12 DEF PointersWhole

(* The constructor puts a new descriptor in front of headCache.            *)
LEMMA EnsureKeeps ==
  ASSUME IInv, NEW k \in Caches, EnsureCreated(k), k \in created => k \in Linked
  PROVE  /\ Abs!EnsureCreated(k)
         /\ headCache' \in Seq(Caches) /\ IsInjective(headCache')
<1>1. /\ headCache \in Seq(Caches) /\ IsInjective(headCache)
      /\ Linked = ToSet(headCache) /\ Linked' = ToSet(headCache')
      /\ Linked \subseteq created
  BY RangeIsToSet DEF IInv, PointersTyped, Abs!IInv, Abs!TypeOK, Linked
<1>2. CASE k \in created
  BY <1>1, <1>2 DEF EnsureCreated, Abs!EnsureCreated
<1>3. CASE k \notin created
  <2>1. created' = created \cup {k} /\ headCache' = <<k>> \o headCache
    BY <1>3 DEF EnsureCreated
  <2>2. k \notin ToSet(headCache)
    BY <1>1, <1>3
  <2>3. /\ headCache' \in Seq(Caches) /\ IsInjective(headCache')
        /\ ToSet(headCache') = ToSet(headCache) \cup {k}
    BY <1>1, <2>1, <2>2, PutInFront
  <2> QED
    BY <1>1, <2>1, <2>3 DEF Abs!EnsureCreated
<1> QED
  BY <1>2, <1>3

(* Only descriptors change.                                                *)
LEMMA SlabsStay ==
  ASSUME IInv, UNCHANGED <<list, next, chain, numFree, built, stale>>,
         headCache' \in Seq(Caches) /\ IsInjective(headCache')
  PROVE  PointersWhole' /\ UNCHANGED <<Partial, Full, Empty, Chained>>
<1>1. UNCHANGED <<Partial, Full, Empty, Chained>>
  BY StaySets DEF Chained
<1>2. PointersTyped' /\ ListsWhole'
  BY ListsStay DEF PointersTyped
<1>3. ChainsCounted'
  BY DEF ChainsCounted, IInv
<1>4. BuiltButLast'
  BY StaySets, BuiltStays
<1> QED
  BY <1>1, <1>2, <1>3, <1>4 DEF PointersWhole

LEMMA CreateKeeps ==
  ASSUME IInv, NEW k \in Caches, Create(k)
  PROVE  PointersWhole' /\ Abs!Create(k)
<1>1. /\ fault = "none" /\ k \notin Buffers /\ k \notin created /\ EnsureCreated(k)
      /\ UNCHANGED <<list, next, chain, numFree, held, grown, error, live, built, stale, fault>>
  BY DEF Create
<1>2. /\ Abs!EnsureCreated(k)
      /\ headCache' \in Seq(Caches) /\ IsInjective(headCache')
  BY <1>1, EnsureKeeps
<1>3. PointersWhole' /\ UNCHANGED <<Partial, Full, Empty, Chained>>
  BY <1>1, <1>2, SlabsStay
<1> QED
  BY <1>1, <1>2, <1>3 DEF Abs!Create, Abs!EnsureCreated

LEMMA AllocFailKeeps ==
  ASSUME IInv, NEW k \in Caches, AllocFail(k)
  PROVE  PointersWhole' /\ Abs!AllocFail(k)
<1>1. /\ fault = "none" /\ Usable(k)
      /\ list[k].partial = NULL /\ list[k].empty = NULL
      /\ EnsureCreated(k)
      /\ error' = error \cup {k}
      /\ UNCHANGED <<list, next, chain, numFree, held, grown, live, built, stale, fault>>
  BY DEF AllocFail
<1>2. Partial[k] = {} /\ Empty[k] = {}
  BY <1>1, HeadFacts
<1>3. /\ Abs!EnsureCreated(k)
      /\ headCache' \in Seq(Caches) /\ IsInjective(headCache')
  BY <1>1, EnsureKeeps DEF Usable
<1>4. PointersWhole' /\ UNCHANGED <<Partial, Full, Empty, Chained>>
  BY <1>1, <1>3, SlabsStay
<1>5. Abs!Usable(k)
  BY <1>1 DEF Usable, Abs!Usable
<1> QED
  BY <1>1, <1>2, <1>3, <1>4, <1>5 DEF Abs!AllocFail

LEMMA ShrinkSkippedKeeps ==
  ASSUME IInv, NEW k \in Caches, ShrinkSkipped(k)
  PROVE  PointersWhole' /\ Abs!ShrinkSkipped(k)
<1>1. /\ fault = "none" /\ k \in Linked \ Buffers /\ grown[k]
      /\ grown' = [grown EXCEPT ![k] = FALSE]
      /\ UNCHANGED <<list, next, chain, numFree, headCache, held, created, error,
                     live, built, stale, fault>>
  BY DEF ShrinkSkipped
<1>2. headCache' \in Seq(Caches) /\ IsInjective(headCache')
  BY <1>1 DEF IInv, PointersTyped
<1>3. PointersWhole' /\ UNCHANGED <<Partial, Full, Empty, Chained>>
  BY <1>1, <1>2, SlabsStay
<1>4. Linked' = Linked
  BY <1>1 DEF Linked
<1> QED
  BY <1>1, <1>3, <1>4 DEF Abs!ShrinkSkipped

LEMMA HaltKeeps ==
  ASSUME IInv, NEW k \in Caches,
         AllocStale(k) \/ ShrinkStale(k) \/ DestroyStale(k) \/ InfoNull(k) \/ InfoStale(k)
  PROVE  /\ PointersWhole'
         /\ \/ Abs!AllocStale(k) \/ Abs!ShrinkStale(k) \/ Abs!DestroyStale(k)
            \/ Abs!InfoNull(k) \/ Abs!InfoStale(k)
<1>1. UNCHANGED <<list, next, chain, numFree, headCache, held, created, grown, error,
                  live, built, stale>>
  BY DEF AllocStale, ShrinkStale, DestroyStale, InfoNull, InfoStale, Halt
<1>2. headCache' \in Seq(Caches) /\ IsInjective(headCache')
  BY <1>1 DEF IInv, PointersTyped
<1>3. PointersWhole' /\ UNCHANGED <<Partial, Full, Empty, Chained>>
  BY <1>1, <1>2, SlabsStay
<1>4. Linked' = Linked
  BY <1>1 DEF Linked
<1>5. CASE AllocStale(k)
  <2>1. /\ Usable(k) /\ list[k].partial = NULL /\ list[k].empty \in stale[k]
        /\ fault = "none" /\ fault' = "stale"
    BY <1>5 DEF AllocStale, Halt
  <2>2. Partial[k] = {} /\ Empty[k] # {} /\ Empty[k] = stale[k]
    BY <2>1, HeadFacts
  <2>3. Abs!Usable(k)
    BY <2>1 DEF Usable, Abs!Usable
  <2>4. Abs!AllocStale(k)
    BY <1>1, <1>3, <1>4, <2>1, <2>2, <2>3 DEF Abs!AllocStale
  <2> QED
    BY <1>3, <2>4
<1>6. CASE ShrinkStale(k)
  BY <1>1, <1>3, <1>4, <1>6 DEF ShrinkStale, Halt, Abs!ShrinkStale
<1>7. CASE DestroyStale(k)
  BY <1>1, <1>3, <1>4, <1>7 DEF DestroyStale, Halt, Abs!DestroyStale
<1>8. /\ Partial[k] = {} <=> list[k].partial = NULL
      /\ Abs!ReadsStaleFirst(k) <=> ReadsStaleFirst(k)
  BY HeadFacts DEF ReadsStaleFirst, Abs!ReadsStaleFirst
<1>9. CASE InfoNull(k)
  BY <1>1, <1>3, <1>4, <1>8, <1>9 DEF InfoNull, Halt, Abs!InfoNull
<1>10. CASE InfoStale(k)
  BY <1>1, <1>3, <1>4, <1>8, <1>10 DEF InfoStale, Halt, Abs!InfoStale
<1> QED
  BY <1>5, <1>6, <1>7, <1>9, <1>10

(* The memory the heap grants for a slab is no slab of any cache.          *)
LEMMA NoSlabGranted ==
  ASSUME IInv, NEW k \in Caches, NEW s \in Arena, SC!Blocks!Grant(s, SC!BlocksOf[k])
  PROVE  \A j \in Caches : s \notin Abs!SlabsOf(j) /\ \A l \in ListNames : s \notin On(j, l)
<1>1. ASSUME NEW j \in Caches, s \in Abs!SlabsOf(j) PROVE FALSE
  <2>1. Abs!Run(j, s) \in held
    BY <1>1, AbsAssumed, Abs!HeldMember DEF IInv, Abs!IInv, Abs!SlabsBacked
  <2>2. Abs!Run(j, s) = <<s, SC!BlocksOf[j]>>
    BY AbsSizes DEF Abs!Run
  <2>3. SC!Blocks!Disjoint(<<s, SC!BlocksOf[j]>>, <<s, SC!BlocksOf[k]>>)
    BY <2>1, <2>2 DEF SC!Blocks!Grant
  <2>4. SC!BlocksOf[j] \in Nat \ {0} /\ SC!BlocksOf[k] \in Nat \ {0} /\ s \in Nat
    BY SizeFacts, CachesAssumption DEF Arena
  <2> QED
    BY <2>3, <2>4 DEF SC!Blocks!Disjoint
<1> QED
  BY <1>1, SlabFacts

(* The chain of a slab that has just been laid out: slots 2 to n.          *)
LEMMA ChainLaidOut ==
  ASSUME NEW n \in Nat \ {0}
  PROVE  LET q == [i \in 1 .. n - 1 |-> i + 1]
         IN  q \in Seq(Nat) /\ Len(q) = n - 1 /\ IsInjective(q) /\ Range(q) = (1 .. n) \ {1}
<1> DEFINE q == [i \in 1 .. n - 1 |-> i + 1]
<1>1. n - 1 \in Nat /\ \A i \in 1 .. n - 1 : i + 1 \in Nat
  OBVIOUS
<1>2. q \in Seq(Nat) /\ Len(q) = n - 1
  BY <1>1, IsASeq
<1>3. IsInjective(q)
  BY DEF IsInjective
<1>4. ASSUME NEW x PROVE x \in Range(q) <=> x \in (1 .. n) \ {1}
  <2>1. x \in Range(q) <=> \E i \in 1 .. n - 1 : x = i + 1
    BY DEF Range
  <2>2. x \in (1 .. n) \ {1} => x - 1 \in 1 .. n - 1 /\ x = (x - 1) + 1
    OBVIOUS
  <2>3. \A i \in 1 .. n - 1 : i + 1 \in (1 .. n) \ {1}
    OBVIOUS
  <2> QED
    BY <2>1, <2>2, <2>3
<1> QED
  BY <1>2, <1>3, <1>4

(* What a new slab s of cache k leaves.                                    *)
Grown(k, s, to) ==
  [j \in Caches |-> [l \in ListNames |-> IF j = k /\ l = to THEN On(j, l) \cup {s} ELSE On(j, l)]]

LEMMA AllocGrowKeeps ==
  ASSUME IInv, NEW k \in Caches, AllocGrow(k)
  PROVE  PointersWhole' /\ Abs!AllocGrow(k)
<1> DEFINE n  == SlotsOf[k]
           to == IF n = 1 THEN "full" ELSE "partial"
           q  == [i \in 1 .. n - 1 |-> i + 1]
<1>1. /\ fault = "none" /\ Usable(k)
      /\ list[k].partial = NULL /\ list[k].empty = NULL
      /\ EnsureCreated(k)
      /\ grown' = [grown EXCEPT ![k] = TRUE]
      /\ UNCHANGED <<error, stale, fault>>
  BY DEF AllocGrow
<1>2. PICK s \in Arena :
        /\ SC!Blocks!Grant(s, SC!BlocksOf[k])
        /\ numFree' = [numFree EXCEPT ![s] = n - 1]
        /\ chain'   = [chain EXCEPT ![s] = q]
        /\ live'    = live \cup {<<s, 1>>}
        /\ built'   = built \cup Constructed(k, s)
        /\ IF n = 1
           THEN /\ next' = [next EXCEPT ![s] = list[k].full]
                /\ list' = [list EXCEPT ![k].full = s]
           ELSE /\ next' = [next EXCEPT ![s] = NULL]
                /\ list' = [list EXCEPT ![k].partial = s]
  BY DEF AllocGrow
<1>3. /\ list \in [Caches -> [ListNames -> Arena \cup {NULL}]]
      /\ next \in [Arena -> Arena \cup {NULL}]
      /\ chain \in [Arena -> Seq(Nat)] /\ numFree \in [Arena -> Nat]
      /\ \A t \in Arena : IsInjective(chain[t]) /\ numFree[t] = Len(chain[t])
  BY DEF IInv, PointersTyped, ChainsCounted
<1>4. n \in Nat \ {0} /\ q \in Seq(Nat) /\ Len(q) = n - 1 /\ IsInjective(q) /\ Range(q) = (1 .. n) \ {1}
  BY SizeFacts, ChainLaidOut
<1> HIDE DEF q
<1>5. Partial[k] = {} /\ Empty[k] = {} /\ On(k, "partial") = {}
  BY <1>1, HeadFacts DEF Partial
<1>6. \A j \in Caches : s \notin Abs!SlabsOf(j) /\ \A l \in ListNames : s \notin On(j, l)
  BY <1>2, NoSlabGranted
<1>7. to \in ListNames /\ to \in {"partial", "full"}
  BY DEF ListNames
<1>8. /\ next' = [next EXCEPT ![s] = list[k][to]]
      /\ list' = [list EXCEPT ![k][to] = s]
  <2>1. CASE n = 1
    BY <1>2, <2>1
  <2>2. CASE n # 1
    BY <1>1, <1>2, <2>2
  <2> QED
    BY <2>1, <2>2
<1>9. n = 1 <=> to = "full"
  OBVIOUS
<1> HIDE DEF to, n
<1>10. /\ list' \in [Caches -> [ListNames -> Arena \cup {NULL}]]
       /\ next' \in [Arena -> Arena \cup {NULL}]
  BY <1>3, <1>7, <1>8
<1> DEFINE after == Grown(k, s, to)
<1>11. ASSUME NEW j \in Caches, NEW l \in ListNames
       PROVE  /\ Listed(list'[j][l], next', Ends(j, l), after[j][l])
              /\ after[j][l] \cap stale'[j] = {}
  <2>1. /\ Listed(list[j][l], next, Ends(j, l), On(j, l))
        /\ On(j, l) \subseteq Arena /\ On(j, l) \cap stale[j] = {} /\ s \notin On(j, l)
    BY <1>6, OnFacts
  <2>2. \A t \in On(j, l) : next'[t] = next[t]
    BY <1>3, <1>8, <2>1
  <2>3. CASE j = k /\ l = to
    <3>1. stale[k] = {}
      BY <1>5 DEF Empty
    <3>2. s \notin Ends(k, to)
      BY <1>7, PointersAssumption DEF Ends
    <3>3. next'[s] = list[k][to] /\ list'[j][l] = s
      BY <1>3, <1>7, <1>8, <2>3
    <3>4. Listed(s, next', Ends(j, l), On(j, l) \cup {s})
      BY <2>1, <2>2, <2>3, <3>2, <3>3, ListedPushed
    <3>5. after[j][l] = On(j, l) \cup {s}
      BY <2>3 DEF Grown
    <3> QED
      BY <1>1, <2>1, <2>3, <3>1, <3>3, <3>4, <3>5
  <2>4. CASE j # k \/ l # to
    <3>1. list'[j][l] = list[j][l] /\ after[j][l] = On(j, l)
      BY <1>3, <1>8, <2>4 DEF Grown
    <3> QED
      BY <1>1, <2>1, <2>2, <3>1, ListedKept
  <2> QED
    BY <2>3, <2>4
<1>12. ListsWhole' /\ \A j \in Caches : \A l \in ListNames : On(j, l)' = after[j][l]
  <2>1. \A j \in Caches : \A l \in ListNames : Ends(j, l)' = Ends(j, l)
    BY <1>1 DEF Ends
  <2> HIDE DEF after
  <2> QED
    BY <1>11, <2>1, ListsAfter
<1>13. \A j \in Caches : /\ On(j, "partial")' = IF j = k /\ to = "partial" THEN {s} ELSE On(j, "partial")
                         /\ On(j, "full")' = IF j = k /\ to = "full" THEN On(j, "full") \cup {s} ELSE On(j, "full")
                         /\ On(j, "empty")' = On(j, "empty")
  BY <1>5, <1>7, <1>12 DEF Grown, ListNames
<1>14. /\ Empty' = Empty
       /\ to = "full" => Full' = [Full EXCEPT ![k] = @ \cup {s}] /\ Partial' = Partial
       /\ to = "partial" => Partial' = [Partial EXCEPT ![k] = {s}] /\ Full' = Full
  <2>1. Empty' = Empty
    BY <1>1, <1>13 DEF Empty
  <2>2. to = "full" => Full' = [Full EXCEPT ![k] = @ \cup {s}] /\ Partial' = Partial
    BY <1>13 DEF Full, Partial
  <2>3. to = "partial" => Partial' = [Partial EXCEPT ![k] = {s}] /\ Full' = Full
    BY <1>13 DEF Full, Partial
  <2> QED
    BY <2>1, <2>2, <2>3
<1>15. ChainsCounted'
  <2>1. ASSUME NEW t \in Arena PROVE IsInjective(chain'[t]) /\ numFree'[t] = Len(chain'[t])
    BY <1>2, <1>3, <1>4
  <2>2. chain' \in [Arena -> Seq(Nat)] /\ numFree' \in [Arena -> Nat]
    BY <1>2, <1>3, <1>4
  <2> QED
    BY <2>1, <2>2 DEF ChainsCounted
<1>16. Chained' = [Chained EXCEPT ![s] = (1 .. n) \ {1}]
  <2>1. \A t \in Arena : Range(chain'[t]) = IF t = s THEN (1 .. n) \ {1} ELSE Range(chain[t])
    BY <1>2, <1>3, <1>4
  <2> QED
    BY <2>1 DEF Chained
<1>17. BuiltButLast'
  <2> SUFFICES ASSUME NEW j \in Ctor \ Dtor, NEW t \in SlabsOf(j)', NEW i \in 1 .. SlotsOf[j] - 1
               PROVE  <<t, i>> \in built'
    BY DEF BuiltButLast, SlotsOf, SC!SlotsOf
  <2>1. j \in Caches /\ SlabsOf(j)' \subseteq SlabsOf(j) \cup (IF j = k THEN {s} ELSE {})
    BY <1>13, PointersAssumption DEF SlabsOf
  <2>2. CASE t \in SlabsOf(j)
    <3>1. <<t, i>> \in built
      BY <2>2 DEF IInv, BuiltButLast
    <3> QED
      BY <1>2, <3>1
  <2>3. CASE j = k /\ t = s
    BY <1>2, <2>3 DEF Constructed
  <2> QED
    BY <2>1, <2>2, <2>3
<1>18. /\ Abs!EnsureCreated(k)
       /\ headCache' \in Seq(Caches) /\ IsInjective(headCache')
  BY <1>1, EnsureKeeps DEF Usable
<1>19. PointersTyped'
  BY <1>10, <1>18 DEF PointersTyped
<1>20. Abs!AllocGrow(k)
  <2>1. Abs!Blocks!Grant(s, Abs!BlocksOf[k])
    BY <1>2, AbsSizes DEF SC!Blocks!Grant, Abs!Blocks!Grant, SC!Blocks!Disjoint, Abs!Blocks!Disjoint
  <2>2. s \in Abs!Blocks!Arena /\ 1 \in Abs!Slots(k) /\ Abs!Slots(k) = 1 .. n /\ Abs!SlotsOf[k] = n
    BY <1>4, AbsSizes DEF n
  <2>3. Abs!Usable(k)
    BY <1>1 DEF Usable, Abs!Usable
  <2>4. IF Abs!SlotsOf[k] = 1
        THEN /\ Full' = [Full EXCEPT ![k] = @ \cup {s}]
             /\ UNCHANGED Partial
        ELSE /\ Partial' = [Partial EXCEPT ![k] = {s}]
             /\ UNCHANGED Full
    BY <1>7, <1>9, <1>14, <2>2
  <2> QED
    BY <1>1, <1>2, <1>5, <1>14, <1>16, <1>18, <2>1, <2>2, <2>3, <2>4 DEF Abs!AllocGrow
<1> QED
  BY <1>12, <1>15, <1>17, <1>19, <1>20 DEF PointersWhole

(* deallocateSlab for slabs of one cache.                                  *)
LEMMA DeallocateKeeps ==
  ASSUME IInv, NEW k \in Caches, NEW S \in SUBSET SlabsOf(k), Deallocate(k, S)
  PROVE  /\ next' \in [Arena -> Arena \cup {NULL}] /\ \A t \in Arena \ S : next'[t] = next[t]
         /\ ChainsCounted'
         /\ Abs!Deallocate(k, S)
         /\ \A t \in Arena \ S : \A i : <<t, i>> \in built => <<t, i>> \in built'
<1>1. S \subseteq Arena
  BY SlabFacts DEF SlabsOf, ListNames
<1>2. /\ next \in [Arena -> Arena \cup {NULL}]
      /\ chain \in [Arena -> Seq(Nat)] /\ numFree \in [Arena -> Nat]
      /\ \A t \in Arena : IsInjective(chain[t]) /\ numFree[t] = Len(chain[t])
  BY DEF IInv, PointersTyped, ChainsCounted
<1>3. /\ SC!Blocks!Return({<<s, SC!ReturnedOf[k]>> : s \in S})
      /\ next'    = [s \in Arena |-> IF s \in S THEN s ELSE next[s]]
      /\ chain'   = [s \in Arena |-> IF s \in S THEN <<>> ELSE chain[s]]
      /\ numFree' = [s \in Arena |-> IF s \in S THEN 0 ELSE numFree[s]]
      /\ live'    = {o \in live : o[1] \notin S}
      /\ built'   = {o \in built : o[1] \notin S}
  BY DEF Deallocate
<1>4. next' \in [Arena -> Arena \cup {NULL}] /\ \A t \in Arena \ S : next'[t] = next[t]
  BY <1>1, <1>2, <1>3
<1>5. PICK nil : nil = <<>>
  OBVIOUS
<1>6. nil \in Seq(Nat) /\ Len(nil) = 0 /\ IsInjective(nil) /\ Range(nil) = {}
  BY <1>5, EmptyQueue, RangeIsToSet
<1>7. ChainsCounted'
  <2>1. chain' = [s \in Arena |-> IF s \in S THEN nil ELSE chain[s]]
    BY <1>3, <1>5
  <2>2. chain' \in [Arena -> Seq(Nat)] /\ numFree' \in [Arena -> Nat]
    BY <1>2, <1>3, <1>6, <2>1
  <2>3. ASSUME NEW t \in Arena PROVE IsInjective(chain'[t]) /\ numFree'[t] = Len(chain'[t])
    BY <1>2, <1>3, <1>6, <2>1
  <2> QED
    BY <2>2, <2>3 DEF ChainsCounted
<1>8. Chained' = [t \in Arena |-> IF t \in S THEN {} ELSE Chained[t]]
  <2>1. \A t \in Arena : chain'[t] = IF t \in S THEN nil ELSE chain[t]
    BY <1>3, <1>5
  <2>2. \A t \in Arena : Range(chain'[t]) = IF t \in S THEN {} ELSE Range(chain[t])
    BY <1>6, <2>1
  <2> QED
    BY <2>2 DEF Chained
<1>9. live' = live \ UNION {Abs!Objects(k, s) : s \in S}
  <2>1. ASSUME NEW o \in live
        PROVE  o[1] \in S <=> \E s \in S : o \in Abs!Objects(k, s)
    <3>1. o[1] \in S => o \in Abs!Objects(k, o[1])
      <4> SUFFICES ASSUME o[1] \in S PROVE o \in Abs!Objects(k, o[1])
        OBVIOUS
      <4>1. o = <<o[1], o[2]>> /\ o[2] \in Abs!Slots(k)
        BY HeldObject, AbsSizes
      <4> QED
        BY <4>1 DEF Abs!Objects
    <3>2. ASSUME NEW s \in S, o \in Abs!Objects(k, s) PROVE o[1] = s
      BY <3>2 DEF Abs!Objects
    <3> QED
      BY <3>1, <3>2
  <2> QED
    BY <1>3, <2>1
<1>10. Abs!Deallocate(k, S)
  <2>1. Abs!Blocks!Return({<<s, Abs!ReturnedOf[k]>> : s \in S})
    BY <1>3, AbsSizes DEF Abs!Blocks!Return, SC!Blocks!Return
  <2> QED
    BY <1>8, <1>9, <2>1, AbsSizes DEF Abs!Deallocate
<1>11. \A t \in Arena \ S : \A i : <<t, i>> \in built => <<t, i>> \in built'
  BY <1>3
<1> QED
  BY <1>4, <1>7, <1>10, <1>11

LEMMA ShrinkKeeps ==
  ASSUME IInv, NEW k \in Caches, Shrink(k)
  PROVE  PointersWhole' /\ Abs!Shrink(k)
<1> DEFINE S == On(k, "empty")
           after == [j \in Caches |-> [l \in ListNames |-> IF j = k /\ l = "empty" THEN {} ELSE On(j, l)]]
<1>1. /\ fault = "none" /\ k \in Linked \ Buffers
      /\ ~grown[k] /\ stale[k] = {}
      /\ Deallocate(k, S)
      /\ stale' = [stale EXCEPT ![k] = S]
      /\ UNCHANGED <<list, headCache, created, grown, error, fault>>
  BY DEF Shrink
<1>2. S \in SUBSET SlabsOf(k)
  BY DEF SlabsOf
<1>3. /\ next' \in [Arena -> Arena \cup {NULL}] /\ \A t \in Arena \ S : next'[t] = next[t]
      /\ ChainsCounted'
      /\ Abs!Deallocate(k, S)
      /\ \A t \in Arena \ S : \A i : <<t, i>> \in built => <<t, i>> \in built'
  BY <1>1, <1>2, DeallocateKeeps
<1>4. Empty[k] = S
  BY <1>1 DEF Empty
<1>5. stale \in [Caches -> SUBSET Arena]
  BY AbsSizes DEF IInv, Abs!IInv, Abs!TypeOK
<1>6. \A j \in Caches : \A l \in ListNames : j # k \/ l # "empty" => Ends(j, l)' = Ends(j, l)
  BY <1>1, <1>5 DEF Ends
<1>7. list[k]["empty"] \in Ends(k, "empty")'
  <2>1. Listed(list[k]["empty"], next, {NULL}, S)
    BY <1>1, OnFacts DEF Ends, ListNames
  <2>2. list[k]["empty"] \in S \cup {NULL} /\ (list[k]["empty"] = NULL <=> S = {})
    <3> HIDE DEF S, after
    <3>1. list[k]["empty"] \in {NULL} <=> S = {}
      BY <2>1, ListedHead
    <3>2. list[k]["empty"] \in S \cup {NULL}
      BY <2>1 DEF Listed
    <3> QED
      BY <3>1, <3>2
  <2>3. Ends(k, "empty")' = IF S # {} THEN S ELSE {NULL}
    BY <1>1, <1>5 DEF Ends
  <2> QED
    BY <2>2, <2>3
<1>8. ASSUME NEW j \in Caches, NEW l \in ListNames
      PROVE  /\ Listed(list'[j][l], next', Ends(j, l)', after[j][l])
             /\ after[j][l] \cap stale'[j] = {}
  <2>1. CASE j = k /\ l = "empty"
    BY <1>1, <1>7, <2>1, ListedNothing
  <2>2. CASE j # k \/ l # "empty"
    <3>1. /\ Listed(list[j][l], next, Ends(j, l), On(j, l))
          /\ On(j, l) \subseteq Arena /\ On(j, l) \cap stale[j] = {}
          /\ On(j, l) \cap S = {}
      BY <2>2, OnFacts DEF ListNames
    <3>2. \A t \in On(j, l) : next'[t] = next[t]
      BY <1>3, <3>1
    <3>3. Listed(list[j][l], next', Ends(j, l)', On(j, l))
      BY <1>6, <2>2, <3>1, <3>2, ListedKept
    <3>4. after[j][l] = On(j, l) /\ On(j, l) \cap stale'[j] = {}
      BY <1>1, <1>5, <2>2, <3>1
    <3> QED
      BY <1>1, <3>3, <3>4
  <2> QED
    BY <2>1, <2>2
<1>9. ListsWhole' /\ \A j \in Caches : \A l \in ListNames : On(j, l)' = after[j][l]
  <2> HIDE DEF after
  <2> QED
    BY <1>8, ListsAfter
<1>10. \A j \in Caches : /\ On(j, "partial")' = On(j, "partial")
                         /\ On(j, "full")' = On(j, "full")
                         /\ On(j, "empty")' = IF j = k THEN {} ELSE On(j, "empty")
  BY <1>9 DEF ListNames
<1>11. Partial' = Partial /\ Full' = Full /\ Empty' = Empty
  <2>1. \A j \in Caches : On(j, "empty")' \cup stale'[j] = On(j, "empty") \cup stale[j]
    BY <1>1, <1>5, <1>10
  <2> QED
    BY <1>10, <2>1 DEF Partial, Full, Empty
<1>12. BuiltButLast'
  <2>1. \A j \in Caches : SlabsOf(j)' \subseteq SlabsOf(j) /\ SlabsOf(j)' \cap S = {}
    <3> SUFFICES ASSUME NEW j \in Caches
                 PROVE  SlabsOf(j)' \subseteq SlabsOf(j) /\ SlabsOf(j)' \cap S = {}
      OBVIOUS
    <3>1. \A l \in ListNames : j # k \/ l # "empty" => On(j, l) \cap S = {}
      BY OnFacts DEF ListNames
    <3>2. SlabsOf(j)' = On(j, "partial") \cup On(j, "full") \cup (IF j = k THEN {} ELSE On(j, "empty"))
      BY <1>10 DEF SlabsOf
    <3> QED
      BY <3>1, <3>2 DEF SlabsOf, ListNames
  <2>2. \A j \in Caches : SlabsOf(j) \subseteq Arena
    BY SlabFacts DEF SlabsOf, ListNames
  <2>3. \A j \in Ctor \ Dtor : \A s \in SlabsOf(j)' : \A i : <<s, i>> \in built => <<s, i>> \in built'
    BY <1>3, <2>1, <2>2, PointersAssumption
  <2> QED
    BY <2>1, <2>3, BuiltStays
<1>13. PointersTyped' /\ Linked' = Linked
  BY <1>1, <1>3 DEF PointersTyped, IInv, Linked
<1>14. Abs!Shrink(k)
  BY <1>1, <1>3, <1>4, <1>11, <1>13 DEF Abs!Shrink
<1> QED
  BY <1>3, <1>9, <1>12, <1>13, <1>14 DEF PointersWhole

LEMMA DestroyKeeps ==
  ASSUME IInv, NEW k \in Caches, Destroy(k)
  PROVE  PointersWhole' /\ Abs!Destroy(k)
<1> DEFINE S == SlabsOf(k)
           after == [j \in Caches |-> [l \in ListNames |-> IF j = k THEN {} ELSE On(j, l)]]
<1>1. /\ fault = "none" /\ k \in Linked \ Buffers
      /\ stale[k] = {}
      /\ Deallocate(k, S)
      /\ \E i \in DOMAIN headCache : headCache[i] = k /\ headCache' = RemoveAt(headCache, i)
      /\ list'  = [list EXCEPT ![k] = [partial |-> NULL, full |-> NULL, empty |-> NULL]]
      /\ grown' = [grown EXCEPT ![k] = TRUE]
      /\ error' = error \ {k}
      /\ UNCHANGED <<created, stale, fault>>
  <2>1. DestructorFrees(k) = S
    BY DEF DestructorFrees, SlabsOf
  <2> QED
    BY <2>1 DEF Destroy
<1>2. S \in SUBSET SlabsOf(k) /\ S = Abs!DestructorFrees(k)
  BY OnFacts DEF Abs!DestructorFrees
<1> HIDE DEF S
<1>3. /\ next' \in [Arena -> Arena \cup {NULL}] /\ \A t \in Arena \ S : next'[t] = next[t]
      /\ ChainsCounted'
      /\ Abs!Deallocate(k, S)
      /\ \A t \in Arena \ S : \A i : <<t, i>> \in built => <<t, i>> \in built'
  BY <1>1, <1>2, DeallocateKeeps
<1>4. /\ headCache' \in Seq(Caches) /\ IsInjective(headCache')
      /\ Linked' = Linked \ {k}
  <2>1. headCache \in Seq(Caches) /\ IsInjective(headCache)
    BY DEF IInv, PointersTyped
  <2>2. PICK i \in DOMAIN headCache : headCache[i] = k /\ headCache' = RemoveAt(headCache, i)
    BY <1>1
  <2> QED
    BY <2>1, <2>2, RemovedFromQueue, RangeIsToSet DEF Linked
<1>5. /\ list' \in [Caches -> [ListNames -> Arena \cup {NULL}]]
      /\ \A l \in ListNames : list'[k][l] = NULL
      /\ \A j \in Caches \ {k} : \A l \in ListNames : list'[j][l] = list[j][l]
  <2>1. list \in [Caches -> [ListNames -> Arena \cup {NULL}]]
    BY DEF IInv, PointersTyped
  <2>2. PICK none : none = [partial |-> NULL, full |-> NULL, empty |-> NULL]
    OBVIOUS
  <2>3. none \in [ListNames -> Arena \cup {NULL}] /\ \A l \in ListNames : none[l] = NULL
    BY <2>2 DEF ListNames
  <2> QED
    BY <1>1, <2>1, <2>2, <2>3
<1>6. \A j \in Caches : \A l \in ListNames : Ends(j, l)' = Ends(j, l)
  BY <1>1 DEF Ends
<1>7. \A j \in Caches \ {k} : SlabsOf(j) \cap S = {}
  <2> SUFFICES ASSUME NEW j \in Caches \ {k} PROVE SlabsOf(j) \cap SlabsOf(k) = {}
    BY DEF S
  <2>1. \A l, m \in ListNames : On(j, l) \cap On(k, m) = {}
    BY OnFacts
  <2> QED
    BY <2>1 DEF SlabsOf, ListNames
<1>8. ASSUME NEW j \in Caches, NEW l \in ListNames
      PROVE  /\ Listed(list'[j][l], next', Ends(j, l)', after[j][l])
             /\ after[j][l] \cap stale'[j] = {}
  <2>1. CASE j = k
    <3>1. list'[j][l] \in Ends(j, l)'
      BY <1>1, <1>5, <1>6, <2>1 DEF Ends
    <3> QED
      BY <2>1, <3>1, ListedNothing
  <2>2. CASE j # k
    <3>1. /\ Listed(list[j][l], next, Ends(j, l), On(j, l))
          /\ On(j, l) \subseteq Arena /\ On(j, l) \cap stale[j] = {}
          /\ On(j, l) \subseteq SlabsOf(j)
      BY OnFacts DEF SlabsOf, ListNames
    <3>2. \A t \in On(j, l) : next'[t] = next[t]
      BY <1>3, <1>7, <2>2, <3>1
    <3>3. Listed(list[j][l], next', Ends(j, l)', On(j, l))
      BY <1>6, <3>1, <3>2, ListedKept
    <3> QED
      BY <1>1, <1>5, <2>2, <3>1, <3>3
  <2> QED
    BY <2>1, <2>2
<1>9. ListsWhole' /\ \A j \in Caches : \A l \in ListNames : On(j, l)' = after[j][l]
  <2> HIDE DEF after
  <2> QED
    BY <1>8, ListsAfter
<1>10. \A j \in Caches : /\ On(j, "partial")' = IF j = k THEN {} ELSE On(j, "partial")
                         /\ On(j, "full")' = IF j = k THEN {} ELSE On(j, "full")
                         /\ On(j, "empty")' = IF j = k THEN {} ELSE On(j, "empty")
  BY <1>9 DEF ListNames
<1>11. /\ Partial' = [Partial EXCEPT ![k] = {}]
       /\ Full' = [Full EXCEPT ![k] = {}]
       /\ Empty' = [Empty EXCEPT ![k] = {}]
  BY <1>1, <1>10 DEF Partial, Full, Empty
<1>12. BuiltButLast'
  <2>1. \A j \in Caches : SlabsOf(j)' = IF j = k THEN {} ELSE SlabsOf(j)
    BY <1>10 DEF SlabsOf
  <2>2. \A j \in Caches : SlabsOf(j) \subseteq Arena
    BY SlabFacts DEF SlabsOf, ListNames
  <2>3. \A j \in Ctor \ Dtor : \A s \in SlabsOf(j)' : \A i : <<s, i>> \in built => <<s, i>> \in built'
    BY <1>3, <1>7, <2>1, <2>2, PointersAssumption
  <2> QED
    BY <2>1, <2>3, BuiltStays
<1>13. PointersTyped'
  BY <1>3, <1>4, <1>5 DEF PointersTyped
<1>14. Abs!Destroy(k)
  BY <1>1, <1>2, <1>3, <1>4, <1>11 DEF Abs!Destroy
<1> QED
  BY <1>3, <1>9, <1>12, <1>13, <1>14 DEF PointersWhole

-----------------------------------------------------------------------------
LEMMA InitKeeps ==
  ASSUME Init
  PROVE  Abs!Init /\ IInv
<1>1. \A k \in Caches : \A l \in ListNames : list[k][l] = NULL
  BY DEF Init, ListNames
<1>2. PointersTyped
  <2>1. list \in [Caches -> [ListNames -> Arena \cup {NULL}]]
    BY DEF Init, ListNames
  <2>2. headCache \in Seq(Caches) /\ IsInjective(headCache)
    BY EmptyQueue DEF Init
  <2> QED
    BY <2>1, <2>2 DEF Init, PointersTyped
<1>3. PICK nil : nil = <<>>
  OBVIOUS
<1>4. nil \in Seq(Nat) /\ Len(nil) = 0 /\ IsInjective(nil) /\ Range(nil) = {}
  BY <1>3, EmptyQueue, RangeIsToSet
<1>5. chain = [s \in Arena |-> nil] /\ numFree = [s \in Arena |-> 0]
  BY <1>3 DEF Init
<1>6. ChainsCounted
  BY <1>4, <1>5 DEF ChainsCounted
<1>7. ASSUME NEW k \in Caches, NEW l \in ListNames
      PROVE  On(k, l) = {} /\ Listed(list[k][l], next, Ends(k, l), {})
  <2>1. stale[k] = {} /\ list[k][l] = NULL /\ Ends(k, l) = {NULL}
    BY <1>1 DEF Init, Ends
  <2>2. Listed(list[k][l], next, Ends(k, l), {})
    BY <2>1, ListedNothing
  <2>3. Ends(k, l) \cap (Arena \ stale[k]) = {}
    BY <2>1, PointersAssumption
  <2>4. Reach(list[k][l], next, stale[k]) = {}
    BY <2>2, <2>3, ListedReach
  <2> QED
    BY <2>2, <2>4 DEF On
<1>8. ListsWhole
  BY <1>7 DEF ListsWhole
<1>9. \A k \in Caches : On(k, "partial") = {} /\ On(k, "full") = {} /\ On(k, "empty") = {}
  BY <1>7 DEF ListNames
<1>10. BuiltButLast
  BY <1>9, PointersAssumption DEF BuiltButLast, SlabsOf
<1>11. Abs!Init
  <2>1. /\ Partial = [k \in Caches |-> {}] /\ Full = [k \in Caches |-> {}]
        /\ Empty = [k \in Caches |-> {}]
    BY <1>9 DEF Partial, Full, Empty, Init
  <2>2. Chained = [s \in Arena |-> {}]
    BY <1>4, <1>5 DEF Chained
  <2>3. Linked = {}
    BY EmptyQueue, RangeIsToSet DEF Linked, Init
  <2> QED
    BY <2>1, <2>2, <2>3, AbsSizes DEF Init, Abs!Init
<1>12. Abs!IInv
  BY <1>11, AbsAssumed, Abs!InitInv
<1> QED
  BY <1>2, <1>6, <1>8, <1>10, <1>11, <1>12 DEF IInv

LEMMA NextKeeps ==
  ASSUME IInv, [Next]_vars
  PROVE  IInv' /\ [Abs!Next]_(Abs!vars)
<1>1. PointersWhole' /\ [Abs!Next]_(Abs!vars)
  <2>1. ASSUME NEW k \in Caches, Create(k) PROVE PointersWhole' /\ Abs!Next
    BY <2>1, CreateKeeps DEF Abs!Next
  <2>2. ASSUME NEW k \in Caches, AllocPartial(k) PROVE PointersWhole' /\ Abs!Next
    BY <2>2, AllocPartialKeeps DEF Abs!Next
  <2>3. ASSUME NEW k \in Caches, AllocEmpty(k) PROVE PointersWhole' /\ Abs!Next
    BY <2>3, AllocEmptyKeeps DEF Abs!Next
  <2>4. ASSUME NEW k \in Caches, AllocGrow(k) PROVE PointersWhole' /\ Abs!Next
    BY <2>4, AllocGrowKeeps DEF Abs!Next
  <2>5. ASSUME NEW k \in Caches, AllocFail(k) PROVE PointersWhole' /\ Abs!Next
    BY <2>5, AllocFailKeeps DEF Abs!Next
  <2>6. ASSUME NEW k \in Caches, ShrinkSkipped(k) PROVE PointersWhole' /\ Abs!Next
    BY <2>6, ShrinkSkippedKeeps DEF Abs!Next
  <2>7. ASSUME NEW k \in Caches, Shrink(k) PROVE PointersWhole' /\ Abs!Next
    BY <2>7, ShrinkKeeps DEF Abs!Next
  <2>8. ASSUME NEW k \in Caches, Destroy(k) PROVE PointersWhole' /\ Abs!Next
    BY <2>8, DestroyKeeps DEF Abs!Next
  <2>9. ASSUME NEW k \in Caches,
               AllocStale(k) \/ ShrinkStale(k) \/ DestroyStale(k) \/ InfoNull(k) \/ InfoStale(k)
        PROVE  PointersWhole' /\ Abs!Next
    BY <2>9, HaltKeeps DEF Abs!Next
  <2>10. ASSUME NEW k \in Caches, NEW o \in live, FreePartial(k, o) PROVE PointersWhole' /\ Abs!Next
    BY <2>10, FreePartialKeeps DEF Abs!Next
  <2>11. ASSUME NEW k \in Caches, NEW o \in live, FreeFull(k, o) PROVE PointersWhole' /\ Abs!Next
    BY <2>11, FreeFullKeeps DEF Abs!Next
  <2>12. CASE UNCHANGED vars
    <3>1. UNCHANGED <<list, next, chain, numFree, headCache, held, created, grown, error,
                      live, built, stale, fault>>
      BY <2>12 DEF vars
    <3>2. headCache' \in Seq(Caches) /\ IsInjective(headCache')
      BY <3>1 DEF IInv, PointersTyped
    <3>3. PointersWhole' /\ UNCHANGED <<Partial, Full, Empty, Chained>>
      BY <3>1, <3>2, SlabsStay
    <3>4. Linked' = Linked
      BY <3>1 DEF Linked
    <3> QED
      BY <3>1, <3>3, <3>4 DEF Abs!vars
  <2> QED
    BY <2>1, <2>2, <2>3, <2>4, <2>5, <2>6, <2>7, <2>8, <2>9, <2>10, <2>11, <2>12 DEF Next
<1>2. Abs!IInv'
  BY <1>1, AbsAssumed, Abs!NextInv DEF IInv
<1> QED
  BY <1>1, <1>2 DEF IInv, PointersWhole

(* The invariant holds throughout. *)
THEOREM Invariance == Spec => []IInv
<1>1. Init => IInv
  BY InitKeeps
<1>2. IInv /\ [Next]_vars => IInv'
  BY NextKeeps
<1> QED
  BY <1>1, <1>2, PTL DEF Spec

(* getFreeSlot and returnFreeSlot keep numOfFreeSlots at the length of the *)
(* chain, through every move, shrink and destruction of the slab.          *)
THEOREM CountsRight == Spec => []CountsAgree
<1>1. IInv => CountsAgree
  BY DEF IInv, ChainsCounted, CountsAgree
<1> QED
  BY <1>1, Invariance, PTL

(* An object that is not in the last slot of its slab is with its client   *)
(* constructed.                                                            *)
THEOREM HandedOutConstructed == Spec => []ConstructedButLast
<1>1. IInv => ConstructedButLast
  BY DEF IInv, BuiltButLast, ConstructedButLast
<1> QED
  BY <1>1, Invariance, PTL

(* Every step over heads, next words, chains and counts is the step of     *)
(* SlabCache over the sets they stand for.                                 *)
THEOREM ImplementsSets == Spec => ImplementsSlabCache
<1>1. Abs!Init <=> SC!Init
  BY DEF Abs!Init, SC!Init, Abs!Blocks!Arena, SC!Blocks!Arena
<1>2. Abs!Next <=> SC!Next
  <2>1. /\ Abs!SlotsOf = SC!SlotsOf /\ Abs!BlocksOf = SC!BlocksOf /\ Abs!ReturnedOf = SC!ReturnedOf
        /\ Abs!Blocks!Arena = SC!Blocks!Arena
    BY AbsSizes DEF SlotsOf, Abs!Blocks!Arena, SC!Blocks!Arena
  <2>2. \A k : Abs!Slots(k) = SC!Slots(k) /\ Abs!SlabsOf(k) = SC!SlabsOf(k)
    BY <2>1 DEF Abs!Slots, SC!Slots, Abs!SlabsOf, SC!SlabsOf
  <2>3. \A s, n : Abs!Blocks!Grant(s, n) <=> SC!Blocks!Grant(s, n)
    BY DEF Abs!Blocks!Grant, SC!Blocks!Grant, Abs!Blocks!Disjoint, SC!Blocks!Disjoint
  <2>4. \A k, S : Abs!Deallocate(k, S) <=> SC!Deallocate(k, S)
    BY <2>1, <2>2 DEF Abs!Deallocate, SC!Deallocate, Abs!Objects, SC!Objects,
                      Abs!Blocks!Return, SC!Blocks!Return
  <2>5. ASSUME NEW k
        PROVE  /\ Abs!Create(k) <=> SC!Create(k)
               /\ Abs!AllocPartial(k) <=> SC!AllocPartial(k)
               /\ Abs!AllocEmpty(k) <=> SC!AllocEmpty(k)
               /\ Abs!AllocStale(k) <=> SC!AllocStale(k)
               /\ Abs!AllocGrow(k) <=> SC!AllocGrow(k)
               /\ Abs!AllocFail(k) <=> SC!AllocFail(k)
    BY <2>1, <2>2, <2>3
       DEF Abs!Create, SC!Create, Abs!AllocPartial, SC!AllocPartial, Abs!AllocEmpty, SC!AllocEmpty,
           Abs!AllocStale, SC!AllocStale, Abs!AllocGrow, SC!AllocGrow, Abs!AllocFail, SC!AllocFail,
           Abs!Usable, SC!Usable, Abs!EnsureCreated, SC!EnsureCreated
  <2>6. ASSUME NEW k
        PROVE  /\ Abs!ShrinkSkipped(k) <=> SC!ShrinkSkipped(k)
               /\ Abs!Shrink(k) <=> SC!Shrink(k)
               /\ Abs!ShrinkStale(k) <=> SC!ShrinkStale(k)
               /\ Abs!Destroy(k) <=> SC!Destroy(k)
               /\ Abs!DestroyStale(k) <=> SC!DestroyStale(k)
               /\ Abs!InfoNull(k) <=> SC!InfoNull(k)
               /\ Abs!InfoStale(k) <=> SC!InfoStale(k)
    BY <2>2, <2>4
       DEF Abs!ShrinkSkipped, SC!ShrinkSkipped, Abs!Shrink, SC!Shrink, Abs!ShrinkStale, SC!ShrinkStale,
           Abs!Destroy, SC!Destroy, Abs!DestroyStale, SC!DestroyStale, Abs!InfoNull, SC!InfoNull,
           Abs!InfoStale, SC!InfoStale, Abs!ReadsStaleFirst, SC!ReadsStaleFirst,
           Abs!DestructorFrees, SC!DestructorFrees
  <2>7. ASSUME NEW k, NEW o
        PROVE  /\ Abs!FreePartial(k, o) <=> SC!FreePartial(k, o)
               /\ Abs!FreeFull(k, o) <=> SC!FreeFull(k, o)
    BY <2>2 DEF Abs!FreePartial, SC!FreePartial, Abs!FreeFull, SC!FreeFull,
                Abs!ReturnSlot, SC!ReturnSlot, Abs!AllFree, SC!AllFree
  <2> QED
    BY <2>5, <2>6, <2>7 DEF Abs!Next, SC!Next
<1>3. UNCHANGED Abs!vars <=> UNCHANGED SC!vars
  BY DEF Abs!vars, SC!vars
<1>4. Init => SC!Init
  BY <1>1, InitKeeps
<1>5. IInv /\ [Next]_vars => [SC!Next]_(SC!vars)
  BY <1>2, <1>3, NextKeeps
<1> QED
  BY <1>4, <1>5, Invariance, PTL DEF Spec, ImplementsSlabCache, SC!Spec
=============================================================================

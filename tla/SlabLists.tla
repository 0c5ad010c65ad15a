----------------------------- MODULE SlabLists -----------------------------
(***************************************************************************)
(* The slab allocator with its pointers: the heads fullSlabs, partialSlabs *)
(* and emptySlabs, the next word of each slab (the first word of its       *)
(* memory, which the buddy allocator overwrites when the slab is given     *)
(* back), the chain of free slots in its order, numOfFreeSlots beside it,  *)
(* and the list headCache.  The moves between the lists are those of       *)
(* Cache.cpp.  It implements SlabCache, whose sets are what can be reached *)
(* over the pointers.                                                      *)
(***************************************************************************)
EXTENDS SlabSizes, Sequences, FiniteSets, SequencesExt

CONSTANTS Caches, Buffers, ObjectSize, Ctor, Dtor, ArenaSize,
          NULL   \* nullptr

VARIABLES
  list,       \* list[k].partial, .full and .empty: the heads
  next,       \* slab->next, by the block the slab begins at
  chain,      \* the slots from freeSlotHead on
  numFree,    \* slab->numOfFreeSlots
  headCache,  \* the linked caches, the newest first
  held, created, grown, error,          \* as in SlabCache
  live, built, stale, fault

vars == <<list, next, chain, numFree, headCache, held, created, grown, error,
          live, built, stale, fault>>

Arena == 0 .. ArenaSize - 1

(* As in SlabCache; and null is not a slab.                                *)
ASSUME CachesAssumption ==
  /\ Buffers \subseteq Caches
  /\ ObjectSize \in [Caches -> Nat \ {0}]
  /\ BlockSize \in Nat \ {0} /\ HeaderSize \in Nat /\ FreeSlotSize \in Nat
  /\ ArenaSize \in Nat \ {0}

ASSUME LengthsAssumption == \A k \in Caches :
  /\ number(ObjectSize[k]) <= Power2[30]
  /\ totalSizeOfSlab(ObjectSize[k]) <= INT_MAX

ASSUME PointersAssumption == NULL \notin Arena /\ Ctor \subseteq Caches

(* The slabs a loop meets from head on, where word[s] is the next word of  *)
(* slab s: up to null, or to a slab given back, whose word is not one of   *)
(* the list any more.                                                      *)
Closed(S, head, word, stop) ==
  /\ head \in Arena \ stop => head \in S
  /\ \A s \in S : word[s] \in Arena \ stop => word[s] \in S

Reach(head, word, stop) ==
  {s \in Arena : \A S \in SUBSET (Arena \ {s}) : ~Closed(S, head, word, stop)}

On(k, l) == Reach(list[k][l], next, stale[k])

Linked == Range(headCache)

(* What the pointers stand for. *)
Partial == [k \in Caches |-> On(k, "partial")]
Full    == [k \in Caches |-> On(k, "full")]
Empty   == [k \in Caches |-> On(k, "empty") \cup stale[k]]
Chained == [s \in Arena |-> Range(chain[s])]

SC == INSTANCE SlabCache WITH
        partial <- Partial, full <- Full, empty <- Empty, slots <- Chained, linked <- Linked

SlotsOf == SC!SlotsOf

Init ==
  /\ list      = [k \in Caches |-> [partial |-> NULL, full |-> NULL, empty |-> NULL]]
  /\ next      = [s \in Arena |-> NULL]
  /\ chain     = [s \in Arena |-> <<>>]
  /\ numFree   = [s \in Arena |-> 0]
  /\ headCache = <<>>
  /\ held      = {<<0, 1>>}
  /\ created   = {}
  /\ grown     = [k \in Caches |-> TRUE]
  /\ error     = {}
  /\ live = {} /\ built = {}
  /\ stale     = [k \in Caches |-> {}]
  /\ fault     = "none"

Usable(k) == k \in Linked \/ (k \in Buffers /\ k \notin created)

(* The constructor of Cache puts the descriptor in front of headCache. *)
EnsureCreated(k) ==
  IF k \in created
  THEN UNCHANGED <<created, headCache>>
  ELSE created' = created \cup {k} /\ headCache' = <<k>> \o headCache

Create(k) ==
  /\ fault = "none"
  /\ k \notin Buffers /\ k \notin created
  /\ EnsureCreated(k)
  /\ UNCHANGED <<list, next, chain, numFree, held, grown, error, live, built, stale, fault>>

Halt(kind) ==
  /\ fault' = kind
  /\ UNCHANGED <<list, next, chain, numFree, headCache, held, created, grown, error,
                 live, built, stale>>

-----------------------------------------------------------------------------
(* The moves between the lists. *)

(* moveFromPartialToFull, moveFromEmptyToPartial, moveFromEmptyToFull: s   *)
(* is the head of its list.                                                *)
MoveHead(k, s, from, to) ==
  /\ list' = [list EXCEPT ![k][from] = next[s], ![k][to] = s]
  /\ next' = [next EXCEPT ![s] = list[k][to]]

(* Mutant: prev->next is not set. *)
MoveNoUnlink(k, s, from, to) ==
  /\ list' = [list EXCEPT ![k][to] = s,
                          ![k][from] = IF @ = s THEN next[s] ELSE @]
  /\ next' = [next EXCEPT ![s] = list[k][to]]

(* moveFromPartialToEmpty, moveFromFullToEmpty, moveFromFullToPartial: s   *)
(* is unlinked from wherever it is.                                        *)
Move(k, s, from, to) ==
  IF list[k][from] = s
  THEN MoveHead(k, s, from, to)
  ELSE /\ list' = [list EXCEPT ![k][to] = s]
       /\ \E prev \in On(k, from) :
            /\ next[prev] = s
            /\ next' = [next EXCEPT ![prev] = next[s], ![s] = list[k][to]]

-----------------------------------------------------------------------------
(* Cache::alloc. *)

(* getFreeSlot. *)
GetFreeSlot(s) ==
  /\ numFree' = [numFree EXCEPT ![s] = @ - 1]
  /\ chain'   = [chain EXCEPT ![s] = Tail(@)]
  /\ live'    = live \cup {<<s, Head(chain[s])>>}

AllocPartial(k) ==
  LET s == list[k].partial IN
  /\ fault = "none" /\ Usable(k)
  /\ s # NULL
  /\ GetFreeSlot(s)
  /\ IF numFree[s] = 1 THEN MoveHead(k, s, "partial", "full") ELSE UNCHANGED <<list, next>>
  /\ UNCHANGED <<headCache, held, created, grown, error, built, stale, fault>>

AllocEmpty(k) ==
  LET s == list[k].empty IN
  /\ fault = "none" /\ Usable(k)
  /\ list[k].partial = NULL /\ s # NULL /\ s \notin stale[k]
  /\ GetFreeSlot(s)
  /\ MoveHead(k, s, "empty", IF numFree[s] = 1 THEN "full" ELSE "partial")
  /\ UNCHANGED <<headCache, held, created, grown, error, built, stale, fault>>

AllocStale(k) ==
  /\ fault = "none" /\ Usable(k)
  /\ list[k].partial = NULL /\ list[k].empty \in stale[k]
  /\ Halt("stale")

(* The constructor loop stops one slot short. *)
Constructed(k, s) == IF k \in Ctor THEN {<<s, i>> : i \in 1 .. SlotsOf[k] - 1} ELSE {}

AllocGrow(k) ==
  /\ fault = "none" /\ Usable(k)
  /\ list[k].partial = NULL /\ list[k].empty = NULL
  /\ EnsureCreated(k)
  /\ \E s \in Arena :
       /\ SC!Blocks!Grant(s, SC!BlocksOf[k])
       /\ numFree' = [numFree EXCEPT ![s] = SlotsOf[k] - 1]
       /\ chain'   = [chain EXCEPT ![s] = [i \in 1 .. SlotsOf[k] - 1 |-> i + 1]]
       /\ live'    = live \cup {<<s, 1>>}
       /\ built'   = built \cup Constructed(k, s)
       /\ IF SlotsOf[k] = 1
          THEN /\ next' = [next EXCEPT ![s] = list[k].full]
               /\ list' = [list EXCEPT ![k].full = s]
          ELSE /\ next' = [next EXCEPT ![s] = NULL]
               /\ list' = [list EXCEPT ![k].partial = s]
  /\ grown' = [grown EXCEPT ![k] = TRUE]
  /\ UNCHANGED <<error, stale, fault>>

AllocFail(k) ==
  /\ fault = "none" /\ Usable(k)
  /\ list[k].partial = NULL /\ list[k].empty = NULL
  /\ EnsureCreated(k)
  /\ error' = error \cup {k}
  /\ UNCHANGED <<list, next, chain, numFree, held, grown, live, built, stale, fault>>

-----------------------------------------------------------------------------
(* Cache::free. *)

(* Mutant: numOfFreeSlots is not incremented. *)
ReturnFreeSlotUncounted(k, o) ==
  /\ chain' = [chain EXCEPT ![o[1]] = <<o[2]>> \o @]
  /\ live'  = live \ {o}
  /\ built' = IF k \in Dtor THEN built \ {o} ELSE built
  /\ UNCHANGED numFree

(* Mutant: the destructor is not tested for. *)
ReturnFreeSlotDestroyed(k, o) ==
  /\ chain'   = [chain EXCEPT ![o[1]] = <<o[2]>> \o @]
  /\ numFree' = [numFree EXCEPT ![o[1]] = @ + 1]
  /\ live'    = live \ {o}
  /\ built'   = built \ {o}

ReturnFreeSlot(k, o) ==
  /\ chain'   = [chain EXCEPT ![o[1]] = <<o[2]>> \o @]
  /\ numFree' = [numFree EXCEPT ![o[1]] = @ + 1]
  /\ live'    = live \ {o}
  /\ built'   = IF k \in Dtor THEN built \ {o} ELSE built

FreePartial(k, o) ==
  LET s == o[1] IN
  /\ fault = "none" /\ k \in Linked
  /\ s \in On(k, "partial")
  /\ ReturnFreeSlot(k, o)
  /\ IF numFree[s] + 1 = SlotsOf[k]
     THEN Move(k, s, "partial", "empty")
     ELSE UNCHANGED <<list, next>>
  /\ UNCHANGED <<headCache, held, created, grown, error, stale, fault>>

FreeFull(k, o) ==
  LET s == o[1] IN
  /\ fault = "none" /\ k \in Linked
  /\ s \notin On(k, "partial") /\ s \in On(k, "full")
  /\ ReturnFreeSlot(k, o)
  /\ Move(k, s, "full", IF numFree[s] + 1 = SlotsOf[k] THEN "empty" ELSE "partial")
  /\ UNCHANGED <<headCache, held, created, grown, error, stale, fault>>

-----------------------------------------------------------------------------
(* deallocateSlab: addToList of the buddy allocator writes the address of  *)
(* the slab into its first word, which is next.                            *)
Deallocate(k, S) ==
  /\ SC!Blocks!Return({<<s, SC!ReturnedOf[k]>> : s \in S})
  /\ next'    = [s \in Arena |-> IF s \in S THEN s ELSE next[s]]
  /\ chain'   = [s \in Arena |-> IF s \in S THEN <<>> ELSE chain[s]]
  /\ numFree' = [s \in Arena |-> IF s \in S THEN 0 ELSE numFree[s]]
  /\ live'    = {o \in live : o[1] \notin S}
  /\ built'   = {o \in built : o[1] \notin S}

ShrinkSkipped(k) ==
  /\ fault = "none" /\ k \in Linked \ Buffers
  /\ grown[k]
  /\ grown' = [grown EXCEPT ![k] = FALSE]
  /\ UNCHANGED <<list, next, chain, numFree, headCache, held, created, error,
                 live, built, stale, fault>>

Shrink(k) ==
  /\ fault = "none" /\ k \in Linked \ Buffers
  /\ ~grown[k] /\ stale[k] = {}
  /\ Deallocate(k, On(k, "empty"))
  /\ stale' = [stale EXCEPT ![k] = On(k, "empty")]
  /\ UNCHANGED <<list, headCache, created, grown, error, fault>>

ShrinkStale(k) ==
  /\ fault = "none" /\ k \in Linked \ Buffers
  /\ ~grown[k] /\ stale[k] # {}
  /\ Halt("stale")

DestructorFrees(k) == On(k, "empty") \cup On(k, "partial") \cup On(k, "full")

(* ~Cache and operator delete; the dead descriptor is reset. *)
Destroy(k) ==
  /\ fault = "none" /\ k \in Linked \ Buffers
  /\ stale[k] = {}
  /\ Deallocate(k, DestructorFrees(k))
  /\ \E i \in DOMAIN headCache : headCache[i] = k /\ headCache' = RemoveAt(headCache, i)
  /\ list'  = [list EXCEPT ![k] = [partial |-> NULL, full |-> NULL, empty |-> NULL]]
  /\ grown' = [grown EXCEPT ![k] = TRUE]
  /\ error' = error \ {k}
  /\ UNCHANGED <<created, stale, fault>>

DestroyStale(k) ==
  /\ fault = "none" /\ k \in Linked \ Buffers
  /\ stale[k] # {}
  /\ Halt("stale")

-----------------------------------------------------------------------------
(* printInfo reads the first slab of a list, that of emptySlabs when the    *)
(* others are empty, and partialSlabs->totalSizeOfSlab in any case; then   *)
(* printInfoHelper walks over all lists.                                   *)
ReadsStaleFirst(k) == list[k].full = NULL /\ list[k].empty \in stale[k]

InfoNull(k) ==
  /\ fault = "none" /\ k \in Linked \ Buffers
  /\ list[k].partial = NULL /\ ~ReadsStaleFirst(k)
  /\ Halt("null")

InfoStale(k) ==
  /\ fault = "none" /\ k \in Linked \ Buffers
  /\ stale[k] # {}
  /\ list[k].partial # NULL \/ ReadsStaleFirst(k)
  /\ Halt("stale")

(* The slabs printInfoHelper counts. *)
SlabsOf(k) == On(k, "partial") \cup On(k, "full") \cup On(k, "empty")

-----------------------------------------------------------------------------
Next ==
  \/ \E k \in Caches :
       \/ Create(k)
       \/ AllocPartial(k) \/ AllocEmpty(k) \/ AllocStale(k) \/ AllocGrow(k) \/ AllocFail(k)
       \/ ShrinkSkipped(k) \/ Shrink(k) \/ ShrinkStale(k)
       \/ Destroy(k) \/ DestroyStale(k)
       \/ InfoNull(k) \/ InfoStale(k)
  \/ \E k \in Caches, o \in live : FreePartial(k, o) \/ FreeFull(k, o)

Spec == Init /\ [][Next]_vars

-----------------------------------------------------------------------------
(* The pointers implement the sets: whatever is moved from list to list,   *)
(* no slab is dropped from the lists or linked into two of them.           *)
ImplementsSlabCache == SC!Spec

(* The count in the slab agrees with the chain: getFreeSlot, which tests   *)
(* only the count, never follows a null head.                              *)
CountsAgree == \A s \in Arena : numFree[s] = Len(chain[s])

(* A cache never reads the header of a slab it gave back to the heap.      *)
NoStaleSlab == fault # "stale"

(* An object of a cache with a constructor and no destructor, like the     *)
(* shared cache of test/userMain2.cpp, reaches its clients constructed,    *)
(* however often its slot was freed, moved between the lists and handed    *)
(* out again - unless it lies in the last slot of its slab, which the loop *)
(* of allocateNewSlab does not construct.                                  *)
ConstructedButLast ==
  \A k \in Ctor \ Dtor : \A s \in SlabsOf(k) : \A i \in 1 .. SlotsOf[k] - 1 :
    <<s, i>> \in live => <<s, i>> \in built
=============================================================================

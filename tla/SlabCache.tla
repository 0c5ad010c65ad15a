----------------------------- MODULE SlabCache -----------------------------
(***************************************************************************)
(* The slab allocator: the caches of src/Cache.cpp, the slabs of           *)
(* src/SlabAllocator.cpp and the kmem_* interface of src/slab.cpp, on top  *)
(* of a heap of blocks that keeps the promise of BlockHeap (the buddy      *)
(* allocator does: BuddyAllocator).                                        *)
(*                                                                         *)
(* A slab is named by the block it begins at.  The three lists of a cache  *)
(* and the chain of free slots of a slab are sets here: the code takes the *)
(* first element, the model any, and no property depends on the order      *)
(* (module SlabLists keeps the pointers and the order).  Every operation   *)
(* is one step: the kernel serialises them.                                *)
(*                                                                         *)
(* shrink() gives slabs back to the heap and leaves them on the list.  The *)
(* slabs it leaves are remembered in stale; a step that would read the     *)
(* header of one, or read through a null list, sets fault, and nothing is  *)
(* modelled after that.                                                    *)
(***************************************************************************)
EXTENDS SlabSizes

CONSTANTS
  Caches,     \* the descriptors &allCaches[0], &allCaches[1], ...
  Buffers,    \* those bufferCachesPointer refers to, one for each size
  ObjectSize, \* objectSize of each cache
  ArenaSize   \* blocks in the heap below

(* Blocks in a slab of a cache, and slots in it. *)
BlocksOf == [k \in Caches |-> granted(number(ObjectSize[k]))]
SlotsOf  == [k \in Caches |-> totalNumOfFreeSlots(ObjectSize[k])]

(* Blocks a slab is given back as. *)
ReturnedOf == [k \in Caches |-> granted(returned(ObjectSize[k]))]

ASSUME CachesAssumption ==
  /\ Buffers \subseteq Caches
  /\ ObjectSize \in [Caches -> Nat \ {0}]
  /\ BlockSize \in Nat \ {0} /\ HeaderSize \in Nat /\ FreeSlotSize \in Nat
  /\ ArenaSize \in Nat \ {0}

(* The length of a slab is an int. *)
ASSUME LengthsAssumption == \A k \in Caches :
  /\ number(ObjectSize[k]) <= Power2[30]
  /\ totalSizeOfSlab(ObjectSize[k]) <= INT_MAX

VARIABLES
  held,       \* the heap below: the runs of blocks that are not free
  created,    \* the descriptors handed out so far (cachesCnt counts them)
  linked,     \* the caches on the list headCache
  partial, full, empty,   \* the slabs on the three lists of a cache
  slots,      \* the free slots of the slab that begins at a block
  grown,      \* allocatedSlabAfterShrink
  error,      \* the caches whose error is MEM_ERROR
  live,       \* the objects clients hold, as <<slab, slot>> (ghost)
  stale,      \* slabs given back to the heap that are still on empty (ghost)
  fault       \* what undefined behaviour a step ran into, if any

vars == <<held, created, linked, partial, full, empty, slots, grown, error,
          live, stale, fault>>

Blocks == INSTANCE BlockHeap

SlotsOneTooMany(k) == 1 .. SlotsOf[k] + 1   \* mutant: the loop that links them goes too far

Slots(k)      == 1 .. SlotsOf[k]
Objects(k, s) == {<<s, i>> : i \in Slots(k)}
Run(k, s)     == <<s, BlocksOf[k]>>

(* The slabs whose memory cache k holds. *)
SlabsOf(k) == partial[k] \cup full[k] \cup (empty[k] \ stale[k])

(* initCache takes the first block for the descriptors. *)
Init ==
  /\ held = {<<0, 1>>}
  /\ created = {} /\ linked = {}
  /\ partial = [k \in Caches |-> {}]
  /\ full    = [k \in Caches |-> {}]
  /\ empty   = [k \in Caches |-> {}]
  /\ slots   = [s \in Blocks!Arena |-> {}]
  /\ grown   = [k \in Caches |-> TRUE]
  /\ error = {}
  /\ live = {}
  /\ stale = [k \in Caches |-> {}]
  /\ fault = "none"

-----------------------------------------------------------------------------
(* kmem_cache_create; for a buffer cache, the first kmalloc of its size. *)

Create(k) ==
  /\ fault = "none"
  /\ k \notin Buffers
  /\ k \notin created
  /\ created' = created \cup {k}
  /\ linked'  = linked \cup {k}
  /\ UNCHANGED <<held, partial, full, empty, slots, grown, error, live, stale, fault>>

(* Who may allocate: a client with a cache it has not destroyed; kmalloc   *)
(* from a buffer cache, which it creates when it is missing.               *)
Usable(k) == k \in linked \/ (k \in Buffers /\ k \notin created)

(* Mutant: the constructor does not put the cache on headCache. *)
EnsureCreatedUnlinked(k) ==
  /\ created' = created \cup {k}
  /\ linked'  = linked

EnsureCreated(k) ==
  /\ created' = created \cup {k}
  /\ linked'  = linked \cup {k}

-----------------------------------------------------------------------------
(* Cache::alloc. *)

(* getFreeSlot takes a slot of a partial slab. *)
AllocPartial(k) ==
  /\ fault = "none"
  /\ Usable(k)
  /\ partial[k] # {}
  /\ \E s \in partial[k], i \in Slots(k) :
       /\ i \in slots[s]
       /\ slots' = [slots EXCEPT ![s] = @ \ {i}]
       /\ live'  = live \cup {<<s, i>>}
       /\ IF slots[s] = {i}
          THEN /\ partial' = [partial EXCEPT ![k] = @ \ {s}]
               /\ full'    = [full EXCEPT ![k] = @ \cup {s}]
          ELSE UNCHANGED <<partial, full>>
  /\ UNCHANGED <<held, created, linked, empty, grown, error, stale, fault>>

(* No partial slab: a slot of an empty one. *)
AllocEmpty(k) ==
  /\ fault = "none"
  /\ Usable(k)
  /\ partial[k] = {}
  /\ \E s \in empty[k] \ stale[k], i \in Slots(k) :
       /\ i \in slots[s]
       /\ slots' = [slots EXCEPT ![s] = @ \ {i}]
       /\ live'  = live \cup {<<s, i>>}
       /\ empty' = [empty EXCEPT ![k] = @ \ {s}]
       /\ IF slots[s] = {i}
          THEN /\ full' = [full EXCEPT ![k] = @ \cup {s}]
               /\ UNCHANGED partial
          ELSE /\ partial' = [partial EXCEPT ![k] = @ \cup {s}]
               /\ UNCHANGED full
  /\ UNCHANGED <<held, created, linked, grown, error, stale, fault>>

(* The empty slab at the head of the list no longer belongs to the cache:  *)
(* what shrink left lies below what was emptied since.                     *)
AllocStale(k) ==
  /\ fault = "none"
  /\ Usable(k)
  /\ partial[k] = {}
  /\ empty[k] # {} /\ empty[k] = stale[k]
  /\ fault' = "stale"
  /\ UNCHANGED <<held, created, linked, partial, full, empty, slots, grown, error,
                 live, stale>>

(* allocateNewSlab or allocateBufferSlab, then getFreeSlot. *)
AllocGrow(k) ==
  /\ fault = "none"
  /\ Usable(k)
  /\ partial[k] = {} /\ empty[k] = {}
  /\ EnsureCreated(k)
  /\ \E s \in Blocks!Arena, i \in Slots(k) :
       /\ Blocks!Grant(s, BlocksOf[k])
       /\ slots' = [slots EXCEPT ![s] = Slots(k) \ {i}]
       /\ live'  = live \cup {<<s, i>>}
       /\ IF SlotsOf[k] = 1
          THEN /\ full' = [full EXCEPT ![k] = @ \cup {s}]
               /\ UNCHANGED partial
          ELSE /\ partial' = [partial EXCEPT ![k] = {s}]
               /\ UNCHANGED full
  /\ grown' = [grown EXCEPT ![k] = TRUE]
  /\ UNCHANGED <<empty, error, stale, fault>>

(* buddy_alloc returns nullptr; the heap does not say when it may.  *)
AllocFail(k) ==
  /\ fault = "none"
  /\ Usable(k)
  /\ partial[k] = {} /\ empty[k] = {}
  /\ EnsureCreated(k)
  /\ error' = error \cup {k}
  /\ UNCHANGED <<held, partial, full, empty, slots, grown, live, stale, fault>>

-----------------------------------------------------------------------------
(* Cache::free(addr): a client gives object o back to cache k.  kfree      *)
(* tries the buffer caches in turn, and a cache that does not find the     *)
(* address changes nothing.                                                *)

(* Mutant: freeSlotHead is not set to the slot. *)
ReturnSlotUnchained(k, o) ==
  /\ slots' = slots
  /\ live'  = live \ {o}

(* returnFreeSlot; constructors and destructors are in SlabLists. *)
ReturnSlot(k, o) ==
  /\ slots' = [slots EXCEPT ![o[1]] = @ \cup {o[2]}]
  /\ live'  = live \ {o}

(* Mutant: numOfFreeSlots is compared before it is incremented. *)
AllFreeTooEarly(k, o) == slots[o[1]] = Slots(k)

AllFree(k, o) == slots[o[1]] \cup {o[2]} = Slots(k)

FreePartial(k, o) ==
  /\ fault = "none"
  /\ k \in linked
  /\ o[1] \in partial[k]
  /\ ReturnSlot(k, o)
  /\ IF AllFree(k, o)
     THEN /\ partial' = [partial EXCEPT ![k] = @ \ {o[1]}]
          /\ empty'   = [empty EXCEPT ![k] = @ \cup {o[1]}]
     ELSE UNCHANGED <<partial, empty>>
  /\ UNCHANGED <<held, created, linked, full, grown, error, stale, fault>>

FreeFull(k, o) ==
  /\ fault = "none"
  /\ k \in linked
  /\ o[1] \notin partial[k]
  /\ o[1] \in full[k]
  /\ ReturnSlot(k, o)
  /\ full' = [full EXCEPT ![k] = @ \ {o[1]}]
  /\ IF AllFree(k, o)
     THEN /\ empty' = [empty EXCEPT ![k] = @ \cup {o[1]}]
          /\ UNCHANGED partial
     ELSE /\ partial' = [partial EXCEPT ![k] = @ \cup {o[1]}]
          /\ UNCHANGED empty
  /\ UNCHANGED <<held, created, linked, grown, error, stale, fault>>

-----------------------------------------------------------------------------
(* Cache::shrink. *)

(* A slab was allocated since the last call: only the flag is cleared. *)
ShrinkSkipped(k) ==
  /\ fault = "none"
  /\ k \in linked \ Buffers
  /\ grown[k]
  /\ grown' = [grown EXCEPT ![k] = FALSE]
  /\ UNCHANGED <<held, created, linked, partial, full, empty, slots, error,
                 live, stale, fault>>

(* deallocateSlab for each slab of S: the blocks go back to the heap, and  *)
(* what the slabs held is forgotten.                                       *)
Deallocate(k, S) ==
  /\ Blocks!Return({<<s, ReturnedOf[k]>> : s \in S})
  /\ slots' = [s \in Blocks!Arena |-> IF s \in S THEN {} ELSE slots[s]]
  /\ live'  = live \ UNION {Objects(k, s) : s \in S}

(* Every empty slab goes back to the heap, and emptySlabs keeps its value. *)
Shrink(k) ==
  /\ fault = "none"
  /\ k \in linked \ Buffers
  /\ ~grown[k]
  /\ stale[k] = {}
  /\ Deallocate(k, empty[k])
  /\ stale' = [stale EXCEPT ![k] = empty[k]]
  /\ UNCHANGED <<created, linked, partial, full, empty, grown, error, fault>>

(* buddy_free made a slab given back its own successor: the loop never     *)
(* leaves it.                                                              *)
ShrinkStale(k) ==
  /\ fault = "none"
  /\ k \in linked \ Buffers
  /\ ~grown[k]
  /\ stale[k] # {}
  /\ fault' = "stale"
  /\ UNCHANGED <<held, created, linked, partial, full, empty, slots, grown, error,
                 live, stale>>

-----------------------------------------------------------------------------
(* kmem_cache_destroy: ~Cache gives back every slab, operator delete       *)
(* unlinks the descriptor, which is never handed out again.  What the      *)
(* dead descriptor holds is not read any more; it is reset here.           *)

DestructorFreesNotFull(k) == partial[k] \cup (empty[k] \ stale[k])   \* mutant: a loop is missing
DestructorFrees(k)        == SlabsOf(k)

Destroy(k) ==
  /\ fault = "none"
  /\ k \in linked \ Buffers
  /\ stale[k] = {}
  /\ Deallocate(k, DestructorFrees(k))
  /\ linked'  = linked \ {k}
  /\ partial' = [partial EXCEPT ![k] = {}]
  /\ full'    = [full EXCEPT ![k] = {}]
  /\ empty'   = [empty EXCEPT ![k] = {}]
  /\ grown'   = [grown EXCEPT ![k] = TRUE]
  /\ error'   = error \ {k}
  /\ UNCHANGED <<created, stale, fault>>

DestroyStale(k) ==
  /\ fault = "none"
  /\ k \in linked \ Buffers
  /\ stale[k] # {}
  /\ fault' = "stale"
  /\ UNCHANGED <<held, created, linked, partial, full, empty, slots, grown, error,
                 live, stale>>

-----------------------------------------------------------------------------
(* kmem_cache_info: printInfo. *)

(* It reads the first slab of emptySlabs when the other lists are empty.   *)
ReadsStaleFirst(k) == full[k] = {} /\ stale[k] # {} /\ empty[k] = stale[k]

(* It reads partialSlabs->totalSizeOfSlab whichever list is not empty. *)
InfoNull(k) ==
  /\ fault = "none"
  /\ k \in linked \ Buffers
  /\ partial[k] = {} /\ ~ReadsStaleFirst(k)
  /\ fault' = "null"
  /\ UNCHANGED <<held, created, linked, partial, full, empty, slots, grown, error,
                 live, stale>>

(* printInfoHelper walks over what shrink left on emptySlabs. *)
InfoStale(k) ==
  /\ fault = "none"
  /\ k \in linked \ Buffers
  /\ stale[k] # {}
  /\ partial[k] # {} \/ ReadsStaleFirst(k)
  /\ fault' = "stale"
  /\ UNCHANGED <<held, created, linked, partial, full, empty, slots, grown, error,
                 live, stale>>

-----------------------------------------------------------------------------
Next ==
  \/ \E k \in Caches :
       \/ Create(k)
       \/ AllocPartial(k) \/ AllocEmpty(k) \/ AllocStale(k) \/ AllocGrow(k) \/ AllocFail(k)
       \/ ShrinkSkipped(k) \/ Shrink(k) \/ ShrinkStale(k)
       \/ Destroy(k) \/ DestroyStale(k)
       \/ InfoNull(k) \/ InfoStale(k)
  \/ \E k \in Caches, o \in live : FreePartial(k, o) \/ FreeFull(k, o)

Spec == Init /\ [][Next]_vars

-----------------------------------------------------------------------------
(* What makes the caches correct. *)

TypeOK ==
  /\ held \subseteq Blocks!Arena \X Nat
  /\ created \subseteq Caches /\ linked \subseteq created
  /\ partial \in [Caches -> SUBSET Blocks!Arena]
  /\ full    \in [Caches -> SUBSET Blocks!Arena]
  /\ empty   \in [Caches -> SUBSET Blocks!Arena]
  /\ slots   \in [Blocks!Arena -> SUBSET Nat]
  /\ grown   \in [Caches -> BOOLEAN]
  /\ error   \subseteq linked
  /\ live    \subseteq Blocks!Arena \X Nat
  /\ stale   \in [Caches -> SUBSET Blocks!Arena]
  /\ fault   \in {"none", "stale", "null"}

(* Every slab is on the one list that its free slots call for: a full slab *)
(* on partial would make getFreeSlot return null to a client while memory  *)
(* is left, a slab with objects on empty would be given back with them.    *)
ListsMatchSlots ==
  \A k \in Caches :
    /\ \A s \in partial[k] : slots[s] \subseteq Slots(k) /\ slots[s] \notin {{}, Slots(k)}
    /\ \A s \in full[k] : slots[s] = {}
    /\ \A s \in empty[k] \ stale[k] : slots[s] = Slots(k)

(* The runs the caches hold are the slabs on their lists and no others:    *)
(* no slab leaks, and none is on the lists of two caches.                  *)
SlabsBacked ==
  /\ held = {<<0, 1>>} \cup UNION {{Run(k, s) : s \in SlabsOf(k)} : k \in Caches}
  /\ \A k, j \in Caches : \A s \in SlabsOf(k), t \in SlabsOf(j) :
       (k # j \/ s # t) => Blocks!Disjoint(Run(k, s), Run(j, t))

(* An object is with a client or on the chain of its slab, never both and  *)
(* never neither, as long as its slab exists.                              *)
LiveAccounted ==
  live = UNION {UNION {{<<s, i>> : i \in Slots(k) \ slots[s]} : s \in SlabsOf(k)} : k \in Caches}

(* To its clients the slab layer is itself a heap, of bytes: an object is  *)
(* a run of bytes that overlaps no other object of any cache.              *)
ObjectRun(k, s, i) == <<s * BlockSize + HeaderSize + (i - 1) * slotSize(ObjectSize[k]), slotSize(ObjectSize[k])>>

ObjectsHeld ==
  UNION {UNION {{ObjectRun(k, s, i) : i \in {j \in Slots(k) : <<s, j>> \in live}} :
                s \in SlabsOf(k)} : k \in Caches}

Bytes == INSTANCE BlockHeap WITH ArenaSize <- ArenaSize * BlockSize, held <- ObjectsHeld
ObjectPromise == Bytes!Spec
=============================================================================

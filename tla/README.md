# Formal models of the OS2 kernel: memory management, threads, semaphores, timer

The repository is a small RISC-V kernel for one processor. It has two heaps (a buddy
allocator with a slab allocator on top for kernel objects, a first-fit allocator for
user memory and stacks), preemptive threads, semaphores and timed sleep. This
directory holds TLA+ modules of those parts, TLC configurations that check them on
small instances, and TLAPS proofs for every value of the constants.

Contents: [1 the system](#1-the-system) · [2 the modules](#2-the-modules) · [3 the
runs](#3-the-runs) · [4 fairness](#4-fairness-and-the-liveness-properties) · [5 the
proofs](#5-the-proofs) · [6 findings](#6-what-the-code-does-that-its-text-denies) · [7
assumptions and omissions](#7-assumptions-and-what-is-not-modelled) · [8 the
plan](#8-the-plan) · [9 running it](#9-running-it)

## 1 The system

| component | source | state | operations |
|---|---|---|---|
| Buddy allocator | `src/BuddyAllocator.cpp` | `buddy[12]`, one list of free blocks for each power of two, sorted by address; a node lies in the block it lists | `buddyInit`, `buddy_alloc`, `buddy_free`; inside: `addToList`, the recursive `tryJoiningBuddies` |
| Slab allocator | `src/Cache.cpp`, `src/SlabAllocator.cpp`, `src/slab.cpp` | for each cache three lists of slabs (`fullSlabs`, `partialSlabs`, `emptySlabs`), `allocatedSlabAfterShrink`, an error; in each slab a chain of free slots and its count; the list `headCache`; 13 buffer caches for `kmalloc` | `kmem_init`, `kmem_cache_create`, `_alloc`, `_free`, `_shrink`, `_destroy`, `_info`, `_error`, `kmalloc`, `kfree` |
| First-fit allocator | `src/MemoryAllocator.cpp` | `freeMemHead`, the free segments sorted by address, each with a header in front | `mem_alloc`, `mem_free` |
| Threads, scheduler | `src/TCB.cpp`, `src/Scheduler.cpp` | `TCB::running`, `readyQueue`, `sleepingQueue`, `timeSliceCounter`; in each TCB the flags `blocked`, `finished`, `idle` and the saved context | create, start, dispatch, yield, exit, sleep |
| Queues | `h/Queue.hpp` | `head` and `tail` of each queue; elements with `next`, from one cache for all queues of a type | `add`, `remove`, `peek`, `next`, `addFirst`, `addAfter` |
| Semaphores | `src/Sem.cpp` | `val`, `blockedQueue`, `interrupted` | open, wait, signal, close |
| Trap and timer | `src/Riscv.cpp`, `src/trap.S` | `sepc`, `sstatus`, `sip.SSIP`, the privilege, the registers saved on each stack, the variables of each handler | the fourteen system calls; the timer interrupt, which counts down sleepers and ends time slices; the external interrupt |
| main | `src/main.cpp` | `userFinished` | initialises, creates `main` and `userMain1`, yields until it is over |
| Wrappers | `src/syscall_c.cpp`, `src/syscall_cpp.cpp` | `myHandle` in each `Thread` and `Semaphore` | put a code and arguments in registers and trap; `operator new` and `delete` on the first-fit heap; constructors and destructors |
| Printing, console, board libraries, tests | `src/print.cpp`, `lib/`, `test/` | | |

**How they interact.** User code reaches everything by `ecall`. The trap handler runs
with interrupts masked, so an operation of an allocator, a semaphore or the scheduler
is never interrupted; the only switch inside a handler is an explicit call of
`TCB::yield`, after which *another* thread goes on in the middle of *its* handler.
TCBs, semaphores, queues and their elements are objects of caches (`operator new`
calls `Cache::alloc`), slabs are blocks of the buddy heap, and stacks and user memory
are segments of the first-fit heap. Wake-ups go through the ready queue: a signal, a
close and the timer put threads in it.

**What is hard.** In the allocators and the queues nothing is concurrent: the difficulty
is long sequences of legal calls. Lists are threaded through the memory they manage, one word
serves several lists one after the other, and an error in one call shows many calls
later. In the thread kernel the difficulty is interleaving: a thread is suspended at
one of five places in the middle of an operation (`yield`, the timer handler, `sleep`,
`Sem::wait`, the loop of `main`) and what it finds when it goes on has changed. The
processor has one `sepc` and one `sstatus` for all of them. There is no persistence and
there are no messages, so nothing here is about crashes or lost messages; the one signal that is lost is a timer tick that comes while the pending bit
is set.

**What makes each part correct.**

- *Both heaps:* what a client holds overlaps nothing else, stays in the arena, and
  every byte is either free or held, never lost (`BlockHeap`, `NoOverlap`, `InHeap`,
  `Covered`). Free neighbours are joined (`Coalesced`; for the buddy heap the code
  does not do what its comment says, section 6).
- *Buddy:* the recursion of `tryJoiningBuddies` finds its node and ends in time.
- *Slabs:* each slab is on the one list its free slots call for, the memory of the
  caches is that of their slabs and no more, each object is with a client or on a
  chain, and objects of all caches are disjoint.
- *Threads:* a started thread is in exactly one of the processor, the ready queue, a
  semaphore and the sleepers; queues are first come, first served; a ready thread runs
  at last.
- *Semaphores:* the counter agrees with the waiters, and no permit is lost or doubled
  between the signal that wakes a waiter and the moment it runs; who waits when it is
  closed gets an error.
- *Sleep:* a thread wakes at its own interrupt, unless somebody called `sleep(0)`
  (`Alarms` says exactly who then sleeps longer, and by how much).
- *Queues:* first in, first out, with every element on one queue or free, and a failed
  allocation costs no other queue anything.
- *Traps:* user code runs in user mode and everything else in supervisor mode with
  interrupts off, and a program goes on behind the instruction it was stopped at, with
  its own registers or the answer to its own call.
- *Objects of user programs* made with `new` are disjoint.

## 2 The modules

```
 BlockHeap  <--implements--  BuddyAllocator  <--implements--  BuddyLists
     ^  ^                         ^                           ^
     |  |                         +-- BuddyAllocatorProofs <--+-- BuddyListsProofs
     |  |
     |  +---implements--  MemoryAllocator  <--extends--  MemoryLists
     |                       ^                            ^  |
     |                       +-- MemoryAllocatorProofs ---+  v
     |                                  ThreadMemory --> MemoryWords
     |
     +--uses and implements--  SlabCache  <--implements--  SlabLists
                                |  ^                           |
              SlabCacheProofs --|--+-- SlabListsProofs --------+
                                +--------> SlabSizes <---------+

 Queues  <--implements--  QueueLists

 Dispatcher  <--extends--  Semaphores  <--+
     ^                                    +-- Kernel  --implements-->  Alarms
     +-------extends----  Sleepers  <-----+     ^
                                                |
                                           KernelProofs

 Traps  <-- TrapsProofs
```

`Lemmas` (sets of numbers and induction up to a bound; who stands in a queue, and once)
serves the proofs of all modules but the traps.

`MC*` modules give constants their values; `MCSlabCache` also applies the size arithmetic
to the kernel's own sizes.

| module | what it models |
|---|---|
| `BlockHeap` | The abstract promise of a heap: an allocation is a run of units of the arena nobody else holds, until it is returned. It does not say when an allocation may fail. |
| `BuddyAllocator` | The buddy allocator over sets. `free[d]` is list `buddy[d]`; since `addToList` keeps lists sorted, the head is the least member and neighbours are the nearest. `AllocExact`, `AllocSplit`, `AllocFail` are the three ways out of `buddy_alloc`; `Free` is `buddy_free` up to the call of `tryJoiningBuddies`, and each recursive call of that is one step (`JoinFollowing`, `JoinPrevious`, `JoinStop`) on the pending argument `join`. No other operation can begin while `join` is pending. |
| `BuddyLists` | The same with the pointers: `buddy[d]` and the `next` word in the memory of each listed block; every other block has `Junk` there, so that a pointer to it is not followed unseen. The loops are walks along `next` (`Path`, which gives up after as many steps as the heap has blocks). |
| `SlabSizes` | The arithmetic of `allocateNewSlab`, `allocateBufferSlab`, `deallocateSlab` and `kalloc`, in bytes. |
| `SlabCache` | The slab layer over sets of slabs and of free slots, on a heap that keeps the promise of `BlockHeap`: the model may get any free run of blocks, or none, so what holds here holds over every such heap. How many blocks and slots a slab has comes from `SlabSizes`. |
| `SlabLists` | The slab layer with `next` pointers, slot chains in their order, counters, constructors and `headCache`. What a loop over a list visits is the least set of slabs it cannot leave (`Reach`). The six `moveFrom...To...` functions are `MoveHead` and `Move`. As in `SlabCache`, a step that would go through null or walk over slabs given back is an action of its own (`InfoNull`, `AllocStale`, `ShrinkStale`, `DestroyStale`, `InfoStale`). |
| `MemoryAllocator` | The first-fit allocator over segments `[at, memSize]`. `mem_alloc` is `AllocWhole`, `AllocSplit`, `AllocFail`; `mem_free` is one action for each combination of joins. |
| `MemoryWords` | The same calls as functions from memory to memory, word by word: `freeMemHead`, and in each segment the words `memSize` and `next`. A word a client wrote is `Junk`. `Along` is where a loop over the list is after each step, `Found` and `Before` the `current` and `previous` it ends with; a loop on a list that forms a ring is given up after as many steps as the arena has words. Also the rounding of the wrapper `mem_alloc`. |
| `MemoryLists` | `MemoryAllocator` and `MemoryWords` side by side: each step of the segments with the code's own step on the words. Since `MemoryWords` has functions, the words never prevent a step. |
| `ThreadMemory` | Programs over the C++ wrappers: objects and threads made with `new` and deleted. `DestroyThread` is `~Thread`, `Delete` the `operator delete` that follows, two system calls with other threads between them. Over `MemoryWords` alone, since what `~Thread` does has no counterpart among segments. |
| `Dispatcher` | Threads and the switch. `at[t]` says where thread `t` goes on; `Dispatch(q, place)` is `TCB::dispatch` called from `place` after the caller changed the ready queue to `q`. |
| `Semaphores` | `Sem::wait` is `WaitPasses`, or `WaitBlocks` and later `ResumeWait`, each with its `Answer`; `Signal`, `Close`, `Open`. |
| `Sleepers` | `TCB::sleep` (`Sleep`, `SleepYields`, `ResumeSleep`) and the timer interrupt: `TimerTick` when the slice goes on, `TimerPreempt` and later `ResumeTimer` when it ends, and the hardware's `TimerSets`. |
| `Alarms` | The abstract promise of sleep: a thread that sleeps for *n* is woken by the *n*-th interrupt the kernel takes (`Ring`). The exception is part of the promise: who sleeps for 0 while nobody else sleeps is not woken, and the next interrupt puts everybody off by the modulus of `time_t` (`Oversleep`). |
| `Kernel` | The composition: any user program, the scheduler, the timer, `wrapperMain` and the loop of `main`. `wrapperMain` sets `userFinished` (`UserMainReturns`) in one step and ends its thread (`BodyStep`) in another, and can be preempted between them. |
| `Queues` | What the queues promise: sequences, and which entries a failed allocation dooms. |
| `QueueLists` | `h/Queue.hpp` with its pointers; elements come from one pool and may fail to come. `addFirst` and `addAfter` follow the protocol of their only client, `TCB::sleep`. |
| `Traps` | One processor with its privilege, `pc`, `a0`, `sepc`, `sstatus` and pending bit; bodies that compute, call wrappers and return; `supervisorTrap`, the handler and its variables, and the ways into user mode (`sret` from a handler, `popSppSpie` of a new thread) and out of a thread (the second `ecall` of `thread_exit`). Which thread is switched to is left open. |

Ghost variables (in no code): `owned`, `used` and `held` in `ThreadMemory` (what
clients hold), `live`, `built`, `stale` and `fault` in the slab modules, `lost` and
`fault` in `QueueLists`, `owed` (permits), `released` (waiters that a close has woken and that
have not run) and `counted` (interrupts taken for one tick) in the kernel, `due` (where and with what each body must go on) in `Traps`. `fault`
marks a step that would read memory the cache no longer owns or go through null;
nothing is modelled after it.

## 3 The runs

| run | question | instance | states |
|---|---|---|---|
| `buddy` | Are blocks disjoint, in the heap, accounted for, does the recursion stay on its lists, and does the allocator implement `BlockHeap`? | `MaxDegree` 4: a heap of 8 blocks; requests 0 to 9 | 20,920 |
| `buddy_lists` | Do the pointers implement the sets? | the same heap, one request size for each degree | 20,920 |
| `buddy_merges_only_buddies` | violated: section 6 | as `buddy` | |
| `slab_cache` | Are lists, blocks and objects consistent; do objects never overlap? | three caches (two slots to a slab; one slot in two blocks; a `kmalloc` size), two blocks for slabs | 22,040 |
| `slab_lists` | Do the pointers implement the sets, do counts agree with chains, and are objects handed out constructed? | two caches, three blocks for slabs | 87,220 |
| `slab_shrink_stale` | violated: section 6 | three caches, two blocks for slabs | |
| `memory` | Are segments disjoint, complete and joined; does the allocator implement `BlockHeap`; is the list in memory that of the segments? | 18 words, header 2, block 2; requests of 0 to 8 words | 61,448 |
| `thread_delete` | violated: section 6 | the same memory; threads, and objects of one block and of three | |
| `kernel` | Is any thread lost or in two places, any permit lost, any queue overtaken, any sleeper late; does a waiter of a closed semaphore get its error? | 3 user threads, `main`, idle, 1 semaphore, slice 2, sleeps of 0 to 3, words modulo 4 | 1,583,972 |
| `kernel_live` | Does every ready thread and every sleeper run again? | 2 user threads, sleeps of 0 to 2, words modulo 8 | 110,690 |
| `queues` | Do the pointers implement sequences; is each element on one queue or free, whatever allocations fail? | 3 queues (one kept sorted), 4 elements, 3 entries | 15,455 |
| `traps` | Is the kernel atomic, user code unprivileged, and does every body go on where it was, with its own answer? | `main`, 2 threads, bodies of 3 instructions, all 14 calls | 274,963 |

**Why the bounds are enough.**

- *Buddy.* Eight blocks have three levels of splitting, four nodes on a list and every
  alignment of two and four blocks, misaligned ones included; the test for a right
  half behaves differently for block 0, for block 2^d and for the others, and all
  three exist at the two lowest degrees. Degrees beyond that repeat the same step; the
  theorems hold for all of them.
- *Slabs.* A slab has one slot or two: it goes from empty to full in one step or two,
  and back. With three blocks for slabs a list has a head, a middle and an end. Two
  blocks and three caches let caches compete for memory and fail. A block of 5 bytes
  with headers of 1 makes a slab with two slots and an object that needs two blocks; the
  arithmetic is evaluated apart from that with the kernel's own sizes (`KernelSizesFit`, an
  assumption TLC evaluates before the run; proved for all sizes in section 5), for every object
  size to 5000 and around every power of two, where a slab grows.
- *First fit.* 18 words hold four segments with one block each, so a segment can have
  free neighbours on neither, either or both sides and other free segments before and
  after; requests of 0 words, requests that are not whole blocks and rests too short for
  a segment occur. The arena begins at 32, beyond its own length, so that an address
  taken for a length is longer than the arena, as in the code.
- *Queues.* Four elements make a queue with a first, a middle and a last besides one
  on another queue, and run out.
- *Traps.* While one thread is suspended in a handler another can be so too, and `main`
  can run between them: three threads reach every order in which two saved statuses can
  be read and restored. Three instructions tell the one that trapped, the next, and any
  other.
- *Kernel.* Three threads are the smallest number at which one runs while two stand in
  one queue, and at which a sleeper is put between two others. Semaphores share no
  state with each other, so one is enough. `MaxDebt` 2 lets both others wait;
  `MaxValue` 1 and `InitialValues` {1} (0 and 1 in the live run) cover open, taken and
  contended. The slice is 2, as in the code. `Word` stands for 2^64: a sleep of 0
  makes `time_left` wrap, and a small modulus lets the wrapped sleeper, and those behind
  it, wake within the run. 4 is the least that has room for sleeps of 3.
- *Symmetry.* The user threads other than `UserMain` in `kernel`, the threads in `traps`,
  and elements and entries in `queues` are interchanged, never in a run with a liveness
  property.
- *Deadlock* is checked, except in the slab runs, which stop after a fault and when
  every descriptor has been used, and in `queues`, which stops after a write through
  null; the kernel stops when `main` has returned.

Each property of a passing run has a mutant in `PROJECT.json`: an operator of the
model changed as a plausible bug would change the code, under which TLC finds that
property violated.

## 4 Fairness and the liveness properties

`FairSpec` assumes two things.

- `WF_vars(KernelStep)`: the processor executes. `KernelStep` is what happens without
  a decision of a user program: returning from a suspension, entering a body, taking a
  pending interrupt, the loop of `main`. There is one processor and its next
  instruction is always one of these or the user's, so this step stays enabled until
  it is taken.
- `WF_vars(Device)`: the timer ticks for ever. The handler's bit is set by the
  machine-mode timer of the board library, periodically.

Nothing is assumed of user programs: one may compute for ever, never yield, never
signal. `ReadyRuns` therefore rests on preemption alone, and says that a thread in the
ready queue runs although others keep yielding, waking and being created, although the
first thread that yields to an empty queue gives way to the idle thread, and although
a tick may be taken twice. `SleepersRun` says the same of a sleeper, a sleep of 0
included. Both are qualified by `Over`: when `main` returns the machine stops, whoever
is left. There is no liveness for waiters of a semaphore: whether anybody signals is
up to the programs.

## 5 The proofs

| module | theorems | for every |
|---|---|---|
| `BuddyAllocatorProofs` | `TypeCorrect`, `BlocksDisjoint` (`NoOverlap`), `StaysInHeap`, `JoinFindsNode`, `JoinStopsAtTop`, `NothingLeaks` (`Covered`), `ImplementsHeap` | number of degrees and set of requests |
| `BuddyListsProofs` | `ListsInOrder` (`ListsClimb`), `ImplementsSets` (`ImplementsBuddyAllocator`) | number of degrees and set of requests |
| `MemoryAllocatorProofs` | `TypeCorrect`, `SegmentsDisjoint` (`NoOverlap`), `StaysInHeap`, `NothingLeaks` (`Covered`), `FreeSegmentsJoined` (`Coalesced`), `ImplementsHeap`, `ListInMemory` (`WordsAgree`) | arena, header and block size, set of requests, address of the arena |
| `TrapsProofs` | `TypeCorrect`, `PrivilegeKept`, `KernelAtomic` (`KernelUninterrupted`), `GoesOn` (`GoesOnWhereItWas`) | set of threads and of calls, length of the bodies |
| `SlabCacheProofs` | `SlabsFilled`, `BuffersFit`, `TypeCorrect`, `SlabsOnRightList` (`ListsMatchSlots`), `NoSlabLeaks` (`SlabsBacked`), `ObjectsAccounted` (`LiveAccounted`), `ImplementsHeap` (`ObjectPromise`) | set of caches, sizes of objects, headers and blocks, length of the heap |
| `SlabListsProofs` | `CountsRight` (`CountsAgree`), `HandedOutConstructed` (`ConstructedButLast`), `ImplementsSets` (`ImplementsSlabCache`) | the same, and set of caches with a constructor |
| `KernelProofs` | `TypeCorrect`, `ThreadsInOnePlace` (`OnePlace`), `WaitersAgree` (`WaitersCounted`), `PermitsKept` (`PermitsAccounted`), `ClosedWaitsFail` (`ClosedWaitersFail`), `TicksBounded` (`TickTakenTwiceAtMost`), `FirstComeFirstServed` (`NoOvertaking`), `SleepersWakeOnTime` (`SleepPromise`) | set of threads and of semaphores, bounds on counters, sleeping times, time slice, modulus |

Each proof module also has `Invariance`, that its inductive invariant holds.

*Assumptions.* `DegreesAssumption`, `SizeAssumption` (`Size` doubles from 1; it
replaces `2^d`, about which the provers know nothing), `RequestsAssumption`, and over
the pointers `NullAssumption` (null is not a block); for the
first-fit allocator `SizesAssumption` (a header fits in the arena, blocks have a
length), and over the words `WordsAssumption` (the arena lies behind null and its next, a
header has its two words, and the allocator serves what the wrapper rounds up to); for the traps `TrapsAssumption` (`Main` is not one of the threads, programs
call functions that exist); for the slabs `CachesAssumption` (objects and blocks have a
length) and `LengthsAssumption` (no object is longer than 2^30 blocks and no
slab longer than `INT_MAX` bytes, since `allocateNewSlab` computes `1 << cnt` and its
product with the block size as an `int`; the heap refuses slabs far shorter), and over their pointers
`PointersAssumption` (null is not a slab, and what has a constructor is a cache); for the
kernel `ThreadsAssumption` (finitely many threads, `Main` and `Idle` not among them, a slice of one interrupt at
least, semaphores told apart from the places a thread can go on at), `ValuesAssumption`
and `TimesAssumption` (a word has more than one value, and sleeping times fit in it). TLC
evaluates them in the runs. One theorem has a hypothesis of its own, and needs it:
`TicksBounded` is about slices
of two interrupts or more (`DEFAULT_TIME_SLICE` is 2): with slices of one a tick is handed
from thread to thread until one goes on inside its handler.

*Buddy.* The inductive invariant is `IInv == TypeOK /\ NoOverlap /\ InHeap /\
JoinListed`. `NoOverlap` alone is not inductive: that the upper halves of a split of
degree `cur`, one for each degree down to the wanted one, lie apart from each other
and inside the old block needs that sizes double (`SizeGrows`); that a merge stays
within the lists needs `InHeap`, since two blocks of the highest degree do not fit in
the heap; and that what is merged are two listed blocks needs `JoinListed`. The proof
never uses alignment, and cannot: the code merges neighbours that are not buddies
(section 6), and the theorems show that this costs fragmentation but never safety.
`Covered` rests on `LeadingBit`: an offset into a split block lies in the piece named
by its leading bit, the greatest degree whose size does not exceed it
(`GreatestMember` in `Lemmas`).

*Buddy lists.* What the loops see is a walk along `next`, but that a list is in order can
be said without one: its head is the first of its blocks, and the next word of each block
the first of those above it (`Linked`). `LinkedWalk` shows that this fixes the walk:
it meets the blocks in rising order, each once, and ends at null within the bound of
`Path`. So the place where `addToList` stops is the first block above the new one
(`PlaceFacts`), the two nodes of `tryJoiningBuddies` are the neighbours by address
(`FollowingNode`, `PreviousNode`), and inserting and unlinking keep `Linked` for a set
with one block more, or one fewer. `IInv` is `Linked` for every list together with the
invariant of `BuddyAllocator` for the sets the pointers stand for. The second part is
what makes the first inductive: two lists use words of the same memory, so that writing
the words of one leaves the others alone rests on the lists being disjoint. It is not
proved again: each step is shown to be the step of `BuddyAllocator` of the same name,
which is also the refinement, and the lemmas of `BuddyAllocatorProofs` are instantiated.

*First fit.* `IInv` says the segments, whoever holds them, tile the arena (`Tiles`),
that none is both free and held, and `Coalesced`. `CutTiles` and `GlueTiles` say that
cutting a segment at a header and gluing two that touch keep a tiling; each action is
one of these, or hands a segment over, and the steps only account for who holds what.
`TouchingBefore` and `TouchingAfter` say that a free segment that touches the freed
one is its neighbour on the list, so that looking at the two neighbours is enough for
`Coalesced`.

*First-fit words.* `WordsAgree` speaks of the whole list, but a step changes it at one
place, so what is inductive is said place by place, as for the buddy lists: the next word
of null (`freeMemHead`) and of each free header is the least free header above it, or null
(`Linked`). `LinkedWalk` gets the list back: it meets the free headers, each once, in rising
order, and is at null within as many steps as the arena has words, since each header takes
one at least. `StopsAt` says where a loop ends: at the first free header in the set it looks
for, with the one before it on the list in `previous`; for `mem_alloc` that is the first fit
(`FitFound`), for `mem_free` the last header below (`PreviousFound`). `Represents` is
`Linked` together with the lengths in all headers, the null next of held segments, and the
tiling. It holds of any two sets of segments rather than of `free` and `used`, so that the
intermediate memories of `mem_free` (linked but not joined, joined with one neighbour) can be
spoken of: `LinksSegment` and `JoinsSegments` are applied one after the other, and only the
result is compared with the step of the segments. `TakesSegment` and `SplitsSegment` do the
same for `mem_alloc`, and `WritesInside` says that a client that fills what it asked for stays
within its segment, which needs that the wrapper rounds up (`RoundedUp`). That the words a
step changes belong to no other header rests on the segments being disjoint, which is not
proved again: with its words the allocator takes only steps of `MemoryAllocator`
(`StepsOfWords`), so `Invariance` carries over.

*Traps.* That a body goes on where it was says nothing about a body that does not run,
so `IInv` says for every thread where what it needs is kept while it does not run: in
`sepc` and the frame for one in a handler, in the variables of the handler for one that
yielded (`CallsSaved`, `InterruptsSaved`), nowhere for one that has not begun
(`FreshAtStart`). That the status restored for a body is user mode with interrupts on
again needs that a status saved by a handler is one of user mode, though `main` and
`thread_exit` leave another in `sstatus` (`Privilege`, `Masked`, `OneInside`). That the
answer is the one of the function that was called needs that wrappers and
`syscallHandle` agree on the codes (`CodesAgree`, `CodesServed`).

*Slabs.* `IInv` is the four properties the run checks and two more: that what `shrink`
leaves on `emptySlabs` is on no other list of the cache (`StaleApart`), without which a
free could move a slab the cache no longer has, and that slabs lie behind the block of
the descriptors (`SlabsInArena`). A step takes a slot, gives one back, moves a slab, gets
a slab or gives slabs back; each of these is one lemma (`TakesSlot`, `GivesSlot`,
`MovesSlab`, `GrowsSlab`, `GivesSlabs`), and the actions only say which lists it happens
on. `ObjectPromise` needs in addition that a slab has room for its slots. `SlabsFilled`
shows that from the arithmetic of `allocateNewSlab`, and `BuffersFit` that the loop of
`kalloc` finds a buffer for every size up to 2^17: both rest on the loops finding the
least power of two that is enough (`LeastPower`).

*Slab lists.* The order of a slab list is that of use, so nothing fixes the next pointers
as addresses do in the buddy heap, and their proof does not look at order. `Listed` says
of every list that nothing leads to its head, that no slab is led to from two sides, and
that it ends in null or in what `shrink` left. From that follows what each loop visits
after the head has been taken off (`ListedPopped`), a slab has been put in front
(`ListedPushed`) and a slab inside has been cut out (`ListedUnlinked`): the same set with
one slab less, or more. All lists use the same `next` words; that they are disjoint is not
proved again, since each step is shown to be the step of `SlabCache` of the same name, which
is also the refinement, and the lemmas of `SlabCacheProofs` are instantiated. The counts
need that a chain has each slot at most once (`ChainsCounted`), which rests in turn on a
client freeing only what it holds. `ConstructedButLast` is about the objects clients hold
and is not inductive: an object that is freed and handed out again is constructed because
its *slot* was when the slab was made and stays so (`BuiltButLast`; both speak of the
caches that have a constructor and no destructor).

*Kernel.* `IInv` says who stands where, as sets of threads: nobody twice in a queue
(`StandOnce`), waiters and sleepers at the place in the code that made them wait
(`WaitInPlace`), the flag `blocked` set for those and no others (`BlockedWait`), the
ready and the running apart from them (`ReadyApart`), and every thread that has started
and not finished somewhere (`ActiveSomewhere`). `OnePlace` alone is not inductive: that a
wake-up does not put a thread into the ready queue twice needs that who is woken was
blocked, and that who is ready is not; that the switch loses nobody needs that `dispatch`
puts back exactly the threads that are neither blocked nor finished (`DispatchFacts`).
The counts of `OnePlace` then follow from injectivity. The permits are a second
invariant, `Accounts`: `WaitersCounted` and `PermitsAccounted` hold one another up, since
a signal that wakes somebody moves a permit from the counter to a thread that is between
its wake-up and its next step. `NoOvertaking` is an action property: each step appends to
a queue, takes its head, or empties it (`OrderKept`). `ClosedWaitersFail` is about the
step at which a waiter leaves `released`, and needs that until then it stays where it
waits for a semaphore that is closed for good (`ReleasedWait`): only the thread that
runs changes its place (`OthersStayInWait`), and no step reopens a semaphore.

*Sleepers.* The queue holds differences. `TimesAddUp` shows that `TimeTo` is their sum,
`InsertTimes` that a sleep leaves the sums of the others as they were and that its own is
what was asked for, `CountedTimes` and `DueTimes` that an interrupt makes every sum 1
less and takes out those that reach 0. Injectivity of the queue (from `IInv`) turns sums
by position into an alarm for each thread. The handler counts the head down before it
looks at it: a head without time left, which only a sleep of 0 that found nobody asleep
leaves, wraps, and all sums with it (`InterruptPutsOff`). Since no alarm is below 0, the
head is without time left exactly when somebody's alarm is 0 (`AlarmsWait`), so the cases
of the code are those of `Alarms`.

*Refinement.* `ImplementsHeap` maps held blocks (segments, objects) to runs: an
allocation is a `Grant`, a free a `Return`, every split, join, shrink and change of list
a stuttering step. `SleepersWakeOnTime` maps `Sleep` to `Set` and both ways out of the
timer interrupt to `Ring` or `Oversleep`.

*Induction.* Recursive definitions in modules with proofs are recursive functions on an
interval (`TimesTo`, `Power2`, `Path`, `Along`). That they exist, and what they compute, is shown by
induction up to the bound of the interval, which `ClimbsTo` derives from facts about
finite sets: a bounded set of naturals has a greatest member (`GreatestMember`).

*Only model-checked:* liveness (`ReadyRuns`, `SleepersRun`), since it and `ENABLED` are
out of the prover's reach; `QueueLists`, which walks lists with
recursive operators and needs an invariant that names the sequence of each queue, since
unlike those of the heaps its order is not fixed by addresses and, unlike that of the slabs,
it matters; and `ThreadMemory`, whose only run shows a violation.

## 6 What the code does that its text denies

| run | what happens |
|---|---|
| `buddy_merges_only_buddies` | `tryJoiningBuddies` says it joins a block with its buddy. Its test, `blockNumber(end)/2 != blockNumber(start)`, holds for a right half only when it is block 2^size; other odd blocks are merged with the block that follows (3 with 4), and for the same reason a right half may not find its buddy. Safety is not affected (section 5), fragmentation is. |
| `slab_shrink_stale` | `shrink` gives the empty slabs back to the heap and leaves `emptySlabs` pointing at them. The next allocation of the cache takes a slot from memory that may belong to another client. A later `shrink`, `destroy` or `kmem_cache_info` walks over it. |
| `thread_delete` | `~Thread` deletes `&myHandle`, an address inside the object. `mem_free` takes the word `next` of the object's segment for the length of another segment and puts that on the list. When the object is freed next, the word becomes a pointer: the list then holds a segment as long as its own address, and a request that no segment before it can serve is given memory over the objects that follow. `test/userMain1.cpp` deletes threads and goes on. |

Five more departures are in the models without a run that shows them. The loop of
`allocateNewSlab` that constructs objects stops one slot early, so the last object of
each slab reaches a client unconstructed (`ConstructedButLast` holds of the others;
`test/userMain2.cpp` checks for the pattern but never fills a slab). `kmem_cache_info`
of a cache without a partial slab reads through null (`InfoNull`). `mem_alloc` tests
whether the segment found reaches the end of the arena and remarks that this should not
happen; it happens whenever a request ends exactly there, and that request is refused
(`ReachesEnd`). `Queue::add` goes on when it gets no element: the entries on the queue
are then lost with the next one that is added (`doomed`). And a sleep of 0 that finds
nobody asleep lasts 2^64 interrupts, and so does, on top of its own time, every sleep of
a positive time that is queued behind it before the next interrupt (`Oversleep` of
`Alarms`).

The other properties hold. In particular no interleaving of wait, signal, close, sleep,
yield, exit and the timer loses a thread or a permit, and with the exception just named
none wakes a thread before or after its interrupt. That is counted in interrupts the
kernel takes: since the pending bit outlives a switch inside the handler, one tick of the
timer may be taken twice, though never more often (`TickTakenTwiceAtMost`), and a tick
that comes while the bit is set is lost.

## 7 Assumptions, and what is not modelled

- *Context switch.* `contextSwitch.S` stores and loads `ra` and `sp` and has no `ret`:
  it falls through to whatever the linker puts behind it. The models have the switch
  its callers rely on. Of the registers `Traps` has `a0`, which carries codes and answers;
  the others are saved and loaded with it. Stacks are not modelled.
- *Interrupts.* `Kernel` lets them come between any two user-mode steps and never in a
  handler or in `main`. That this is what the processor does is checked and proved of
  `Traps`, which assumes that `main` is entered with `SIE` clear. The external interrupt
  is handled by the console library, a binary, and `getc` and `putc` with it; they are
  taken to return without a switch. The case `a0 = 0` of the handler is reached by no
  wrapper and left out.
- *Static initialisation.* `sleepingQueue` is created by the first thread; the models
  start after `main` has made its two threads.
- *Clients* free only what they hold, with the size they asked for; start a thread
  once; use a cache until they destroy it. `buddy_free` is also called with an address
  beyond the heap; `mem_free` of such an address changes nothing and is left out.
- *Memory of threads.* In the kernel model allocation never fails, and nothing is said of
  TCBs and stacks, which the code never frees. The idle thread is made anew by each
  `create_thread`; `Create` resets its place.
- *Queue elements.* The two element caches of `Queue<TCB>` and `Queue<Periodic>` are one
  pool in `QueueLists`. The build has `-fcheck-new`, so a failed `new` yields null and
  runs no constructor; `add` goes on with it, `addFirst` and `addAfter` write through it,
  which ends the model.
- *Thread objects* have their two words and no stack in `ThreadMemory`: a stack is one
  more object that is never freed. Clients write all they asked for and nothing else.
- *Sizes.* `KERNEL_HEAP_END_ADDR` lies 2^24 bytes from the start while `buddyInit`
  lists 2^23: the upper half is never allocated. The model keeps both
  (`KernelHeapEnd`, `Size[Top]`). The first-fit arena begins at 2^24. Products that
  wrap (`size * MEM_BLOCK_SIZE` for sizes of 2^58 blocks) are not modelled: no program in
  the repository asks for so much.
- *Slab sizes* are computed for objects up to 2^30 bytes. Above 2^17, `kalloc` indexes
  past its array; no client asks for that. The page of descriptors and its end, and the
  name that is copied, are not modelled.
- *Printing, the test programs* and what the other wrappers do with their arguments are
  not modelled; the models let clients do what any program may.
- *Hazards without a property* are listed in `PROJECT.json` with the reason.

## 8 The plan

The order was: the buddy allocator, since everything else in the kernel lies in its
memory; the promise of a heap, so that the slab layer can be checked over any heap that
keeps it; the slab layer; the first-fit allocator; the thread kernel; the traps under
it; the queues; the sizes of slabs; the words of the first-fit heap and the threads that
programs delete. These are done, with proofs of every safety property of the modules
without pointers, and of the pointers of the buddy allocator, of the slab lists and of the
first-fit heap. What is left, in this order:

1. Proofs about `QueueLists`, where the invariant has to name the sequence each queue
   stands for.
2. Stacks and TCBs that cannot be allocated, in `Kernel`; the stack of the idle thread,
   whose pointer is set outside its memory.

`SlabCache` is not composed with `BuddyAllocator` on one instance: it holds over every
heap that keeps the promise of `BlockHeap`, and that the buddy allocator keeps it is
proved.

## 9 Running it

    tlc -workers 2 -config MCKernel.cfg MCKernel.tla
    tlapm BuddyAllocatorProofs.tla

`PROJECT.json` lists the runs with their configurations, the lines of source each
definition models, the mutants, the findings, the hazards and the theorems.

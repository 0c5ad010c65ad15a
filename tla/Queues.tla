------------------------------- MODULE Queues -------------------------------
(***************************************************************************)
(* What the queues of the kernel do, the allocation of their elements      *)
(* included: the ready threads, the waiters of each semaphore, and the     *)
(* sleepers.  They are first in, first out.  When the element for a new    *)
(* entry cannot be allocated the entry is not queued, and the entries that *)
(* are on the queue are doomed: they leave in their order, but the next    *)
(* entry that is added, or fails to be, replaces those that are left.      *)
(***************************************************************************)
EXTENDS Integers, Sequences

CONSTANTS
  Queues,
  Sorted,   \* those that are kept sorted by their client: the sleepers
  Data,     \* threads and sleepers
  NULL      \* nullptr

VARIABLES
  queue,    \* what is on each queue
  doomed,   \* the queues whose entries the next one replaces
  result    \* of the last operation that returns something

S == INSTANCE SequencesExt

Init ==
  /\ queue  = [q \in Queues |-> <<>>]
  /\ doomed = {}
  /\ result = NULL

Peek(q) == IF queue[q] = <<>> THEN NULL ELSE Head(queue[q])

Keeps(q) == IF q \in doomed THEN <<>> ELSE queue[q]

(* TCB::sleep adds to the sleepers when there are none, or else inserts.   *)
Add(q, d) ==
  /\ q \in Sorted => Peek(q) = NULL
  /\ queue'  = [queue EXCEPT ![q] = Append(Keeps(q), d)]
  /\ doomed' = doomed \ {q}
  /\ UNCHANGED result

AddFails(q) ==
  /\ q \in Sorted => Peek(q) = NULL
  /\ queue'  = [queue EXCEPT ![q] = Keeps(q)]
  /\ doomed' = IF Keeps(q) = <<>> THEN doomed \ {q} ELSE doomed \cup {q}
  /\ UNCHANGED result

Remove(q) ==
  /\ result' = Peek(q)
  /\ queue'  = [queue EXCEPT ![q] = IF @ = <<>> THEN @ ELSE Tail(@)]
  /\ doomed' = IF Len(queue[q]) <= 1 THEN doomed \ {q} ELSE doomed

Insert(q, i, d) ==
  /\ q \in Sorted /\ Peek(q) # NULL
  /\ queue' = [queue EXCEPT ![q] = S!InsertAt(@, i, d)]
  /\ UNCHANGED <<doomed, result>>

Place(q, d) == S!SelectInSeq(queue[q], LAMBDA c : c = d)

NextOf(q, d) ==
  /\ d \in S!ToSet(queue[q])
  /\ result' = IF Place(q, d) = Len(queue[q]) THEN NULL ELSE queue[q][Place(q, d) + 1]
  /\ UNCHANGED <<queue, doomed>>

Next ==
  \E q \in Queues :
    \/ AddFails(q)
    \/ Remove(q)
    \/ \E d \in Data :
         \/ Add(q, d)
         \/ Insert(q, 1, d)                                                 \* addFirst
         \/ \E p \in S!ToSet(queue[q]) : Insert(q, Place(q, p) + 1, d)        \* addAfter
         \/ NextOf(q, d)

Spec == Init /\ [][Next]_<<queue, doomed, result>>
=============================================================================

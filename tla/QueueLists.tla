----------------------------- MODULE QueueLists -----------------------------
(***************************************************************************)
(* The queues of h/Queue.hpp with their pointers.  The elements come from  *)
(* a cache that all queues of one type share; here one pool serves both    *)
(* types, which allows more.  The build has -fcheck-new: a failed new      *)
(* yields null and constructs nothing.  add then goes on with the null     *)
(* element; addFirst and addAfter write through it, and nothing is         *)
(* modelled after that.  It implements Queues.                             *)
(***************************************************************************)
EXTENDS Integers, FiniteSets, Sequences

CONSTANTS Queues, Sorted, Data, NULL,
          Elems   \* the elements the caches can provide

VARIABLES
  head, tail,     \* of each queue
  data, next,     \* of each element
  unused,         \* the elements in no queue, for the cache to hand out
  result,         \* of the last operation that returns something
  lost,           \* elements nothing points to any more (ghost)
  fault           \* whether null has been written through (ghost)

vars == <<head, tail, data, next, unused, result, lost, fault>>

S == INSTANCE SequencesExt

(* The elements from e on, n of them at most. *)
RECURSIVE From(_, _)
From(e, n) == IF e = NULL \/ n = 0 THEN <<>> ELSE <<e>> \o From(next[e], n - 1)

Walk(q) == From(head[q], Cardinality(Elems))
Elements(q) == S!ToSet(Walk(q))

(* What the pointers stand for. *)
Q == INSTANCE Queues WITH
       queue  <- [q \in Queues |-> [i \in DOMAIN Walk(q) |-> data[Walk(q)[i]]]],
       doomed <- {q \in Queues : tail[q] = NULL /\ head[q] # NULL}

Init ==
  /\ head   = [q \in Queues |-> NULL]
  /\ tail   = [q \in Queues |-> NULL]
  /\ data   = [e \in Elems |-> NULL]
  /\ next   = [e \in Elems |-> NULL]
  /\ unused = Elems
  /\ result = NULL
  /\ lost   = {}
  /\ fault  = FALSE

-----------------------------------------------------------------------------
(* new Elem(d, nullptr). *)
New(e, d) ==
  /\ e \in unused
  /\ unused' = unused \ {e}
  /\ data'   = [data EXCEPT ![e] = d]

(* The next pointers, but for the given pairs. *)
Link(pairs) ==
  next' = [e \in Elems |-> IF e \in {p[1] : p \in pairs}
                          THEN (CHOOSE p \in pairs : p[1] = e)[2]
                          ELSE next[e]]

Peek(q) == IF head[q] = NULL THEN NULL ELSE data[head[q]]

(* The rest of add: e, which may be null, is the new last element.         *)
Attach(q, e) ==
  /\ tail' = [tail EXCEPT ![q] = e]
  /\ IF tail[q] = NULL
     THEN /\ head' = [head EXCEPT ![q] = e]
          /\ lost' = lost \cup Elements(q)
          /\ Link({<<e, NULL>>})
     ELSE /\ Link({<<tail[q], e>>, <<e, NULL>>})
          /\ UNCHANGED <<head, lost>>

Add(q, d, e) ==
  /\ q \in Sorted => Peek(q) = NULL
  /\ New(e, d)
  /\ Attach(q, e)
  /\ UNCHANGED <<result, fault>>

AddFails(q) ==
  /\ q \in Sorted => Peek(q) = NULL
  /\ Attach(q, NULL)
  /\ UNCHANGED <<data, unused, result, fault>>

-----------------------------------------------------------------------------
(* Mutants: tail is left alone; it is reset at every removal.              *)
TailAfterRemoveKept(q)  == tail[q]
TailAfterRemoveReset(q) == NULL

TailAfterRemove(q) == IF next[head[q]] = NULL THEN NULL ELSE tail[q]

Remove(q) ==
  /\ result' = Peek(q)
  /\ IF head[q] = NULL
     THEN UNCHANGED <<head, tail, next, unused>>
     ELSE /\ head' = [head EXCEPT ![q] = next[head[q]]]
          /\ tail' = [tail EXCEPT ![q] = TailAfterRemove(q)]
          /\ Link({<<head[q], NULL>>})
          /\ unused' = unused \cup {head[q]}
  /\ UNCHANGED <<data, lost, fault>>

-----------------------------------------------------------------------------
(* What TCB::sleep does to the sleepers when there are any. *)

AddFirst(q, d, e) ==
  /\ q \in Sorted /\ Peek(q) # NULL
  /\ New(e, d)
  /\ Link({<<e, head[q]>>})
  /\ head' = [head EXCEPT ![q] = e]
  /\ tail' = [tail EXCEPT ![q] = IF @ = NULL THEN e ELSE @]
  /\ UNCHANGED <<result, lost, fault>>

(* The first element with d. *)
Holder(q, d) == Walk(q)[S!SelectInSeq(Walk(q), LAMBDA e : data[e] = d)]

After(previous, e) == {<<previous, e>>, <<e, next[previous]>>}

AddAfter(q, p, d, e) ==
  /\ q \in Sorted /\ Peek(q) # NULL
  /\ p \in {data[f] : f \in Elements(q)}
  /\ New(e, d)
  /\ Link(After(Holder(q, p), e))
  /\ tail' = [tail EXCEPT ![q] = IF next[Holder(q, p)] = NULL THEN e ELSE @]
  /\ UNCHANGED <<head, result, lost, fault>>

InsertFails(q) ==
  /\ q \in Sorted /\ Peek(q) # NULL
  /\ fault' = TRUE
  /\ UNCHANGED <<head, tail, data, next, unused, result, lost>>

NextOf(q, d) ==
  /\ d \in {data[e] : e \in Elements(q)}
  /\ result' = IF next[Holder(q, d)] = NULL THEN NULL ELSE data[next[Holder(q, d)]]
  /\ UNCHANGED <<head, tail, data, next, unused, lost, fault>>

-----------------------------------------------------------------------------
Next ==
  /\ ~fault
  /\ \E q \in Queues :
       \/ AddFails(q) \/ Remove(q) \/ InsertFails(q)
       \/ \E d \in Data : NextOf(q, d)
       \/ \E d \in Data, e \in unused :
            \/ Add(q, d, e) \/ AddFirst(q, d, e)
            \/ \E p \in Data : AddAfter(q, p, d, e)

Spec == Init /\ [][Next]_vars

-----------------------------------------------------------------------------
(* An element is on one queue, once, or for the cache to hand out, and     *)
(* never both, so that no queue can damage another, whatever allocations   *)
(* have failed; it is lost only with a queue a failure has doomed.         *)
ElementsAccounted ==
  /\ \A q \in Queues : S!IsInjective(Walk(q))
  /\ \A e \in Elems :
       Cardinality({q \in Queues : e \in Elements(q)}) =
         IF e \in unused \cup lost THEN 0 ELSE 1
  /\ unused \cap lost = {}

(* The pointers implement the queues: first in, first out, insertion where *)
(* it was asked for, the answers of remove and next, and no more lost than *)
(* the entries of a doomed queue.                                          *)
ImplementsQueues == Q!Spec
=============================================================================

----------------------------- MODULE BlockHeap -----------------------------
(***************************************************************************)
(* What every heap of the kernel promises its clients, whatever free lists *)
(* it keeps: an allocation is a run of consecutive units of the arena that *)
(* nobody else holds, and it stays the holder's until it is given back.    *)
(*                                                                         *)
(* A unit is a 4096-byte block for the buddy allocator and a header-sized  *)
(* cell for the first-fit allocator.  The promise says nothing of when an  *)
(* allocation may fail: both allocators fail while memory is left, when    *)
(* no single free run is long enough.                                      *)
(***************************************************************************)
EXTENDS Integers

CONSTANT ArenaSize   \* units in the arena, numbered from 0

VARIABLE held        \* the runs clients hold, as pairs <<first unit, length>>

Arena == 0 .. ArenaSize - 1

Disjoint(r, s) == r[1] + r[2] <= s[1] \/ s[1] + s[2] <= r[1]

Init == held = {}

(* A client obtains the run of n units from s on. *)
Grant(s, n) ==
  /\ s + n <= ArenaSize
  /\ \A r \in held : Disjoint(r, <<s, n>>)
  /\ held' = held \cup {<<s, n>>}

(* Runs are given back: one by a client, or all that a client that ceases  *)
(* to exist holds.                                                         *)
Return(R) == held' = held \ R

Next ==
  \/ \E s \in Arena, n \in 0 .. ArenaSize : Grant(s, n)
  \/ \E R \in SUBSET held : Return(R)

Spec == Init /\ [][Next]_held
=============================================================================

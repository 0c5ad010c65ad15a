------------------------------- MODULE Alarms -------------------------------
(* What time_sleep does for its callers, however many sleep.  A sleep of n  *)
(* ends with the n-th timer interrupt the kernel takes, neither earlier nor *)
(* later, with one exception: a thread that sleeps for 0 while nobody else  *)
(* sleeps is not woken, and the first interrupt it lives to see makes it    *)
(* and all who sleep with it oversleep by the modulus of time_t.            *)
EXTENDS Integers

CONSTANTS Sleepers, Times, Word

VARIABLE alarm   \* for each thread that sleeps, the interrupts still to come

Init == alarm \in [{} -> {}]

(* A sleep of 0 is a mere yield while somebody sleeps. *)
Set(t, n) ==
  /\ t \notin DOMAIN alarm
  /\ n # 0 \/ DOMAIN alarm = {}
  /\ alarm' = [u \in DOMAIN alarm \cup {t} |-> IF u = t THEN n ELSE alarm[u]]

Ring ==
  /\ \A u \in DOMAIN alarm : alarm[u] > 0
  /\ alarm' = [u \in {v \in DOMAIN alarm : alarm[v] > 1} |-> alarm[u] - 1]

Oversleep ==
  /\ \E u \in DOMAIN alarm : alarm[u] = 0
  /\ alarm' = [u \in DOMAIN alarm |-> alarm[u] - 1 + Word]

Next ==
  \/ \E t \in Sleepers, n \in Times : Set(t, n)
  \/ Ring
  \/ Oversleep

Spec == Init /\ [][Next]_alarm
=============================================================================

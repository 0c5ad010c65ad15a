----------------------------- MODULE Sleepers -----------------------------
(***************************************************************************)
(* TCB::sleep and the timer interrupt of src/Riscv.cpp.  The queue of      *)
(* sleepers holds, with each thread, how many timer interrupts later than  *)
(* the thread before it it wakes.                                          *)
(***************************************************************************)
EXTENDS Dispatcher

CONSTANTS
  Times,   \* the arguments of time_sleep
  Word     \* 2^64, the modulus of time_t

ASSUME TimesAssumption == Word \in Nat \ {0, 1} /\ Times \subseteq 0 .. Word - 1

VARIABLES
  sleepingQueue,   \* pairs of a thread and its time_left
  counted          \* timer interrupts taken since the bit was set (ghost)

Sleeper(t, n) == [tcb |-> t, time_left |-> n]

SleepersInit == sleepingQueue = <<>> /\ counted = 0

(* Timer interrupts until the i-th sleeper wakes. *)
TimesTo(q) ==
  LET time[i \in 0 .. Len(q)] == IF i = 0 THEN 0 ELSE time[i - 1] + q[i].time_left
  IN  time
TimeTo(q, i) == TimesTo(q)[i]

(* Mutant: whoever sleeps last is put last. *)
WakeBeforeAll(q, n) == Len(q)
(* How many sleepers a sleep of n leaves before the new one: those that    *)
(* wake no later.                                                          *)
WakeBefore(q, n) == Cardinality({i \in DOMAIN q : TimeTo(q, i) <= n})

(* Mutant: the thread behind the new one keeps its time. *)
InsertKeepsNext(q, t, n) ==
  LET i == WakeBefore(q, n)
  IN SubSeq(q, 1, i) \o <<Sleeper(t, n - TimeTo(q, i))>> \o SubSeq(q, i + 1, Len(q))

(* The queue with t put in its place; the time of the thread behind it     *)
(* shrinks.                                                                *)
Insert(q, t, n) ==
  LET i    == WakeBefore(q, n)
      left == n - TimeTo(q, i)
      rest == SubSeq(q, i + 1, Len(q))
  IN SubSeq(q, 1, i)
     \o <<Sleeper(t, left)>>
     \o [j \in DOMAIN rest |-> IF j = 1 THEN [rest[1] EXCEPT !.time_left = @ - left] ELSE rest[j]]

(* time_sleep(n).  A sleep of 0 is a yield, unless nobody sleeps. *)
Sleep(n) ==
  /\ InUser
  /\ n # 0 \/ sleepingQueue = <<>>
  /\ sleepingQueue' = Insert(sleepingQueue, running, n)
  /\ blocked' = [blocked EXCEPT ![running] = TRUE]
  /\ UNCHANGED <<finished, timeSliceCounter, pending, counted>>
  /\ Dispatch(ready, "sleep")

SleepYields ==
  /\ InUser
  /\ 0 \in Times /\ sleepingQueue # <<>>
  /\ UNCHANGED <<blocked, finished, timeSliceCounter, pending, sleepingQueue, counted>>
  /\ Dispatch(ready, "sleep")

ResumeSleep ==
  /\ Resume("sleep", "user")
  /\ UNCHANGED <<pending, sleepingQueue, counted>>

-----------------------------------------------------------------------------
(* The timer interrupt, taken in user mode. *)

(* The queue once the time of its head has been counted down. *)
Counted(q) ==
  [i \in DOMAIN q |-> IF i = 1 THEN [q[1] EXCEPT !.time_left = (@ - 1) % Word] ELSE q[i]]

(* How many sleepers at the head of the queue have no time left. *)
Due(q) == Cardinality({i \in DOMAIN q : \A j \in 1 .. i : q[j].time_left = 0})

WakeSleepers(q) ==
  /\ sleepingQueue' = SubSeq(q, Due(q) + 1, Len(q))
  /\ blocked' = [t \in AllThreads |-> blocked[t] /\ ~\E i \in 1 .. Due(q) : q[i].tcb = t]

(* Mutants: the sleepers that are due go first; they are not put in.       *)
WithWokenFirst(q) == [i \in 1 .. Due(q) |-> q[i].tcb] \o ready
WithWokenLost(q)  == ready
(* The ready queue once the sleepers of q that are due have been put in.   *)
WithWoken(q) == ready \o [i \in 1 .. Due(q) |-> q[i].tcb]

(* Mutant: the slice is one interrupt shorter. *)
SliceOverEarly == timeSliceCounter + 2 >= TimeSlice
SliceOver == timeSliceCounter + 1 >= TimeSlice

TimerInterrupt ==
  /\ at[running] = "user"
  /\ pending
  /\ WakeSleepers(Counted(sleepingQueue))
  /\ counted' = counted + 1
  /\ UNCHANGED finished

(* The slice is not over: the bit is cleared and the thread goes on. *)
TimerTick ==
  /\ TimerInterrupt
  /\ ~SliceOver
  /\ timeSliceCounter' = timeSliceCounter + 1
  /\ ready' = WithWoken(Counted(sleepingQueue))
  /\ pending' = FALSE
  /\ UNCHANGED <<running, at>>

(* The slice is over: the thread yields inside the handler, and will clear *)
(* the bit when it runs again.                                             *)
TimerPreempt ==
  /\ TimerInterrupt
  /\ SliceOver
  /\ timeSliceCounter' = 0
  /\ Dispatch(WithWoken(Counted(sleepingQueue)), "timer")
  /\ UNCHANGED pending

ResumeTimer ==
  /\ Resume("timer", "user")
  /\ pending' = FALSE
  /\ UNCHANGED <<sleepingQueue, counted>>

TimerSets ==
  /\ Tick
  /\ counted' = 0
  /\ UNCHANGED sleepingQueue
=============================================================================

---------------------------- MODULE Semaphores ----------------------------
(* The semaphores of src/Sem.cpp.  A semaphore is never freed: closing it   *)
(* wakes its waiters and leaves it usable.                                 *)
EXTENDS Dispatcher

CONSTANTS
  InitialValues,   \* the values semaphores are opened with
  MaxDebt,         \* bounds on val: waits that would bring it below -MaxDebt
  MaxValue         \* and signals beyond MaxValue are not explored

ASSUME ValuesAssumption ==
  MaxDebt \in Nat /\ MaxValue \in Nat /\ InitialValues \subseteq 0 .. MaxValue

VARIABLES
  opened,        \* the semaphores that exist
  val,           \* their counters
  blockedQueue,  \* their waiters
  interrupted,   \* whether they were closed
  answer,        \* what the last wait to return answered
  owed,          \* permits issued and not yet returned by a wait, until the
                 \* semaphore is closed (ghost)
  released       \* waiters that a close has woken and that have not run (ghost)

semVars == <<opened, val, blockedQueue, interrupted, answer, owed, released>>

SemaphoresInit ==
  /\ opened = {}
  /\ val = [s \in Sems |-> 0]
  /\ blockedQueue = [s \in Sems |-> <<>>]
  /\ interrupted = [s \in Sems |-> FALSE]
  /\ answer = 0
  /\ owed = [s \in Sems |-> 0]
  /\ released = {}

Owes(s, n) == owed' = IF interrupted[s] THEN owed ELSE [owed EXCEPT ![s] = @ + n]

Open(s, init) ==
  /\ InUser
  /\ s \notin opened
  /\ opened' = opened \cup {s}
  /\ val' = [val EXCEPT ![s] = init]
  /\ owed' = [owed EXCEPT ![s] = init]
  /\ UNCHANGED <<threadVars, blockedQueue, interrupted, answer, released>>

(* Mutant: the last permit blocks who takes it. *)
BlocksAtZero(s) == val[s] - 1 <= 0
Blocks(s) == val[s] - 1 < 0

(* Mutant: the error is told by the counter that close leaves negative. *)
AnswerByCount(s) == IF val[s] < 0 THEN -1 ELSE 0
(* What wait answers when it returns: an error if the semaphore has been   *)
(* closed by then.                                                         *)
Answer(s) == IF interrupted[s] THEN -1 ELSE 0

(* Wait that does not block. *)
WaitPasses(s) ==
  /\ InUser
  /\ s \in opened
  /\ ~Blocks(s)
  /\ val' = [val EXCEPT ![s] = @ - 1]
  /\ answer' = Answer(s)
  /\ Owes(s, -1)
  /\ UNCHANGED <<threadVars, opened, blockedQueue, interrupted, released>>

WaitBlocks(s) ==
  /\ InUser
  /\ s \in opened
  /\ Blocks(s)
  /\ val[s] > -MaxDebt
  /\ val' = [val EXCEPT ![s] = @ - 1]
  /\ blocked' = [blocked EXCEPT ![running] = TRUE]
  /\ blockedQueue' = [blockedQueue EXCEPT ![s] = Append(@, running)]
  /\ UNCHANGED <<finished, timeSliceCounter, pending, opened, interrupted, answer, owed, released>>
  /\ Dispatch(ready, s)

(* A waiter that was woken runs again and returns from wait. *)
ResumeWait(s) ==
  /\ Resume(s, "user")
  /\ answer' = Answer(s)
  /\ Owes(s, -1)
  /\ released' = released \ {running}
  /\ UNCHANGED <<pending, opened, val, blockedQueue, interrupted>>

(* Mutant: the waiter that brings the counter to 0 is forgotten. *)
WakesStrictly(s) == val[s] + 1 < 0 /\ blockedQueue[s] # <<>>
Wakes(s) == val[s] + 1 <= 0 /\ blockedQueue[s] # <<>>

Signal(s) ==
  /\ InUser
  /\ s \in opened
  /\ val[s] < MaxValue
  /\ val' = [val EXCEPT ![s] = @ + 1]
  /\ Owes(s, 1)
  /\ IF Wakes(s)
     THEN LET t == Head(blockedQueue[s]) IN
          /\ blockedQueue' = [blockedQueue EXCEPT ![s] = Tail(@)]
          /\ blocked' = [blocked EXCEPT ![t] = FALSE]
          /\ ready' = Append(ready, t)
     ELSE UNCHANGED <<blockedQueue, blocked, ready>>
  /\ UNCHANGED <<running, finished, at, timeSliceCounter, pending, opened, interrupted,
                 answer, released>>

(* Every waiter is woken; the counter stays negative. *)
Close(s) ==
  /\ InUser
  /\ s \in opened
  /\ interrupted' = [interrupted EXCEPT ![s] = TRUE]
  /\ blockedQueue' = [blockedQueue EXCEPT ![s] = <<>>]
  /\ blocked' = [t \in AllThreads |->
                   blocked[t] /\ ~\E i \in DOMAIN blockedQueue[s] : blockedQueue[s][i] = t]
  /\ ready' = ready \o blockedQueue[s]
  /\ released' = released \cup {blockedQueue[s][i] : i \in DOMAIN blockedQueue[s]}
  /\ UNCHANGED <<running, finished, at, timeSliceCounter, pending, opened, val, answer, owed>>
=============================================================================

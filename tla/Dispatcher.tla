---------------------------- MODULE Dispatcher ----------------------------
(***************************************************************************)
(* The threads of the kernel and the switch between them: src/TCB.cpp,     *)
(* src/Scheduler.cpp and the queue of h/Queue.hpp, which is a sequence     *)
(* here.  There is one processor.  Inside a trap interrupts are masked, so *)
(* a handler runs until it returns to user mode or calls TCB::yield; the   *)
(* thread it yields to goes on where it itself called yield.  That place   *)
(* is at[t]:                                                               *)
(*   "none"     t does not exist        "created"  made, not started       *)
(*   "fresh"    at threadWrapper        "user"     in its body, user mode  *)
(*   "yield"    in thread_dispatch      "timer"    in the timer interrupt  *)
(*   "sleep"    in TCB::sleep           a semaphore: in Sem::wait of it    *)
(*   "main"     in the loop of main(), in supervisor mode                  *)
(*   "returned" main() has returned and the kernel is over                 *)
(***************************************************************************)
EXTENDS Integers, Sequences, FiniteSets

CONSTANTS
  Threads,    \* the threads user programs create
  UserMain,   \* the one main() creates to run userMain1
  Main,       \* the thread main() makes of itself
  Idle,       \* the idle thread
  Sems,       \* semaphores
  TimeSlice   \* DEFAULT_TIME_SLICE, in timer interrupts

States == {"none", "created", "fresh", "user", "yield", "timer", "sleep", "main", "returned"}

ASSUME ThreadsAssumption ==
  /\ IsFiniteSet(Threads) /\ UserMain \in Threads
  /\ Main \notin Threads /\ Idle \notin Threads /\ Main # Idle
  /\ TimeSlice \in Nat \ {0}
  /\ Sems \cap States = {}

VARIABLES
  running,            \* TCB::running
  ready,              \* Scheduler::readyQueue
  blocked,            \* the flag of each TCB
  finished,           \* the flag of each TCB
  at,                 \* where each thread goes on
  timeSliceCounter,   \* timer interrupts since the last switch
  pending             \* sip.SSIP, which the timer sets

threadVars == <<running, ready, blocked, finished, at, timeSliceCounter, pending>>

AllThreads == Threads \cup {Main, Idle}
Places     == States \cup Sems

(* main() has created itself and UserMain, and runs. *)
DispatcherInit ==
  /\ running = Main
  /\ ready = <<UserMain>>
  /\ blocked = [t \in AllThreads |-> FALSE]
  /\ finished = [t \in AllThreads |-> FALSE]
  /\ at = [t \in AllThreads |->
             IF t = Main THEN "main"
             ELSE IF t \in {UserMain, Idle} THEN "fresh" ELSE "none"]
  /\ timeSliceCounter = 0
  /\ pending = FALSE

-----------------------------------------------------------------------------
(* Mutants: the thread that gives way is put at the head of the queue; a   *)
(* blocked thread is put in the queue too.                                 *)
PutBackFirst(q) ==
  IF finished'[running] \/ blocked'[running] \/ running = Idle THEN q ELSE <<running>> \o q
PutBackBlocked(q) ==
  IF finished'[running] \/ running = Idle THEN q ELSE Append(q, running)

(* The queue q once the running thread has given way. *)
PutBack(q) ==
  IF finished'[running] \/ blocked'[running] \/ running = Idle THEN q ELSE Append(q, running)

(* TCB::dispatch with ready queue q, called from place.  Whether the queue *)
(* is empty is asked before the running thread is put back: a thread that  *)
(* yields when no other is ready gives way to the idle thread.  The flags  *)
(* are read after the caller has set them.                                 *)
Dispatch(q, place) ==
  /\ at' = [at EXCEPT ![running] = place]
  /\ IF q = <<>>
     THEN running' = Idle /\ ready' = PutBack(q)
     ELSE running' = Head(PutBack(q)) /\ ready' = Tail(PutBack(q))

(* The running thread comes back from dispatch, and from yield. *)
Resume(place, next) ==
  /\ at[running] = place
  /\ at' = [at EXCEPT ![running] = next]
  /\ timeSliceCounter' = 0
  /\ UNCHANGED <<running, ready, blocked, finished>>

-----------------------------------------------------------------------------
(* What the running thread does in user mode, where an interrupt that is   *)
(* pending is taken before its next instruction.                           *)
InUser ==
  /\ at[running] = "user" /\ running # Idle
  /\ ~finished[running]
  /\ ~pending

(* threadWrapper enters user mode and calls the body; the counter of the   *)
(* time slice is left as it is.                                            *)
StartBody ==
  /\ at[running] = "fresh"
  /\ at' = [at EXCEPT ![running] = "user"]
  /\ UNCHANGED <<running, ready, blocked, finished, timeSliceCounter, pending>>

(* thread_dispatch; also the last step of a thread whose body returned.    *)
Yield ==
  /\ at[running] = "user" /\ running # Idle /\ ~pending
  /\ UNCHANGED <<blocked, finished, timeSliceCounter, pending>>
  /\ Dispatch(ready, "yield")

ResumeYield ==
  /\ Resume("yield", IF running = Main THEN "main" ELSE "user")
  /\ UNCHANGED pending

(* thread_create: the thread is ready at once.  The call also replaces     *)
(* the idle thread by a new one.                                           *)
Create(t) ==
  /\ InUser
  /\ at[t] = "none"
  /\ at' = [at EXCEPT ![t] = "fresh", ![Idle] = "fresh"]
  /\ ready' = Append(ready, t)
  /\ UNCHANGED <<running, blocked, finished, timeSliceCounter, pending>>

CreateOnly(t) ==
  /\ InUser
  /\ at[t] = "none"
  /\ at' = [at EXCEPT ![t] = "created"]
  /\ UNCHANGED <<running, ready, blocked, finished, timeSliceCounter, pending>>

(* thread_start, which clients call once for a thread. *)
Start(t) ==
  /\ InUser
  /\ at[t] = "created"
  /\ at' = [at EXCEPT ![t] = "fresh"]
  /\ ready' = Append(ready, t)
  /\ UNCHANGED <<running, blocked, finished, timeSliceCounter, pending>>

(* thread_exit: the flag is set and another thread is dispatched, in one   *)
(* trap.                                                                   *)
Exit ==
  /\ InUser
  /\ finished' = [finished EXCEPT ![running] = TRUE]
  /\ UNCHANGED <<blocked, timeSliceCounter, pending>>
  /\ Dispatch(ready, "yield")

(* The body returns to threadWrapper, which sets the flag in user mode,    *)
(* and can be interrupted before it traps.                                 *)
BodyReturns ==
  /\ InUser
  /\ finished' = [finished EXCEPT ![running] = TRUE]
  /\ UNCHANGED <<running, ready, blocked, at, timeSliceCounter, pending>>

(* The timer sets the bit; a tick while it is set leaves no trace. *)
Tick ==
  /\ ~pending
  /\ pending' = TRUE
  /\ UNCHANGED <<running, ready, blocked, finished, at, timeSliceCounter>>
=============================================================================

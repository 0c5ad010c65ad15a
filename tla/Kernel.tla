------------------------------ MODULE Kernel ------------------------------
(***************************************************************************)
(* The thread kernel: the dispatcher, the semaphores and the sleepers      *)
(* under every interleaving that one processor, a timer and any user       *)
(* program can produce, and the loop of main().                            *)
(***************************************************************************)
EXTENDS Semaphores, Sleepers

VARIABLE userFinished   \* set when userMain1 has returned

sleepVars == <<sleepingQueue, counted>>
vars == <<threadVars, semVars, sleepVars, userFinished>>

Init ==
  /\ DispatcherInit
  /\ SemaphoresInit
  /\ SleepersInit
  /\ userFinished = FALSE

-----------------------------------------------------------------------------
(* main() runs in supervisor mode, where no interrupt is taken: it yields   *)
(* until userMain1 is over.                                                *)
MainYields ==
  /\ at[running] = "main"
  /\ ~userFinished
  /\ UNCHANGED <<blocked, finished, timeSliceCounter, pending, semVars, sleepVars, userFinished>>
  /\ Dispatch(ready, "yield")

MainReturns ==
  /\ at[running] = "main"
  /\ userFinished
  /\ at' = [at EXCEPT ![Main] = "returned"]
  /\ UNCHANGED <<running, ready, blocked, finished, timeSliceCounter, pending,
                 semVars, sleepVars, userFinished>>

Over == at[Main] = "returned"

-----------------------------------------------------------------------------
(* wrapperMain() has set userFinished, and has only to return. *)
Leaving == running = UserMain /\ userFinished /\ ~finished[running]

(* userMain1() returns to wrapperMain(). *)
UserMainReturns ==
  /\ InUser
  /\ running = UserMain
  /\ ~userFinished
  /\ userFinished' = TRUE
  /\ UNCHANGED <<threadVars, semVars, sleepVars>>

ThreadStep ==
  /\ ~Leaving
  /\ \/ Yield \/ Exit
     \/ \E t \in Threads : Create(t) \/ CreateOnly(t) \/ Start(t)
  /\ UNCHANGED <<semVars, sleepVars, userFinished>>

BodyStep ==
  /\ running = UserMain => userFinished
  /\ BodyReturns
  /\ UNCHANGED <<semVars, sleepVars, userFinished>>

SemaphoreStep ==
  /\ ~Leaving
  /\ \E s \in Sems :
       \/ \E init \in InitialValues : Open(s, init)
       \/ WaitPasses(s) \/ WaitBlocks(s) \/ Signal(s)
       \/ Close(s)
  /\ UNCHANGED <<sleepVars, userFinished>>

SleepStep ==
  /\ ~Leaving
  /\ (\E n \in Times : Sleep(n)) \/ SleepYields
  /\ UNCHANGED <<semVars, userFinished>>

(* What a user program may do next. *)
UserStep == UserMainReturns \/ ThreadStep \/ BodyStep \/ SemaphoreStep \/ SleepStep

(* What the processor does by itself. *)
ResumeStep ==
  /\ \/ (StartBody \/ ResumeYield) /\ UNCHANGED <<semVars, sleepVars>>
     \/ (\E s \in Sems : ResumeWait(s)) /\ UNCHANGED sleepVars
     \/ ResumeSleep /\ UNCHANGED semVars
     \/ ResumeTimer /\ UNCHANGED semVars
  /\ UNCHANGED userFinished

TimerStep ==
  /\ TimerTick \/ TimerPreempt
  /\ UNCHANGED <<semVars, userFinished>>

KernelStep == ResumeStep \/ TimerStep \/ MainYields \/ MainReturns

Device == ~Over /\ TimerSets /\ UNCHANGED <<semVars, userFinished>>

Stopped == Over /\ UNCHANGED vars

Next == UserStep \/ KernelStep \/ Device \/ Stopped

Spec == Init /\ [][Next]_vars

(* The processor executes, and the timer goes on ticking; a user program    *)
(* need not do anything.                                                   *)
FairSpec == Spec /\ WF_vars(KernelStep) /\ WF_vars(Device)

-----------------------------------------------------------------------------
(* What makes the kernel correct. *)

TypeOK ==
  /\ running \in AllThreads
  /\ ready \in Seq(AllThreads)
  /\ blocked \in [AllThreads -> BOOLEAN]
  /\ finished \in [AllThreads -> BOOLEAN]
  /\ at \in [AllThreads -> Places]
  /\ timeSliceCounter \in 0 .. TimeSlice - 1
  /\ pending \in BOOLEAN
  /\ opened \subseteq Sems
  /\ val \in [Sems -> Int]
  /\ blockedQueue \in [Sems -> Seq(Threads)]
  /\ interrupted \in [Sems -> BOOLEAN]
  /\ answer \in {0, -1}
  /\ owed \in [Sems -> Nat]
  /\ released \subseteq Threads
  /\ sleepingQueue \in Seq([tcb : Threads, time_left : 0 .. Word - 1])
  /\ counted \in Nat
  /\ userFinished \in BOOLEAN

CountIn(t, q) == Cardinality({i \in DOMAIN q : q[i] = t})

(* How many places hold thread t: the processor, the ready queue, the       *)
(* waiters of the semaphores and the sleepers.                             *)
InReady(t)   == CountIn(t, ready)
InWaiters(t) ==
  Cardinality(UNION {{<<s, i>> : i \in {j \in DOMAIN blockedQueue[s] : blockedQueue[s][j] = t}} :
                     s \in Sems})
InSleep(t)   == Cardinality({i \in DOMAIN sleepingQueue : sleepingQueue[i].tcb = t})
OnProcessor(t) == IF running = t THEN 1 ELSE 0

(* A thread that has started and not finished is in exactly one place, and *)
(* in it once: no wake-up is lost, none comes twice, and none reaches a    *)
(* thread that is not waiting.  A finished thread is nowhere but, for the  *)
(* last time, on the processor; the flag blocked says where a thread is.   *)
OnePlace ==
  \A t \in Threads \cup {Main} :
    /\ InReady(t) + InWaiters(t) + InSleep(t) + OnProcessor(t) =
         IF at[t] \in {"none", "created"} \/ (finished[t] /\ running # t) THEN 0 ELSE 1
    /\ blocked[t] <=> InWaiters(t) + InSleep(t) = 1

(* The counter of a semaphore that was not closed is minus the number of   *)
(* its waiters, or no thread waits.                                        *)
WaitersCounted ==
  \A s \in Sems : ~interrupted[s] =>
    Len(blockedQueue[s]) = IF val[s] < 0 THEN -val[s] ELSE 0

(* No permit is lost and none is given out twice: what was issued and not   *)
(* yet returned by a wait is in the counter or belongs to a waiter that    *)
(* was woken and has not run yet.                                          *)
PermitsAccounted ==
  \A s \in Sems : ~interrupted[s] =>
    owed[s] = (IF val[s] > 0 THEN val[s] ELSE 0)
              + Cardinality({t \in Threads : at[t] = s /\ ~blocked[t]})

(* A thread that waits when the semaphore is closed gets an error from its *)
(* wait (the comment at src/Sem.cpp:65), whatever happens between the      *)
(* close and the moment it runs: signals, other waits, preemption.         *)
ClosedWaitersFail ==
  [][\A t \in released \ released' : running = t /\ answer' = -1]_vars

(* The bit stays set over a switch inside the handler, so the thread that  *)
(* is switched to can take the same tick again; but no tick is taken more  *)
(* than twice.                                                             *)
TickTakenTwiceAtMost == counted <= 2

(* Scheduling and waiting are first come, first served: whoever stands      *)
(* before a thread in a queue stood before it already.                     *)
Before(t, u, q) == \E i, j \in DOMAIN q : i < j /\ q[i] = t /\ q[j] = u
KeepsOrder(q, r) ==
  \A t, u \in Threads \cup {Main} :
    CountIn(u, q) > 0 /\ Before(t, u, r) => Before(t, u, q)
NoOvertaking ==
  [][/\ KeepsOrder(ready, ready')
     /\ \A s \in Sems : KeepsOrder(blockedQueue[s], blockedQueue'[s])]_vars

(* Sleeping threads wake exactly when Alarms says, counted in timer         *)
(* interrupts.                                                             *)
SleepTimes ==
  [t \in {sleepingQueue[i].tcb : i \in DOMAIN sleepingQueue} |->
     TimeTo(sleepingQueue, CHOOSE i \in DOMAIN sleepingQueue : sleepingQueue[i].tcb = t)]
AlarmClock == INSTANCE Alarms WITH Sleepers <- Threads, alarm <- SleepTimes
SleepPromise == AlarmClock!Spec

(* A thread that is ready runs at last, unless the kernel is over.         *)
ReadyRuns ==
  \A t \in Threads \cup {Main} : InReady(t) > 0 ~> (running = t \/ Over)

(* A thread that sleeps runs again at last, whatever the others do.        *)
SleepersRun == \A t \in Threads : InSleep(t) > 0 ~> (running = t \/ Over)
=============================================================================

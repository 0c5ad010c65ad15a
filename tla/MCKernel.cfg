\* Three threads: one that runs, and two in a queue with each other.  A counter
\* down to -2 lets two threads wait while the third runs; sleeps of 1 to 3
\* interrupts put a sleeper before, behind and between others, and beside one
\* that wakes with it; a sleep of 0 with nobody asleep wraps, modulo 4 here and
\* modulo 2^64 in the kernel, and makes who sleeps behind it oversleep.
CONSTANTS
  t1 = t1
  t2 = t2
  t3 = t3
  s1 = s1
  Main = Main
  Idle = Idle
  Threads <- ThreeThreads
  UserMain = t1
  Sems <- OneSem
  TimeSlice = 2
  InitialValues = {1}
  MaxDebt = 2
  MaxValue = 1
  Times = {0, 1, 2, 3}
  Word = 4
SPECIFICATION Spec
SYMMETRY SameThreads
INVARIANTS TypeOK OnePlace WaitersCounted PermitsAccounted TickTakenTwiceAtMost
PROPERTIES NoOvertaking ClosedWaitersFail SleepPromise

\* Two threads, for the temporal properties.  A sleep of 0 wraps modulo 8 here,
\* where the kernel has 2^64.
CONSTANTS
  t1 = t1
  t2 = t2
  t3 = t3
  s1 = s1
  Main = Main
  Idle = Idle
  Threads <- TwoThreads
  UserMain = t1
  Sems <- OneSem
  TimeSlice = 2
  InitialValues = {0, 1}
  MaxDebt = 2
  MaxValue = 1
  Times = {0, 1, 2}
  Word = 8
SPECIFICATION FairSpec
PROPERTIES ReadyRuns SleepersRun

\* Every system call; a body of three instructions.
CONSTANTS
  t1 = t1  t2 = t2  Main = Main
  Threads = {t1, t2}
  Calls <- AllCalls
  Length = 3
SPECIFICATION Spec
SYMMETRY SameThreads
INVARIANTS TypeOK Privilege KernelUninterrupted GoesOnWhereItWas

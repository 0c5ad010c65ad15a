\* Three queues, four elements for them.
CONSTANTS
  ready = ready  waiters = waiters  sleepers = sleepers
  d1 = d1  d2 = d2  d3 = d3
  e1 = e1  e2 = e2  e3 = e3  e4 = e4
  Queues = {ready, waiters, sleepers}  Sorted = {sleepers}
  Data = {d1, d2, d3}  Elems = {e1, e2, e3, e4}
  NULL = NULL
SPECIFICATION Spec
SYMMETRY SameNames
INVARIANT ElementsAccounted
PROPERTY ImplementsQueues
CHECK_DEADLOCK FALSE

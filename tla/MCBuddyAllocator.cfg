\* Eight blocks: three levels of splitting below the block buddyInit lists.
CONSTANTS
  MaxDegree = 4
  Size      <- MCSize
  Requests  <- MCRequests
  None      = None
SPECIFICATION Spec
INVARIANTS TypeOK NoOverlap InHeap Covered JoinListed JoinEndsAtTop
PROPERTY HeapPromise

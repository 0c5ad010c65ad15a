\* The heap of MCBuddyAllocator.cfg, with the pointers: up to four nodes on a list.
CONSTANTS
  MaxDegree = 4
  Size      <- MCSize
  Requests  <- MCRequests
  None      = None
  Junk      = Junk
SPECIFICATION Spec
INVARIANT ListsClimb
PROPERTY ImplementsBuddyAllocator

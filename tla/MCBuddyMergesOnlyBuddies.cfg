\* The heap of MCBuddyAllocator.cfg, checked for one property.
CONSTANTS
  MaxDegree = 4
  Size      <- MCSize
  Requests  <- MCRequests
  None      = None
SPECIFICATION Spec
PROPERTY JoinsOnlyBuddies

SPECIFICATION FairSpec
CONSTANTS
  NumMasters = 3
  NumSlaves = 2
  Requests <- MCRequests
INVARIANTS
  RightAnswer
  RequestHeld
  BoundedWait
PROPERTIES
  LockKept
  Served

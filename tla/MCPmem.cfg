\* Five frames that take two references each.
SPECIFICATION FairSpec
CONSTANTS
  t1 = t1
  t2 = t2
  Thread = {t1, t2}
  NFrames = 5
  RefMax = 2
  Requests <- MCRequests
  None = None
INVARIANTS
  TypeOK
  RollbackSound
PROPERTIES
  ImplementsFrameMap
  SemaphoreLeft

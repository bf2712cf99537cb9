\* Programs that use the C library, while others are still loaded.
SPECIFICATION FairSpec
CONSTANTS
  Program = {progA, progB}
  Idle = idle
  SysSrv = syssrv
  Peers <- ToService
  SendFlags <- LibraryCalls
  RecvFlags <- Never
  MaxPages = 1
  Loads = 2
  None = None
PROPERTY WriteAnswered
CHECK_DEADLOCK FALSE

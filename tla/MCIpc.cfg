\* Programs that call the system service, while others are still loaded.
SPECIFICATION FairSpec
CONSTANTS
  Program = {progA, progB, progC}
  Idle = idle
  SysSrv = syssrv
  Peers <- ToService
  SendFlags <- AllCalls
  RecvFlags <- AllReceives
  MaxPages = 2
  Loads = 2
  None = None
INVARIANTS
  StatesSound
  MessagesSound
  WokenForMessage
PROPERTY WriteAnsweredIfUndisturbed
CHECK_DEADLOCK FALSE

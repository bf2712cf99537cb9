\* The timer can interrupt the idle thread anywhere, in sched_switch as well.
\* Nobody proceeds once sched_select_thread finds nobody.
SPECIFICATION FairSpec
CONSTANTS
  idle = idle
  syssrv = syssrv
  progA = progA
  progB = progB
  Thread = {idle, syssrv, progA, progB}
  Idle = idle
  SysSrv = syssrv
  MaxPrio = 2
  PrioOf <- MCPrioOf
  Preemptible = {idle, progA, progB}
  InSched = {idle}
  None = None
INVARIANTS
  SelectFinds
  ContextsMatch
  
  PrioRespected
PROPERTIES
  HighestClassFirst
  Rotation
CHECK_DEADLOCK FALSE

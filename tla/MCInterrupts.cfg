\* Interrupts of all kinds from boot on; the boot may end with an error.
SPECIFICATION FairSpec
CONSTANTS
  idle = idle
  srv = srv
  prog = prog
  Thread = {idle, srv, prog}
  Idle = idle
  Srv = srv
INVARIANTS
  EoiOwed
  NestingBounded
  
PROPERTY TickHandledIfResumed
CHECK_DEADLOCK FALSE

\* Every tick of the timer reaches the CPU.
SPECIFICATION FairSpec
CONSTANTS
  idle = idle
  srv = srv
  prog = prog
  Thread = {idle, srv, prog}
  Idle = idle
  Srv = srv
PROPERTY TickHandled
CHECK_DEADLOCK FALSE

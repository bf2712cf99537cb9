\* A program is loaded under its own semaphore.
SPECIFICATION Spec
CONSTANTS
  idle = idle
  srv = srv
  kernel = kernel
  prog = prog
  new = new
  Thread = {idle, srv}
  AS = {kernel, prog, new}
  Kernel = kernel
  Order <- MCOrder
  NFrames = 7
  RefMax = 4
  NTables = 2
  NEntries = 3
  Global = {0}
  NSlots = 3
  InitPd <- MCPd
  InitPt <- MCPt
  InitRef <- MCRef
  Preemptible = {idle}
  Requests <- MCLoading
  None = None
INVARIANT TempExact

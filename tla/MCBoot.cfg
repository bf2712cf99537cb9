\* A machine boots, with more and more memory, and up to three modules.
SPECIFICATION Spec
CONSTANTS
  PageSize = 16
  MaxFrames = 48
  NEntries = 32
  KernelTables = 2
  RefMax = 9
  InfoSize = 10
  ModSize = 4
  VgaAddr = 64
  VgaSize = 20
  Layouts <- MCLayouts
  FlagPages = 3
  HeaderSize = 2
  TaskSize = 4
  VmemSize = 5
  MaxTask = 3
  MaxThreads = 2
  NSpaces = 4
  NUser = 5
  Bios = {0, 1}
INVARIANTS
  TypeOK
  MapUnused
  BootKept
  FramesExact
  HeapExact
  ThreadsSound
  ProgramLoaded
CHECK_DEADLOCK FALSE

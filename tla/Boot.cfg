\* One to four processors, three of which the kernel can hold.
SPECIFICATION Spec
CONSTANTS
  Machines <- MCMachines
  NCPU = 3
  MPENTRY = 2
  IOPHYSMEM = 4
  EXTPHYSMEM = 5
  KernelEnd = 7
  PagesSize = 1
  EnvsSize = 1
  KernelTables = 1
  ProgramSize = 2
  KSTACKTOP = 1024
  KSTKSIZE = 8
  KSTKGAP = 8
\* The start is over when every processor has been through the scheduler.
CHECK_DEADLOCK FALSE
INVARIANT NothingShared
PROPERTY EveryCpuSchedules

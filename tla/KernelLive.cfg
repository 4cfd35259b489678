\* Two CPUs, three slots, every system call, a keyboard; fairness.
SPECIFICATION FairSpec
CONSTANTS
  CPUs = {c1, c2}
  BSP = c1
  NoCPU = NoCPU
  NENV = 3
  MaxGen = 1
  Initial = 2
  Syscalls = {"yield", "exofork", "env_set_status", "env_destroy", "ipc_recv", "ipc_try_send"}
  Liberties = {}
  Keyboard = TRUE
PROPERTIES
  ZombiesAreFreed
  NoStarvation
  PanicHaltsTheOthers
\* The system stops in the monitor when nothing is left to run.
CHECK_DEADLOCK FALSE

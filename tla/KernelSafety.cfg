\* Two CPUs, three slots, two generations; every system call.
SPECIFICATION Spec
CONSTANTS
  CPUs = {c1, c2}
  BSP = c1
  NoCPU = NoCPU
  NENV = 3
  MaxGen = 2
  Initial = 2
  Syscalls = {"yield", "exofork", "env_set_status", "env_destroy", "ipc_recv", "ipc_try_send"}
  Liberties = {}
  Keyboard = FALSE
INVARIANTS
  TypeOK
  OneCpuPerEnv
  FreeListExact
  MonitorOnlyWhenIdle
  ReceiverBlocked
  NoPanic
PROPERTIES
  ZombieFreedByItsTrap
  WokenBySend
\* The system stops in the monitor when nothing is left to run.
CHECK_DEADLOCK FALSE

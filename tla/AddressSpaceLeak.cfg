\* A page that could be allocated but not mapped.
SPECIFICATION Spec
CONSTANTS
  e1 = e1
  e2 = e2
  e3 = e3
  NoEnv = NoEnv
  Envs = {e1, e2, e3}
  First = e1
  NCPU = 2
  Workloads <- MCWorkloads
  Liberties = {}
CHECK_DEADLOCK FALSE
INVARIANT NoPageLost

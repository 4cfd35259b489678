\* Three environments on two CPUs; pages as the workload of the initial state says.
SPECIFICATION Spec
CONSTANTS
  e1 = e1
  e2 = e2
  e3 = e3
  NoEnv = NoEnv
  Envs = {e1, e2, e3}
  First = e1
  NCPU = 2
  Workloads <- MCWorkloads
  Liberties = {}
CHECK_DEADLOCK FALSE
INVARIANTS RefsCounted FreePagesExact PrivateMemory TlbCoherent DiesOfExhaustion
PROPERTIES FaultResolved ReceiverKeepsMemory

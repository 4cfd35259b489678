\* Three CPUs: one holds the lock while two race for it.
SPECIFICATION FairSpec
CONSTANTS
  CPUs = {c1, c2, c3}
  NoCPU = NoCPU
INVARIANTS
  MutualExclusion
  NoFalsePanic
PROPERTIES
  ImplementsMutex
  LockIsTaken

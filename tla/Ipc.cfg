\* One program at a time, of five environments.
SPECIFICATION Spec
CONSTANTS
  Programs = {"pingpong", "primes", "fairness"}
  NENV = 5
  LastBall = 5
\* pingpong ends, and primes ends in the monitor.
CHECK_DEADLOCK FALSE
PROPERTIES ImplementsRendezvous IpcPromise

\* Each program alone: primes up to 11, xargs of 2, and the timed command.
SPECIFICATION Spec
CONSTANTS
    NProc = 8
    NPipe = 6
    PipeSize = 1
    Limit = 11
    NARGS = 2
    MaxInput = 6
    Commands = {"ends", "ignores", "hangs", "missing"}
CHECK_DEADLOCK FALSE
PROPERTIES SievePromise XargsPromise TimeoutPromise

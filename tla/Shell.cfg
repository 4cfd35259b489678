\* Two lines, two pipes, seven processes; forks that may fail.
SPECIFICATION Spec
CONSTANTS
    NProc = 7
    NPipe = 2
    PipeSize = 1
    Tokens <- MCTokens
    Lines <- MCLines
    MaxLines = 2
    Unopenable = {"no"}
    Programs <- MCPrograms
    FailingForks = {"pid", "pid_l"}
CHECK_DEADLOCK FALSE
INVARIANTS PipesWired SuccessMeansOver
PROPERTIES ForegroundReapedByWait PromptReturns ZombiesReaped

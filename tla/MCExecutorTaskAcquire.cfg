CONSTANTS
    r1 = r1
    r2 = r2
    NoRunner = NoRunner
    Runners <- MCRunners
    MaxAttempts = 2
    MaxTicks = 1
    ClientsConfigured = TRUE
    TaskTimeouts <- MCTaskTimeouts
    Deadlines <- MCDeadlines
    StreamErrors <- MCStreamErrors
    RunnerErrors <- MCRunnerErrors
    PoolErrors <- MCPoolErrors
    RunResults <- MCRunResults
SPECIFICATION Spec
INVARIANT AcquireExhaustionIsTerminal
CHECK_DEADLOCK FALSE

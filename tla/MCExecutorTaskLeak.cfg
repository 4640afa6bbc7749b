CONSTANTS
    r1 = r1
    r2 = r2
    NoRunner = NoRunner
    Runners <- MCRunners
    MaxAttempts = 2
    MaxTicks = 1
    ClientsConfigured = TRUE
    TaskTimeouts <- LiveTaskTimeouts
    Deadlines <- LiveDeadlines
    StreamErrors <- MCStreamErrors
    RunnerErrors <- MCRunnerErrors
    PoolErrors <- MCPoolErrors
    RunResults <- MCRunResults
SPECIFICATION Spec
PROPERTY RunnerAlwaysReleased
CHECK_DEADLOCK FALSE

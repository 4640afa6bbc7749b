CONSTANTS
    q1 = q1
    q2 = q2
    q3 = q3
    Rpcs = {q1, q2, q3}
    NoDeadline = NoDeadline
    Deadlines = {NoDeadline, 1, 2, 3, 4, 5}
    Margin = 2
    MaxTime = 7
SPECIFICATION Spec
INVARIANT ServerStoppedByDeadline
PROPERTY ShutdownReturns
CHECK_DEADLOCK FALSE

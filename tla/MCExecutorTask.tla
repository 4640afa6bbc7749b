--------------------------- MODULE MCExecutorTask ---------------------------
(* Model-checking instance of ExecutorTask: two runners, three attempts,   *)
(* one heartbeat tick per Run, and the error values that reach each branch *)
(* of isBazelRetryableError.                                               *)
EXTENDS ExecutorTask, TLC

CONSTANTS r1, r2

MCRunners == {r1, r2}
MCTaskTimeouts == {NoTimeout, Unparsable, 1, 3}
MCDeadlines == {NoDeadline, 0, 2}
MCStreamErrors == {"Unavailable", "ResourceExhausted"}
MCRunnerErrors == {"Unavailable", "FailedPreconditionDetails"}
MCPoolErrors == {"Unavailable", "ResourceExhausted"}
MCRunResults ==
    {[exit |-> 0, err |-> NoError], [exit |-> 1, err |-> NoError],
     [exit |-> -1, err |-> NoError], [exit |-> -1, err |-> "SIGKILL"],
     [exit |-> -1, err |-> "NoSuchFile"], [exit |-> -1, err |-> "DeadlineExceeded"]}

(* Smaller input sets for the liveness runs, which cannot use symmetry. *)
LiveTaskTimeouts == {NoTimeout, 3}
LiveDeadlines == {NoDeadline, 2}

RunnerSymmetry == Permutations(MCRunners)
====

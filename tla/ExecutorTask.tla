---------------------------- MODULE ExecutorTask ----------------------------
(***************************************************************************)
(* The task execution pipeline of the remote executor:                     *)
(* Executor.ExecuteTaskAndStreamResults in                                  *)
(* enterprise/server/remote_execution/executor/executor.go, run for one    *)
(* ExecutionTask by successive attempts.  An attempt that returns          *)
(* retry = TRUE is re-enqueued by the task scheduler (external), so the    *)
(* same task may run again, on a runner taken from the same pool.          *)
(*                                                                         *)
(* Concurrent activities: the attempt's own goroutine, the goroutine that  *)
(* runs r.Run(ctx) and delivers into the buffered cmdResultChan, the       *)
(* heartbeat ticker multiplexed with it by select, and the goroutines that *)
(* run runnerPool.TryRecycle after an attempt returns.                     *)
(***************************************************************************)
EXTENDS Integers, Sequences, FiniteSets, FiniteSetsExt

CONSTANTS
    Runners,           \* runners the pool can hand out (model values)
    NoRunner,          \* r before runnerPool.Get succeeded
    MaxAttempts,       \* bound on how often the scheduler re-runs the task
    MaxTicks,          \* bound on heartbeat ticks during one Run
    ClientsConfigured, \* AC, ByteStream and CAS clients are set in the env
    TaskTimeouts,      \* values of task.Action.Timeout, NoTimeout included
    Deadlines,         \* remaining time of the attempt's ctx, NoDeadline included
    StreamErrors,      \* errors a failed stream write returns
    RunnerErrors,      \* errors of PrepareForTask and DownloadInputs
    PoolErrors,        \* errors of runnerPool.Get
    RunResults         \* CommandResults r.Run can produce

(* Sentinels kept apart from durations (which are >= 0): no timeout in    *)
(* the Action, a Duration proto ptypes.Duration rejects, no ctx deadline.  *)
NoTimeout == -1
Unparsable == -2
NoDeadline == -1
NoError == "none"

(* infiniteDuration (7 days) in the model's time unit. *)
InfiniteDuration == 100

ASSUME /\ MaxAttempts \in Nat \ {0}
       /\ MaxTicks \in Nat
       /\ ClientsConfigured \in BOOLEAN
       /\ NoRunner \notin Runners

(***************************************************************************)
(* Errors.  An error is named by what the code distinguishes about it: its *)
(* gRPC status code, whether it carries status details, whether it is      *)
(* commandutil.ErrSIGKILL, and whether its message contains "no such file  *)
(* or directory".                                                          *)
(***************************************************************************)
Errors == {"Unavailable", "ResourceExhausted", "FailedPrecondition",
           "FailedPreconditionDetails", "InvalidArgument", "Unknown",
           "DeadlineExceeded", "SIGKILL", "NoSuchFile"}

StatusCode(e) ==
    CASE e = "FailedPreconditionDetails" -> "FailedPrecondition"
      [] e = "SIGKILL"                   -> "Unavailable"
      [] e = "NoSuchFile"                -> "Unknown"
      [] OTHER                           -> e

HasDetails(e) == e = "FailedPreconditionDetails"

MessageHasNoSuchFile(e) == e = "NoSuchFile"

(* isBazelRetryableError: the errors Bazel's own retry policy handles. *)
isBazelRetryableError(e) ==
    \/ StatusCode(e) = "ResourceExhausted"
    \/ StatusCode(e) = "FailedPrecondition" /\ HasDetails(e)

shouldRetry(e) == ~isBazelRetryableError(e)

(* parseTimeout(timeout, maxDuration): the execution duration, or an error. *)
parseTimeout(timeout, maxDuration) ==
    IF timeout = NoTimeout
    THEN [ok |-> TRUE, dur |-> IF maxDuration = 0 THEN InfiniteDuration ELSE maxDuration]
    ELSE IF timeout = Unparsable
    THEN [ok |-> FALSE, dur |-> 0]
    ELSE IF maxDuration # 0 /\ timeout > maxDuration
    THEN [ok |-> FALSE, dur |-> 0]
    ELSE [ok |-> TRUE, dur |-> timeout]

(* maxDuration: the ctx's remaining time, or infiniteDuration. *)
MaxDuration(deadline) ==
    IF deadline = NoDeadline THEN InfiniteDuration ELSE deadline

(* incompleteExecutionError: the error of a command with exit code < 0. *)
incompleteExecutionError(err) ==
    IF err = NoError THEN "Unknown"
    ELSE IF MessageHasNoSuchFile(err) THEN "FailedPrecondition"
    ELSE err

(* Mutant: a failing ActionResult with no error goes under the canonical  *)
(* digest (the exit-code test dropped).                                    *)
ResultKeyIgnoringExitCode(doNotCache, res) ==
    IF doNotCache \/ res.err # NoError THEN "salted" ELSE "canonical"

(* The ActionResult is stored under the invocation-salted digest when the  *)
(* action is do_not_cache, errored, or exited non-zero.                    *)
ResultKey(doNotCache, res) ==
    IF doNotCache \/ res.err # NoError \/ res.exit # 0
    THEN "salted" ELSE "canonical"

-----------------------------------------------------------------------------
VARIABLES
    task,          \* the ExecutionTask: skipCacheLookup, doNotCache, timeout
    attempt,       \* number of the current (or last) attempt
    pc,            \* control point of the current attempt
    deadline,      \* remaining time of the current attempt's ctx
    runner,        \* r, the runner of the current attempt
    deferred,      \* the TryRecycle defer has been registered
    ticks,         \* heartbeat ticks handled in the current attempt
    cmdChan,       \* cmdResultChan: [att, res] or NoResult
    cmdResult,     \* cmdResult of the current attempt, or NoResult
    stream,        \* events sent on the operation stream, all attempts
    ac,            \* ActionResults in the action cache, with their key
    outcome,       \* attempt -> the (retry, err) it returned
    runnerState,   \* pool's view of each runner
    recycleClean,  \* finishedCleanly passed to TryRecycle
    runFor,        \* runner -> attempt whose r.Run goroutine is running, or 0
    runCtx,        \* runner -> when the ctx passed to its r.Run expires
    prepared,      \* runner -> PrepareForTask succeeded for its holder
    poolErr,       \* error runnerPool.Get failed with in this attempt
    stored         \* some attempt uploaded an ActionResult

vars == <<task, attempt, pc, deadline, runner, deferred, ticks, cmdChan,
          cmdResult, stream, ac, outcome, runnerState, recycleClean, runFor, runCtx,
          prepared, poolErr, stored>>

NoResult == [exit |-> 0, err |-> "noresult"]
NoOutcome == [retry |-> FALSE, err |-> "pending"]

Tasks == [skipCacheLookup : BOOLEAN, doNotCache : BOOLEAN, timeout : TaskTimeouts]
Events == [att : 1..MaxAttempts, stage : {"CACHE_CHECK", "EXECUTING", "COMPLETED"},
           kind : {"progress", "cached", "result", "failure"},
           exit : {0, 1, -1}, err : Errors \cup {NoError}]
CacheEntries == [key : {"canonical", "salted"}, exit : {0, 1, -1}, err : Errors \cup {NoError}]
CleanEntry == [key |-> "canonical", exit |-> 0, err |-> NoError]
Pcs == {"idle", "begin", "cache_check", "cache_lookup", "cached", "get_runner",
        "prepare", "download", "executing", "parse_timeout", "wait",
        "classify", "upload", "store", "completed"}
NoChan == [att |-> 0, res |-> NoResult]

(* The variables' ranges.  No run checks it: every action draws its       *)
(* values from these sets, and no change a bug could make to the code     *)
(* leaves them, so it documents the state rather than tests it.           *)
TypeOK ==
    /\ task \in Tasks
    /\ attempt \in 0..MaxAttempts
    /\ pc \in Pcs
    /\ deadline \in Deadlines
    /\ runner \in Runners \cup {NoRunner}
    /\ deferred \in BOOLEAN
    /\ ticks \in 0..MaxTicks
    /\ cmdChan \in {NoChan} \cup [att : 1..MaxAttempts, res : RunResults]
    /\ cmdResult \in {NoResult} \cup [exit : {0, 1, -1}, err : Errors \cup {NoError}]
    /\ stream \in Seq(Events)
    /\ ac \subseteq CacheEntries
    /\ outcome \in [1..MaxAttempts -> {NoOutcome} \cup [retry : BOOLEAN, err : Errors \cup {NoError}]]
    /\ runnerState \in [Runners -> {"free", "idle", "held", "recycling", "disposed"}]
    /\ recycleClean \in [Runners -> BOOLEAN]
    /\ runFor \in [Runners -> 0..MaxAttempts]
    /\ runCtx \in [Runners -> {NoDeadline} \cup 0..InfiniteDuration]
    /\ prepared \in [Runners -> BOOLEAN]
    /\ poolErr \in PoolErrors \cup {NoError}
    /\ stored \in BOOLEAN

Init ==
    /\ task \in Tasks
    /\ attempt = 0
    /\ pc = "idle"
    /\ deadline = NoDeadline
    /\ runner = NoRunner
    /\ deferred = FALSE
    /\ ticks = 0
    /\ cmdChan = NoChan
    /\ cmdResult = NoResult
    /\ stream = <<>>
    /\ ac \in {{}, {CleanEntry}}
    /\ outcome = [a \in 1..MaxAttempts |-> NoOutcome]
    /\ runnerState = [r \in Runners |-> "free"]
    /\ recycleClean = [r \in Runners |-> FALSE]
    /\ runFor = [r \in Runners |-> 0]
    /\ runCtx = [r \in Runners |-> NoDeadline]
    /\ prepared = [r \in Runners |-> FALSE]
    /\ poolErr = NoError
    /\ stored = FALSE

-----------------------------------------------------------------------------
(***************************************************************************)
(* Helpers for the attempt's goroutine.  Every step below changes pc; the  *)
(* ones that return change outcome and, once the TryRecycle defer is       *)
(* registered, hand the runner to the pool: ctx cancel runs first (defers  *)
(* are LIFO), then `go TryRecycle(ctx, r, finishedCleanly)`.               *)
(***************************************************************************)
Goto(label) ==
    /\ pc' = label
    /\ UNCHANGED <<outcome, runnerState, recycleClean>>

Return(retry, err, finishedCleanly) ==
    /\ pc' = "idle"
    /\ outcome' = [outcome EXCEPT ![attempt] = [retry |-> retry, err |-> err]]
    /\ IF deferred
       THEN /\ runnerState' = [runnerState EXCEPT ![runner] = "recycling"]
            /\ recycleClean' = [recycleClean EXCEPT ![runner] = finishedCleanly]
       ELSE UNCHANGED <<runnerState, recycleClean>>

Emit(stage, kind, exit, err) ==
    stream' = Append(stream, [att |-> attempt, stage |-> stage, kind |-> kind,
                              exit |-> exit, err |-> err])

(* stateChangeFn: a failed send makes the attempt return (true, err). *)
StateChange(stage, kind, exit, err, onSent) ==
    \/ Emit(stage, kind, exit, err) /\ onSent
    \/ \E we \in StreamErrors : Return(TRUE, we, FALSE) /\ UNCHANGED stream

(* Mutant: finishWithErrFn reports retry = true even after publishing.    *)
finishWithErrRetryAfterPublish(e) ==
    IF shouldRetry(e)
    THEN Return(TRUE, e, FALSE) /\ UNCHANGED stream
    ELSE StateChange("COMPLETED", "failure", 0, e, Return(TRUE, e, FALSE))

(* finishWithErrFn *)
finishWithErr(e) ==
    IF shouldRetry(e)
    THEN Return(TRUE, e, FALSE) /\ UNCHANGED stream
    ELSE StateChange("COMPLETED", "failure", 0, e, Return(FALSE, e, FALSE))

Locals == <<deadline, runner, deferred, ticks, cmdChan, cmdResult>>

-----------------------------------------------------------------------------
(* The task scheduler (external) starts an attempt: the first one, or a    *)
(* re-run after an attempt returned retry = true.                          *)
ScheduleAttempt ==
    /\ pc = "idle"
    /\ attempt < MaxAttempts
    /\ IF attempt = 0 THEN TRUE ELSE outcome[attempt].retry
    /\ attempt' = attempt + 1
    /\ pc' = "begin"
    /\ deadline' \in Deadlines
    /\ runner' = NoRunner
    /\ deferred' = FALSE
    /\ ticks' = 0
    /\ cmdChan' = NoChan
    /\ cmdResult' = NoResult
    /\ poolErr' = NoError
    /\ UNCHANGED <<task, stream, ac, outcome, runnerState, recycleClean,
                   runFor, runCtx, prepared, stored>>

CheckCacheClients ==
    /\ pc = "begin"
    /\ IF ClientsConfigured
       THEN Goto(IF task.skipCacheLookup THEN "get_runner" ELSE "cache_check")
       ELSE Return(FALSE, "FailedPrecondition", FALSE)
    /\ UNCHANGED <<task, attempt, Locals, stream, ac, runFor, runCtx, prepared, poolErr, stored>>

PublishCacheCheck ==
    /\ pc = "cache_check"
    /\ StateChange("CACHE_CHECK", "progress", 0, NoError, Goto("cache_lookup"))
    /\ UNCHANGED <<task, attempt, Locals, ac, runFor, runCtx, prepared, poolErr, stored>>

(* GetActionResult: a hit reads the canonical entry; an error is a miss. *)
GetActionResult ==
    /\ pc = "cache_lookup"
    /\ \/ \E e \in ac :
            /\ e.key = "canonical"
            /\ cmdResult' = [exit |-> e.exit, err |-> e.err]
            /\ Goto("cached")
       \/ Goto("get_runner") /\ UNCHANGED cmdResult
    /\ UNCHANGED <<task, attempt, deadline, runner, deferred, ticks, cmdChan,
                   stream, ac, runFor, runCtx, prepared, poolErr, stored>>

PublishCachedResult ==
    /\ pc = "cached"
    /\ StateChange("COMPLETED", "cached", cmdResult.exit, cmdResult.err,
                   Return(FALSE, NoError, FALSE))
    /\ UNCHANGED <<task, attempt, Locals, ac, runFor, runCtx, prepared, poolErr, stored>>

(* runnerPool.Get; a failure is wrapped as Unavailable whatever its code. *)
GetRunner ==
    /\ pc = "get_runner"
    /\ \/ \E r \in Runners :
            /\ runnerState[r] \in {"free", "idle"}
            /\ runner' = r
            /\ runnerState' = [runnerState EXCEPT ![r] = "held"]
            /\ prepared' = [prepared EXCEPT ![r] = FALSE]
            /\ pc' = "prepare"
            /\ UNCHANGED <<outcome, recycleClean, stream, poolErr>>
       \/ \E e \in PoolErrors :
            /\ poolErr' = e
            /\ finishWithErr("Unavailable")
            /\ UNCHANGED <<runner, prepared>>
    /\ UNCHANGED <<task, attempt, deadline, deferred, ticks, cmdChan, cmdResult,
                   ac, runFor, runCtx, stored>>

(* Mutant: the TryRecycle defer is never registered.                      *)
PrepareForTaskWithoutDefer ==
    /\ pc = "prepare"
    /\ \/ /\ prepared' = [prepared EXCEPT ![runner] = TRUE]
          /\ Goto("download")
          /\ UNCHANGED <<stream, deferred>>
       \/ \E e \in RunnerErrors :
            /\ finishWithErr(e)
            /\ UNCHANGED <<prepared, deferred>>
    /\ UNCHANGED <<task, attempt, deadline, runner, ticks, cmdChan, cmdResult,
                   ac, runFor, runCtx, poolErr, stored>>

(* r.PrepareForTask; the TryRecycle defer is registered only after it. *)
PrepareForTask ==
    /\ pc = "prepare"
    /\ \/ /\ prepared' = [prepared EXCEPT ![runner] = TRUE]
          /\ deferred' = TRUE
          /\ Goto("download")
          /\ UNCHANGED stream
       \/ \E e \in RunnerErrors :
            /\ finishWithErr(e)
            /\ UNCHANGED <<prepared, deferred>>
    /\ UNCHANGED <<task, attempt, deadline, runner, ticks, cmdChan, cmdResult,
                   ac, runFor, runCtx, poolErr, stored>>

DownloadInputs ==
    /\ pc = "download"
    /\ \/ Goto("executing") /\ UNCHANGED stream
       \/ \E e \in RunnerErrors : finishWithErr(e)
    /\ UNCHANGED <<task, attempt, Locals, ac, runFor, runCtx, prepared, poolErr, stored>>

PublishExecuting ==
    /\ pc = "executing"
    /\ StateChange("EXECUTING", "progress", 0, NoError, Goto("parse_timeout"))
    /\ UNCHANGED <<task, attempt, Locals, ac, runFor, runCtx, prepared, poolErr, stored>>

(* Mutant: the goroutine running r.Run is never started.                  *)
ParseTimeoutWithoutRun ==
    /\ pc = "parse_timeout"
    /\ IF parseTimeout(task.timeout, MaxDuration(deadline)).ok
       THEN Goto("wait") /\ UNCHANGED stream
       ELSE finishWithErr("InvalidArgument")
    /\ UNCHANGED <<task, attempt, Locals, ac, runFor, runCtx, prepared, poolErr, stored>>

(* Mutant: the command's ctx is made from context.Background(), so it     *)
(* expires after execDuration whatever the parent's deadline.             *)
RunCtxDeadlineDetached(parent, dur) == dur

(* context.WithTimeout(ctx, execDuration): the child expires at the       *)
(* earlier of the parent's deadline and execDuration from now.            *)
RunCtxDeadline(parent, dur) ==
    IF parent = NoDeadline \/ dur < parent THEN dur ELSE parent

(* parseTimeout against the ctx's remaining time, then `go r.Run(ctx)`. *)
ParseTimeoutAndRun ==
    /\ pc = "parse_timeout"
    /\ LET parsed == parseTimeout(task.timeout, MaxDuration(deadline)) IN
       IF parsed.ok
       THEN /\ runFor' = [runFor EXCEPT ![runner] = attempt]
            /\ runCtx' = [runCtx EXCEPT ![runner] = RunCtxDeadline(deadline, parsed.dur)]
            /\ Goto("wait")
            /\ UNCHANGED stream
       ELSE /\ finishWithErr("InvalidArgument")
            /\ UNCHANGED <<runFor, runCtx>>
    /\ UNCHANGED <<task, attempt, Locals, ac, prepared, poolErr, stored>>

(* The goroutine running r.Run(ctx) sends its CommandResult into the      *)
(* buffered channel of the attempt that started it, read or not.  A       *)
(* killed or timed-out command is one of RunResults (exit code -1).       *)
Run(r) ==
    /\ runFor[r] # 0
    /\ \E res \in RunResults :
         cmdChan' = IF runFor[r] = attempt THEN [att |-> attempt, res |-> res]
                                            ELSE cmdChan
    /\ runFor' = [runFor EXCEPT ![r] = 0]
    /\ runCtx' = [runCtx EXCEPT ![r] = NoDeadline]
    /\ UNCHANGED <<task, attempt, pc, deadline, runner, deferred, ticks,
                   cmdResult, stream, ac, outcome, runnerState, recycleClean,
                   prepared, poolErr, stored>>

(* select: case cmdResult = <-cmdResultChan *)
ReceiveCmdResult ==
    /\ pc = "wait"
    /\ cmdChan.att = attempt
    /\ cmdResult' = cmdChan.res
    /\ cmdChan' = NoChan
    /\ Goto("classify")
    /\ UNCHANGED <<task, attempt, deadline, runner, deferred, ticks, stream,
                   ac, runFor, runCtx, prepared, poolErr, stored>>

(* select: case <-updateTicker.C; a failed send returns (true, Unavailable). *)
PublishHeartbeat ==
    /\ pc = "wait"
    /\ ticks < MaxTicks
    /\ \/ /\ Emit("EXECUTING", "progress", 0, NoError)
          /\ ticks' = ticks + 1
          /\ UNCHANGED <<pc, outcome, runnerState, recycleClean>>
       \/ /\ Return(TRUE, "Unavailable", FALSE)
          /\ UNCHANGED <<stream, ticks>>
    /\ UNCHANGED <<task, attempt, deadline, runner, deferred, cmdChan,
                   cmdResult, ac, runFor, runCtx, prepared, poolErr, stored>>

(* Exit codes < 0 become an error; SIGKILL goes to finishWithErrFn. *)
ClassifyCmdResult ==
    /\ pc = "classify"
    /\ LET err == IF cmdResult.exit < 0
                  THEN incompleteExecutionError(cmdResult.err)
                  ELSE cmdResult.err
       IN IF err = "SIGKILL"
          THEN finishWithErr(err) /\ UNCHANGED cmdResult
          ELSE /\ cmdResult' = [cmdResult EXCEPT !.err = err]
               /\ Goto("upload")
               /\ UNCHANGED stream
    /\ UNCHANGED <<task, attempt, deadline, runner, deferred, ticks, cmdChan,
                   ac, runFor, runCtx, prepared, poolErr, stored>>

UploadOutputs ==
    /\ pc = "upload"
    /\ \/ Goto("store") /\ UNCHANGED stream
       \/ finishWithErr("Unavailable")
    /\ UNCHANGED <<task, attempt, Locals, ac, runFor, runCtx, prepared, poolErr, stored>>

(* AddInvocationIDToDigest when needed, then UploadActionResult; either   *)
(* failing is wrapped as Unavailable.                                      *)
UploadActionResult ==
    /\ pc = "store"
    /\ \/ /\ ac' = ac \cup {[key  |-> ResultKey(task.doNotCache, cmdResult),
                             exit |-> cmdResult.exit, err |-> cmdResult.err]}
          /\ stored' = TRUE
          /\ Goto("completed")
          /\ UNCHANGED stream
       \/ finishWithErr("Unavailable") /\ UNCHANGED <<ac, stored>>
    /\ UNCHANGED <<task, attempt, Locals, runFor, runCtx, prepared, poolErr>>

(* The final COMPLETED event; finishedCleanly iff the command had no error. *)
PublishCompleted ==
    /\ pc = "completed"
    /\ \/ /\ Emit("COMPLETED", "result", cmdResult.exit, cmdResult.err)
          /\ Return(FALSE, NoError, cmdResult.err = NoError)
       \/ \E we \in StreamErrors : finishWithErr(we)
    /\ UNCHANGED <<task, attempt, Locals, ac, runFor, runCtx, prepared, poolErr, stored>>

(* runnerPool.TryRecycle (external pool): a runner that finished cleanly   *)
(* may go back to the pool; any other is disposed of.                      *)
TryRecycle(r) ==
    /\ runnerState[r] = "recycling"
    /\ runnerState' = [runnerState EXCEPT ![r] =
                          IF recycleClean[r] THEN "idle" ELSE "disposed"]
    /\ UNCHANGED <<task, attempt, pc, Locals, stream, ac, outcome, recycleClean,
                   runFor, runCtx, prepared, poolErr, stored>>

-----------------------------------------------------------------------------
AttemptStep ==
    \/ CheckCacheClients \/ PublishCacheCheck \/ GetActionResult
    \/ PublishCachedResult \/ GetRunner \/ PrepareForTask \/ DownloadInputs
    \/ PublishExecuting \/ ParseTimeoutAndRun \/ ReceiveCmdResult
    \/ PublishHeartbeat \/ ClassifyCmdResult \/ UploadOutputs
    \/ UploadActionResult \/ PublishCompleted

Next ==
    \/ ScheduleAttempt
    \/ AttemptStep
    \/ \E r \in Runners : Run(r) \/ TryRecycle(r)

(* The attempt's goroutine keeps running; r.Run returns by the ctx         *)
(* deadline at the latest; TryRecycle goroutines run; the scheduler        *)
(* re-enqueues a task whose attempt asked for a retry.                     *)
Fairness ==
    /\ WF_vars(AttemptStep)
    /\ WF_vars(ScheduleAttempt)
    /\ \A r \in Runners : WF_vars(Run(r)) /\ WF_vars(TryRecycle(r))

Spec == Init /\ [][Next]_vars /\ Fairness

-----------------------------------------------------------------------------
(***************************************************************************)
(* Properties                                                              *)
(***************************************************************************)
HasTerminal(a) ==
    \E i \in 1..Len(stream) : stream[i].att = a /\ stream[i].stage = "COMPLETED"

Returned(a) == outcome[a] # NoOutcome

(* The caller-facing contract of ExecuteTaskAndStreamResults (spec section *)
(* 7): an attempt that returns retry = true has sent no terminal event on  *)
(* the stream, since the task is re-run elsewhere; one that returns        *)
(* retry = false has sent exactly the one the caller waits for.  Every     *)
(* return path, finishWithErrFn's included, must agree with the stream.    *)
ReturnMatchesStream ==
    \A a \in 1..MaxAttempts :
        Returned(a) => (outcome[a].retry <=> ~HasTerminal(a))

(* Every attempt returns: the select loop ends once r.Run delivers, which  *)
(* its ctx deadline guarantees, and no stage waits forever.                *)
AttemptEventuallyReturns == (pc # "idle") ~> (pc = "idle")

(* A runner whose PrepareForTask succeeded is handed back to the pool      *)
(* (recycled or disposed of) after the attempt, whichever path it takes.  *)
RunnerReleasedAfterPrepare ==
    \A r \in Runners :
        (runnerState[r] = "held" /\ prepared[r])
            ~> (runnerState[r] \in {"idle", "disposed"})

(* Spec section 4.1: after the task finishes (success, terminal failure or *)
(* retryable failure) the Runner is returned to the pool.                  *)
RunnerAlwaysReleased ==
    \A r \in Runners :
        (runnerState[r] = "held") ~> (runnerState[r] \in {"idle", "disposed"})

(* Spec section 8: a runner-acquisition failure classified as resource     *)
(* exhaustion yields a terminal failure event and retry = false.           *)
AcquireExhaustionIsTerminal ==
    (pc = "idle" /\ attempt > 0 /\ poolErr = "ResourceExhausted")
        => (HasTerminal(attempt) /\ ~outcome[attempt].retry)

(* Spec section 8: a task requesting a timeout greater than the allowed   *)
(* maximum (the remaining time of the attempt's ctx) fails with            *)
(* InvalidArgument before any Runner is acquired.  Unparsable timeouts are *)
(* not what the spec's claim is about and are left out.                   *)
TimeoutRejectedBeforeRunner ==
    (/\ pc = "idle" /\ attempt > 0
     /\ outcome[attempt].err = "InvalidArgument"
     /\ task.timeout \notin {NoTimeout, Unparsable}
     /\ deadline \notin {NoDeadline, 0} /\ task.timeout > deadline)
        => runner = NoRunner

(* The command of the current attempt is cut off no later than the       *)
(* Action's timeout and no later than the caller's deadline, the earlier  *)
(* of the two (spec section 4.1).  parseTimeout alone does not ensure it: *)
(* with no timeout and exactly no time left it gives infiniteDuration     *)
(* (maxDuration 0 means "no maximum"), and only the ctx the command runs  *)
(* under, derived from the attempt's, brings the deadline back.           *)
CommandBoundedByDeadlines ==
    \A r \in Runners :
        (attempt > 0 /\ runFor[r] = attempt)
            => runCtx[r] <= Min({InfiniteDuration}
                                \cup {t \in {task.timeout} : t >= 0}
                                \cup {d \in {deadline} : d # NoDeadline})

(* Refinement: every behaviour of the pipeline, retries included, is one   *)
(* the caller-facing OperationContract allows, with the stream's events    *)
(* stripped of their attempt number and the action cache as the cache.    *)
CallerView(ev) == [stage |-> ev.stage, kind |-> ev.kind, exit |-> ev.exit, err |-> ev.err]

Contract == INSTANCE OperationContract
               WITH events <- [i \in 1..Len(stream) |-> CallerView(stream[i])],
                    cache  <- ac,
                    task   <- task

ImplementsContract == Contract!Spec
====

# TLA+ models of the BuildBuddy remote executor and remote-bazel CLI

This directory holds TLA+ models of the code under `src/`, the TLC configurations
that check them, and `PROJECT.json`, which maps every model definition to the source
lines it translates and lists the runs, mutants, findings and hazards.

## 1. Inventory

### Components

| Component | Source | State it keeps | Operations |
|---|---|---|---|
| Executor task pipeline | `src/enterprise/server/remote_execution/executor/executor.go` | per call of `ExecuteTaskAndStreamResults`: the runner `r`, `finishedCleanly`, the ExecutedActionMetadata `md`, `ioStats`, the execution ctx and its cancel, `cmdResultChan`, the heartbeat ticker, `cmdResult` | cache check, runner acquisition and `PrepareForTask`, input download, timeout parsing, `go r.Run`, heartbeat/result `select` loop, SIGKILL classification, output upload, action-result upload under the canonical or salted digest, final `COMPLETED` event, `finishWithErrFn`, deferred `go TryRecycle` |
| Retry classification | same file, `isBazelRetryableError`, `shouldRetry`, `incompleteExecutionError` | none (pure) | decide between returning `retry = true` silently and publishing a terminal failure |
| Runner pool / Runner | external (`interfaces.RunnerPool`) | runners: free, held, being recycled, idle in the pool, disposed | `Get`, `TryRecycle(finishedCleanly)`, `Warmup`; per runner `PrepareForTask`, `DownloadInputs`, `Run`, `UploadOutputs` |
| Task scheduler | external (`priority_task_scheduler`) | queue of tasks | runs a task; re-runs it when the executor returns `retry = true` |
| Operation stream | external (`operation.StreamLike`) | events sent so far | `stateChangeFn`, `PublishOperationDone` |
| Action cache | external (AC client) | ActionResults keyed by digest | `GetActionResult`, `UploadActionResult` |
| Metrics / metadata | `executor.go` `observeStageDuration`, `logActionResult` | Prometheus registry | observations, logs |
| Workspace | implementation not under `src/`; behaviour fixed by `src/enterprise/server/remote_execution/workspace/workspace_test.go` and spec 4.2 | files under the root, declared outputs, preserve flag | `SetTask`, `Clean` |
| Executor process startup | `src/enterprise/server/cmd/executor/executor.go` | env, gRPC conns, health checks, warmup-done channel | config checks, cache clients, `Warmup` racing `StartupWarmupMaxWaitSecs`, scheduler registration, servers |
| gRPC server helpers | `src/server/util/grpc_server/grpc_server.go` | shutdown ctx | `GRPCShutdown`: graceful stop racing a hard stop 100 ms before the deadline |
| remote-bazel CLI | `src/cli/remotebazel/remotebazel.go` | repo config, chunk id, `moveBack`, buffered chunks, `wasLive`, terminal contents | `Config`/`determineRemote`/`determineDefaultBranch`, `streamLogs`/`drawChunk`, `downloadOutputs`, `Run` |
| Events API URL flag | `src/server/endpoint_urls/events_api_url/events_api_url.go` | a flag string | URL parse / resolve |
| Enterprise test env | `src/enterprise/server/testutil/enterprise_testenv/enterprise_testenv.go` | test environment | wiring of test backends |

### How they interact

The scheduler calls `ExecuteTaskAndStreamResults(ctx, task, stream)`. The executor
writes progress events and one terminal event to the stream, reads and writes
the action cache, takes a runner from the pool, and on return hands it back with
`go TryRecycle(r, finishedCleanly)`. It tells the scheduler, by `retry`, whether the
task must be re-run elsewhere. Inside one call two goroutines run concurrently: the
one running `r.Run(ctx)`, which delivers into a channel of capacity 1, and the
caller's, which `select`s between that channel and a heartbeat ticker that re-sends
the EXECUTING event. The remote-bazel CLI talks to the BuildBuddy app:
it polls the invocation's event-log chunks and redraws the terminal, then downloads
outputs through a sidecar.

### What is hard

* Every failure path of the executor funnels through `finishWithErrFn`, which itself
  writes to the stream and may fail; the `retry` flag must agree with what reached
  the caller, across retried attempts.
* The TryRecycle `defer` is registered only after `PrepareForTask`; returns before
  it leak the runner.
* A heartbeat failure returns while `r.Run` is still running; the run, the
  cancel, the TryRecycle goroutine and the next attempt interleave.
* A late failure of the final send re-runs a task whose result is already stored.
* The timeout is parsed only after a runner was acquired and inputs fetched.
* The CLI buffers a finalised chunk to avoid a flicker and must still print it.

### Properties that make each component correct

* Executor: the `retry` flag matches the stream (no terminal event on retry, one on
  no-retry); nothing after a terminal event; a failing result never goes under the
  canonical digest; cached results only come from the canonical digest; every
  attempt returns; every runner is returned to the pool; the execution deadline is
  `min(timeout, remaining)`; a task is not executed again after its result is stored.
* Workspace: wipe leaves nothing, preserve removes exactly the declared outputs,
  `Clean` is idempotent.
* remote-bazel logs: the terminal always shows a prefix of the log, without
  duplicates; when `streamLogs` returns, it shows the whole log.
* remote-bazel Config: when it returns a RepoConfig, every untracked file of the
  user's is in it as a patch that holds the file.
* Startup / shutdown: registration happens even if warmup never finishes,
  and a cache RPC sent before the local server serves waits and is served; `GRPCShutdown` stops the server by
  the ctx deadline and returns even if an RPC handler never returns.

## 2. Plan

In order of importance:

1. `ExecutorTask` (done): the executor pipeline across retried attempts, with the
   pool, scheduler, stream and action cache as environment. `OperationContract`
   (done) is the abstract specification of what the caller sees;
   `ExecutorTask` refines it (`ImplementsContract`).
2. `RemoteBazelLogs` (done): `streamLogs` and `drawChunk` against a server whose
   live chunk is finalised between polls.
3. `RemoteBazelRun` (done): `Config` and `Run` over two invocations of the CLI that
   share the git config and the downloaded `bb-out/` files.
4. `Workspace`: not modelled (section 9).
5. `ExecutorStartup` (done): main's set-up with its `log.Fatal` exits, then warmup
   racing the max wait before registration; and `GrpcShutdown` (done): graceful
   stop racing the hard stop.

Not planned: metrics and logging (no state any other code reads), URL flag
parsing, test-environment wiring.

## 3. The executor model (`ExecutorTask.tla`, `MCExecutorTask.tla`)

### State and actions

| Variable | Code |
|---|---|
| `task` | the ExecutionTask: `SkipCacheLookup`, `DoNotCache`, `Action.Timeout` |
| `attempt`, `pc` | which call of `ExecuteTaskAndStreamResults`, and where it is |
| `deadline` | remaining time of the call's ctx (`ctx.Deadline()`) |
| `runner`, `deferred` | `r`, and whether the TryRecycle `defer` has been registered |
| `ticks`, `cmdChan`, `cmdResult` | the heartbeat ticker, `cmdResultChan`, `cmdResult` |
| `stream` | events sent by `stateChangeFn`/`PublishOperationDone`, tagged with the attempt |
| `ac` | ActionResults in the action cache, with canonical or salted key |
| `outcome` | the `(retry, err)` each attempt returned |
| `runnerState`, `recycleClean` | the pool's view of each runner, and `finishedCleanly` passed to it |
| `runFor` | which attempt's `r.Run` goroutine is running on a runner |
| `runCtx` | when the ctx given to that `r.Run` expires: `context.WithTimeout(ctx, execDuration)` (`RunCtxDeadline`) |
| `prepared`, `poolErr`, `stored` | history used only by properties |

One action per step between two blocking calls of the code: `CheckCacheClients`,
`PublishCacheCheck`, `GetActionResult`, `PublishCachedResult`, `GetRunner`,
`PrepareForTask`, `DownloadInputs`, `PublishExecuting`, `ParseTimeoutAndRun`,
`ReceiveCmdResult`, `PublishHeartbeat`, `ClassifyCmdResult`, `UploadOutputs`,
`UploadActionResult`, `PublishCompleted`; the goroutines `Run(r)` and `TryRecycle(r)`;
the scheduler's `ScheduleAttempt`. Each external call's outcome (stream write
succeeds or fails with one of `StreamErrors`, runner errors, pool errors, the
CommandResult) is chosen with `\E`. `Return` models the return together with the
defers that run on it: cancel, then `go TryRecycle(r, finishedCleanly)` if
registered. Errors are abstracted to what the code tests about them: status
code, status details, identity with `ErrSIGKILL`, and "no such file or directory"
in the message.

### Runs

| Run | Checks | Shows |
|---|---|---|
| `executor_safety` (`MCExecutorTask.cfg`) | `ReturnMatchesStream`, `CommandBoundedByDeadlines`, `ImplementsContract` | the retry flag agrees with the stream on every path explored (see below on `ClientsConfigured`); the command's ctx expires no later than the Action's timeout and the caller's deadline, including at `parseTimeout`'s zero edge; the behaviour refines `OperationContract` |
| `executor_liveness` (`MCExecutorTaskLive.cfg`) | `AttemptEventuallyReturns`, `RunnerReleasedAfterPrepare` | attempts return; runners past `PrepareForTask` go back to the pool |
| `executor_runner_leak` | `RunnerAlwaysReleased` (violated) | a `PrepareForTask` failure leaks the runner |
| `executor_pool_exhaustion` | `AcquireExhaustionIsTerminal` (violated) | pool ResourceExhausted is wrapped as Unavailable and retried |
| `executor_timeout_order` | `TimeoutRejectedBeforeRunner` (violated) | a timeout longer than the ctx's remaining time (the allowed maximum) is rejected, not cut to the minimum, after the runner is acquired, and retried. The property covers only over-limit timeouts, the case spec section 8 speaks of; the trace has timeout 3 against 2 remaining |

Every cfg sets `ClientsConfigured = TRUE`, so the return at `executor.go:163`
(no cache clients: `retry = false` with no event on the stream) is never
explored. That return would break `ReturnMatchesStream`. It cannot happen in
the executor binary, because `main`'s `InitializeCacheClientsOrDie` sets the
clients or exits (section 6).

`ExecutorTask`'s `TypeOK` is kept as a record of each variable's range, and no
run checks it. Every action takes its values from those sets, and the only
mutants that left them removed the model's own bound on heartbeat ticks, which
no code change corresponds to. The same holds for `TypeOK` in `ExecutorStartup`
and `GrpcShutdown`.

`parseTimeout` with no Action timeout and exactly zero remaining time gives the
infinite duration, because 0 means "no maximum" (`executor.go:128`). The
command is still bounded, because its ctx is derived from the attempt's ctx and
keeps the parent's deadline. `CommandBoundedByDeadlines` checks this, and a ctx
made from `context.Background()` (mutant `RunCtxDeadlineDetached`) breaks it.

One behaviour of the model is not the subject of a run. When the final
COMPLETED send fails after the result was uploaded, the task is retried and run
again (`executor.go:345`). Spec section 9 leaves that open, and
`ImplementsContract` allows it.

### Bounds

Two runners (symmetric in the safety run), two attempts (one retry is enough to
show every cross-attempt interaction: a stale Run goroutine, a recycled runner,
events after a retry), one heartbeat tick per Run (a tick racing the result
and a failing tick both happen), task timeouts {none, unparsable, 1, 3} against
remaining times {none, 0, 2} (below, equal to and above each other; the liveness
run uses {none, 3} x {none, 2}), two stream errors and two runner/pool errors chosen
so that both branches of `isBazelRetryableError` are taken, and six
CommandResults (exit 0, exit 1, and exit -1 with no error, SIGKILL, "no such
file" and deadline exceeded).

### Fairness

Weak fairness on the executor goroutine's steps (it only blocks on I/O that
returns), on each `Run(r)` (the command runs under `context.WithTimeout`, so it
returns by the deadline at the latest), on each `TryRecycle(r)` (a goroutine
started by the defer), and on the scheduler's re-run of a retried task. No
fairness on heartbeat ticks beyond that: the bound on ticks stands for the finite
execution time.

## 4. The remote-bazel log model (`RemoteBazelLogs.tla`)

The log is the sequence of terminal rows `1..LogLen`. A model row is one row
of `splitLogBuffer`'s output; `drawChunk` counts `moveBack` from the same split it
prints, so the terminal width does not change the arithmetic. The BuildBuddy
server is the environment, and it is not under `src/`. `WriteRow` appends a row.
`Finalize` seals the live chunk at some row: the rows after that row are the
volatile part, and they move on to the next chunk. `Complete` seals the last
chunk. `Response(c)` is what `GetEventLogChunk` answers for chunk `c`:

* a finalised chunk, with the next chunk's id, or an empty id after the last
  chunk of a complete invocation;
* otherwise the live chunk, which names itself as next.

The client variables are the locals of `streamLogs`: `chunkID`, `moveBack`,
`chunks`, `wasLive`, and `screen`, the rows on the terminal. `Fetch` is one
iteration of the loop. It buffers the response and draws everything buffered
unless a chunk that was live is now finalised, then breaks or moves to the next
id. `drawChunk` erases `moveBack` rows and prints the chunk (the three escape
sequences: up, beginning of line, delete lines). `FetchFails` is the RPC error
return.

| Run | Checks | Shows |
|---|---|---|
| `logs_screen` (`RemoteBazelLogs.cfg`) | `TypeOK`, `ScreenIsLogPrefix` | under every interleaving of polls with writes and finalisations, the terminal shows a prefix of the log |
| `logs_final_chunk` (`RemoteBazelLogsTail.cfg`) | `ScreenShowsWholeLogOnReturn` (violated) | a last chunk finalised after a live poll is held back and never drawn |

Bounds: three rows, three chunks. These cover a chunk finalised with and
without a volatile tail, a finalised chunk followed by a live one, and a live
chunk finalised by completion. Deadlock checking is off because `streamLogs`
returns and the program stops.

## 5. The remote-bazel session model (`RemoteBazelRun.tla`, `MCRemoteBazelRun.tla`)

One user runs the CLI twice (`MaxInvocations = 2`), each time with `build`, `run`
or `test`. The repository is chosen in `Init`:

* its remotes (0 to 2, each with 0 or 1 fetch URL);
* which of main and master exist;
* whether tracked files differ;
* which user files are untracked;
* which of the user's files git cannot read (`unreadable`);
* the layout of the workspace directory and the working directory: both at the
  root, workspace at the root and working directory below it, or both below.

Two pieces of state persist from one invocation to the next: `savedRemote`, the
git config option that `determineRemote` writes, and `untracked`, to which every
downloaded artifact is added. An artifact is added even when its download fails
after `os.Create`.

The actions follow `Config`: `determineRemote` (with the URL check),
`determineDefaultBranch`, `CollectPatches`, and `GitFails` for every local git
error. Then they follow `Run`: `DialServer`, `RunRequest`, `StreamLogs`,
`GetInvocation`, `DialSidecar`, then `GetChildInvocation`, `FetchSet` and
`DownloadFile` for `downloadOutputs`, and finally `FinishDownloads` and
`RunOutput`. Go's random map order over the file sets is the `\E` choice of the
next set. A panic ends the invocation, and its site is recorded.

Paths are abstracted to the directory a file lives in and whether it is under
that directory's `bb-out/`. `git ls-files --others` lists the untracked files at
or below the working directory, relative to it, so the `bb-out/` prefix check
matches exactly the artifacts downloaded into the working directory.

`CollectPatches` builds each untracked file's patch with `diffUntrackedFile`.
`GitDiffNoIndex` is git's answer for one file:
* exit status 1 ("the files differ"), with the patch on stdout, for a file it
  can read;
* exit status 128, with nothing on stdout, for a file it cannot read.

`runGit` returns stdout with an `*exec.ExitError` for any non-zero status.
`diffUntrackedFile` drops that error, as the code does, and an empty stdout
becomes a member of `emptyPatches`. When git cannot run at all, the error is an
Unknown error from `runGit`, which `GitFails` models.

| Run | Checks | Shows |
|---|---|---|
| `remotebazel_sessions` (`MCRemoteBazelRun.cfg`) | `TypeOK`, `ArtifactsNeverPatched`, `RemoteStableAcrossInvocations` | downloaded artifacts never come back as patches; the remote picked once is used by every later invocation |
| `remotebazel_untracked_not_sent` (`MCRemoteBazelRun_UntrackedFilesPatched.cfg`) | `UntrackedFilesPatched` (violated) | `Config` returns without error but without an untracked file's contents. Run below the root, untracked files elsewhere are not listed (line 235). An unreadable file is sent as an empty patch (line 176). The second violation remains when a cfg substitutes a layout with the working directory at the root (`Layouts <-` a one-element set), where the first cannot happen. |
| `remotebazel_panics` (`MCRemoteBazelRunPanic.cfg`) | `NoIndexOutOfRange` (violated) | the shortest trace: `URLs[0]` of a remote with no URL, at line 108; the same property covers `GetInvocation()[0]` of an empty child lookup (line 371) and `outputs[0]` with no artifact for `run` (line 522), both reachable in the model |

Bounds: two remotes, two user files (one at the root, one below it), two file
sets of one artifact each, exit codes {0, 1}. Two invocations are the fewest in
which a saved remote or a downloaded artifact can be read back. The run reaches
5.3 million states in about a minute. Deadlock checking is off because the
user stops after the last invocation.

## 6. The executor startup model (`ExecutorStartup.tla`, `MCExecutorStartup.tla`)

`main` in `src/enterprise/server/cmd/executor/executor.go` is one action per
stretch of set-up between two `log.Fatal` checks:

* `Start`: config parsing and `log.Configure`.
* `CheckConfig`: no executor config, or a pool named both in the config and in
  `MY_POOL`; `resources.Configure`.
* `RegisterBackends`: bundle and the cache backends.
* `InitializeCacheClientsOrDie`/`CacheClientsFail`: bufnet when a cache backend
  registered (`UseLocalCache`), else the app target, fatal when it is unset.
* `ConnectApp`, `StartExecutor` (with `NewExecutorSucceeds`: `NewExecutor` in
  `remote_execution/executor/executor.go` fails without an executor config or a
  root directory), `RegisterCacheServers`, `NewRegistration`.
* `SpawnGoroutines`: the four `go` statements, then `WaitForGracefulShutdown`.

`Fatal` is a failure of the step's calls. Where the code tests a condition, the
model tests the same field of `cfg`. `cfg` records what main tests of its
configuration, and `Init` takes every combination.

The goroutines:

* `WarmupDone`: `executor.Warmup()` returns and `warmupDone` is closed.
* `RegistrationStart`: the test of `StartupWarmupMaxWaitSecs != 0`.
* `WaitTick`/`WarmupOrTimeout`: the select on `warmupDone` and
  `time.After(maxWait)`. The timer counts the seconds the goroutine has waited.
* `Serve`: `localServer.Serve`.
* `ListenAndServe`: `http.ListenAndServe`.

The scheduler and the task are environment. `CacheRpc` is a task, sent once the
executor has registered, that calls the cache. `BufnetRpcServed` serves it over
bufnet once `Serve` runs: `bufDialer`'s `localListener.Dial()` blocks until the
connection is accepted. `RemoteRpcServed` is the app answering.

Run `executor_startup` (`MCExecutorStartup.cfg`, 1,830 states) checks
`ExecutorEventuallyRegisters` and `CacheRpcServedOverBufnet`:

* Unless main exits, the executor registers even when warmup never finishes.
* `reg.Start` may come before `localServer.Serve`. A cache RPC over bufnet
  issued in between waits, and is served in the end. A main that never starts
  `Serve` (mutant `SpawnGoroutinesNoServe`) leaves it waiting forever.

That the registration goroutine does not register early while a wait is
configured is not a property here. The model's `RegistrationStart` and
`WarmupOrTimeout` are the code's two tests, and nothing changes `waited` or
`warm` after registration, so an invariant would only restate those guards.

Bounds: waits of -1, 0 and 2 seconds. -1 makes `time.After` fire at once, 0
skips the select, and 2 lets warmup finish before, at or after the timer.

Fairness: weak fairness on every step of main and of the goroutines other than
`WarmupDone`, and on `BufnetRpcServed`. The Go scheduler runs runnable
goroutines, and the timer fires once its time has passed. Warmup pulls images, so nothing bounds it, and it
gets no fairness. Neither does the scheduler sending a task, nor the app
answering. `CHECK_DEADLOCK FALSE`: the process stops at a `log.Fatal`,
and main blocks in `WaitForGracefulShutdown` once everything has started.

## 7. The gRPC shutdown model (`GrpcShutdown.tla`)

There are three actors:

* The caller: `Call` checks for a deadline, computes `Delay`, derives the ctx
  and spawns the goroutine. Then come `GracefulStop` and `GracefulStopReturns`
  (with `cancel()`).
* The hard-stop goroutine: `HardStop` runs when `CtxDone` or `TimerFired`;
  both cases call `Stop`.
* The server: `StartRpc`, `FinishRpc` and `Drained` (GracefulStop's wait
  ending).

Time is counted in 50 ms ticks from the call, so the 100 ms margin is 2 ticks.
Deadlines are 1 to 5 ticks away, which gives delays of -1 to 3 ticks: negative,
zero and positive. The two select cases differ only in their log line, and the
log is not modelled.

Run `grpc_shutdown` (`GrpcShutdown.cfg`, 362 states, up to three RPCs) checks
`ServerStoppedByDeadline` and `ShutdownReturns`. Whatever the RPCs do, the
server has stopped, with its RPCs cancelled, once the deadline is reached.
`GRPCShutdown` returns, and the hard-stop goroutine leaves its select too, at
the latest once `cancel()` has run.

Fairness: weak fairness on the caller, the goroutine, the drain and the clock.
RPC handlers get none, because a handler may hang; that is the case the hard
stop exists for. `Tick` does not pass over a goroutine whose select is ready:
the 100 ms margin is the time the code leaves for it to be scheduled.
`CHECK_DEADLOCK FALSE`: once `GRPCShutdown` has returned, nothing is left to
happen.

Not checked: when GracefulStop outlasts the delay, `ctx.Done()` and
`time.After(delay)` become ready at the same moment, and the select may log
"Graceful stop of GRPC server succeeded" for what was a hard stop. When the
delay is not positive it always does. Only the log line is wrong.

## 8. Fairness and liveness in the remote-bazel models


The remote-bazel models check safety only. Termination of `streamLogs` depends
on the server finishing the invocation, which the code does not control.

## 9. Not modelled

* Metric and log emission, timestamps of `md`: no code reads them back.
* `HostID` and the host-id fallback in `NewExecutor`: a lookup with no state (`NewExecutor`'s errors are in the startup model).
* `events_api_url.go`: URL flag parsing, pure.
* `enterprise_testenv.go`: test wiring.
* `Workspace`: its implementation is not under `src/`, only its tests, and no
  code under `src/` calls it. `executor.go` reaches the workspace only through
  the runner, which is external too. A model of it would be checked against the
  spec it was written from, with no source to translate and nothing modelled to
  compose with.
* In executor startup: the flag values, the filecache (its error is ignored and
  nothing later reads it), and what the health checks report. Startup readiness
  is the health checker's business, and that code is not under `src/`.
* `GRPCShutdownFunc` (a wrapper), `CommonGRPCServerOptions`,
  `MaxRecvMsgSizeBytes` and `ServeGRPCOverHTTPPort`: option construction and
  routing, with no state.
* In the CLI: the request fields that are formatting (the session-affinity hash,
  the OS and arch flags, the joined bazel command), the console's width, and the
  printing of downloaded paths.
* In the CLI's `Config`: the text of `runGit`'s errors. The model keeps
  only whether git ran and its exit status.

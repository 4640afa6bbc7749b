--------------------------- MODULE ExecutorStartup ---------------------------
(***************************************************************************)
(* main of the executor binary (src/enterprise/server/cmd/executor/        *)
(* executor.go): the environment set-up with its log.Fatal exits, then the *)
(* goroutines main starts before it blocks in WaitForGracefulShutdown:     *)
(* runner warmup, registration with the scheduler after warmup or its      *)
(* maximum wait, the local gRPC server over bufconn and the HTTP server.   *)
(*                                                                         *)
(* A configuration is a record of what main tests of it; a call that can   *)
(* fail for reasons outside main (a dial, a backend, the uuid source) is   *)
(* a nondeterministic log.Fatal.  The warmup timer counts whole seconds.   *)
(***************************************************************************)
EXTENDS Integers

CONSTANTS WaitSecs   \* values of executor.startup_warmup_max_wait_secs

Configs == [hasConfig : BOOLEAN,    \* configurator.GetExecutorConfig() != nil
            pool : BOOLEAN,         \* executorConfig.Pool != ""
            envPool : BOOLEAN,      \* resources.GetPoolName() != "" (MY_POOL)
            cache : BOOLEAN,        \* a cache backend registers: GetCache() != nil
            appTarget : BOOLEAN,    \* executorConfig.GetAppTarget() != ""
            maxWait : WaitSecs]

\* The longest warmup wait, which bounds the registration goroutine's timer.
WaitBound == CHOOSE m \in WaitSecs : \A w \in WaitSecs : w <= m

CacheServices == {"CAS", "ByteStream", "ActionCache"}

VARIABLES
  cfg,        \* the configuration main runs with
  pc,         \* main: its next step, "waiting" or "exited" (log.Fatal)
  cacheConn,  \* "none", "bufnet" or "remote": where cache clients dial
  appConn,    \* scheduler and execution clients are set
  checks,     \* health checks added
  services,   \* services registered on localServer
  warm,       \* warmup goroutine: "none", "running", "done" (warmupDone closed)
  reg,        \* registration goroutine: "none", "start", "select", "registered"
  waited,     \* seconds the registration goroutine has waited
  serve,      \* localServer.Serve goroutine: "none", "spawned", "serving"
  http,       \* http.ListenAndServe goroutine: "none", "spawned", "listening"
  rpc         \* a task's cache RPC: "none", "waiting", "done"

vars == <<cfg, pc, cacheConn, appConn, checks, services, warm, reg, waited,
          serve, http, rpc>>
goroutines == <<warm, reg, waited, serve, http, rpc>>

Steps == {"start", "config", "backends", "cacheClients", "appClient",
          "executor", "cacheServers", "registration", "spawn"}

\* The variables' ranges.  No run checks it: every action draws its values
\* from these sets, and no change a bug could make to the code leaves them,
\* so it documents the state rather than tests it.
TypeOK ==
  /\ cfg \in Configs
  /\ pc \in Steps \cup {"waiting", "exited"}
  /\ cacheConn \in {"none", "bufnet", "remote"}
  /\ appConn \in BOOLEAN
  /\ checks \subseteq {"grpc_cache_connection", "grpc_app_connection"}
  /\ services \subseteq CacheServices
  /\ warm \in {"none", "running", "done"}
  /\ reg \in {"none", "start", "select", "registered"}
  /\ waited \in 0..WaitBound
  /\ serve \in {"none", "spawned", "serving"}
  /\ http \in {"none", "spawned", "listening"}
  /\ rpc \in {"none", "waiting", "done"}

Init ==
  /\ cfg \in Configs
  /\ pc = "start"
  /\ cacheConn = "none" /\ appConn = FALSE
  /\ checks = {} /\ services = {}
  /\ warm = "none" /\ reg = "none" /\ waited = 0
  /\ serve = "none" /\ http = "none"
  /\ rpc = "none"

\* A call of the current step fails and main calls log.Fatal (or os.Exit).
Fatal == pc' = "exited" /\ UNCHANGED <<cfg, cacheConn, appConn, checks, services, goroutines>>

\* main moves on to the next step, changing nothing else.
Goto(s) == pc' = s /\ UNCHANGED <<cfg, cacheConn, appConn, checks, services, goroutines>>

(***************************************************************************)
(* main.                                                                   *)
(***************************************************************************)
\* Umask, ParseAndReconcileFlagsAndConfig, log.Configure, NewHealthChecker,
\* bufconn.Listen; each of the first two may fail.
Start ==
  /\ pc = "start"
  /\ Goto("config") \/ Fatal

\* GetConfiguredEnvironmentOrDie: no executor config, a pool named both in
\* the config and in MY_POOL, or resources.Configure failing is fatal.
CheckConfig ==
  /\ pc = "config"
  /\ IF ~cfg.hasConfig \/ (cfg.pool /\ cfg.envPool) THEN Fatal
     ELSE Goto("backends") \/ Fatal

\* bundle.Get, the authenticator (its error is only logged), the Xcode
\* locator and the gcs, s3, memcache and redis cache registrations.
RegisterBackends ==
  /\ pc = "backends"
  /\ Goto("cacheClients") \/ Fatal

\* useLocalCache := realEnv.GetCache() != nil, after the cache backends
\* registered.
UseLocalCache == cfg.cache

\* InitializeCacheClientsOrDie(appTarget, env, useLocalCache): the local
\* cache over bufnet, or the app target (fatal when unset or when the dial
\* fails); a connection health check either way.  Then the optional
\* filecache, whose error is ignored.
InitializeCacheClientsOrDie ==
  /\ pc = "cacheClients"
  /\ \/ /\ UseLocalCache
        /\ cacheConn' = "bufnet"
     \/ /\ ~UseLocalCache /\ cfg.appTarget
        /\ cacheConn' = "remote"
  /\ checks' = checks \cup {"grpc_cache_connection"}
  /\ pc' = "appClient"
  /\ UNCHANGED <<cfg, appConn, services, goroutines>>

CacheClientsFail ==
  /\ pc = "cacheClients"
  /\ ~UseLocalCache
  /\ Fatal

\* With an app target: dial it (fatal on error), add its health check and
\* set the scheduler and execution clients.
ConnectApp ==
  /\ pc = "appClient"
  /\ IF cfg.appTarget
     THEN \/ /\ appConn' = TRUE
             /\ checks' = checks \cup {"grpc_app_connection"}
             /\ pc' = "executor"
             /\ UNCHANGED <<cfg, cacheConn, services, goroutines>>
          \/ Fatal
     ELSE Goto("executor")

\* NewExecutor (remote_execution/executor/executor.go): an error without an
\* executor config or when the root directory cannot be created; a failing
\* host id lookup falls back to a failsafe id.
NewExecutorSucceeds == IF cfg.hasConfig THEN BOOLEAN ELSE {FALSE}

\* tracing.Configure, grpc.NewServer, uuid.NewRandom, NewExecutor and
\* taskScheduler.Start; each error is fatal.
StartExecutor ==
  /\ pc = "executor"
  /\ \E ok \in NewExecutorSucceeds :
       IF ok THEN Goto("cacheServers") \/ Fatal ELSE Fatal

\* With a cache (env.GetCache() != nil): the CAS, ByteStream and ActionCache
\* servers are made (fatal on error) and registered on localServer.
RegisterCacheServers ==
  /\ pc = "cacheServers"
  /\ IF cfg.cache
     THEN \/ /\ services' = CacheServices
             /\ pc' = "registration"
             /\ UNCHANGED <<cfg, cacheConn, appConn, checks, goroutines>>
          \/ Fatal
     ELSE Goto("registration")

\* Monitoring, /healthz and /readyz, scheduler_client.NewRegistration.
NewRegistration ==
  /\ pc = "registration"
  /\ Goto("spawn") \/ Fatal

\* A mutant of main: localServer.Serve is never started.
SpawnGoroutinesNoServe ==
  /\ pc = "spawn"
  /\ pc' = "waiting"
  /\ warm' = "running" /\ reg' = "start"
  /\ http' = "spawned"
  /\ UNCHANGED <<cfg, cacheConn, appConn, checks, services, waited, serve, rpc>>

\* The four goroutines are started; main blocks in WaitForGracefulShutdown.
SpawnGoroutines ==
  /\ pc = "spawn"
  /\ pc' = "waiting"
  /\ warm' = "running" /\ reg' = "start"
  /\ serve' = "spawned" /\ http' = "spawned"
  /\ UNCHANGED <<cfg, cacheConn, appConn, checks, services, waited, rpc>>

(***************************************************************************)
(* The goroutines.                                                         *)
(***************************************************************************)
\* executor.Warmup() returns and warmupDone is closed.  Warmup pulls runner
\* images; nothing bounds how long it takes.
WarmupDone ==
  /\ warm = "running"
  /\ warm' = "done"
  /\ UNCHANGED <<cfg, pc, cacheConn, appConn, checks, services, reg, waited, serve, http, rpc>>

\* With startup_warmup_max_wait_secs 0 the goroutine registers at once;
\* otherwise it selects on warmupDone and time.After(maxWait).
RegistrationStart ==
  /\ reg = "start"
  /\ reg' = IF cfg.maxWait # 0 THEN "select" ELSE "registered"
  /\ UNCHANGED <<cfg, pc, cacheConn, appConn, checks, services, warm, waited, serve, http, rpc>>

\* A second passes while the goroutine waits.
WaitTick ==
  /\ reg = "select" /\ waited < cfg.maxWait
  /\ waited' = waited + 1
  /\ UNCHANGED <<cfg, pc, cacheConn, appConn, checks, services, warm, reg, serve, http, rpc>>

\* A mutant of the select: the time.After case is missing.
WarmupOrTimeoutNoTimer ==
  /\ reg = "select"
  /\ warm = "done"
  /\ reg' = "registered"
  /\ UNCHANGED <<cfg, pc, cacheConn, appConn, checks, services, warm, waited, serve, http, rpc>>

\* One case of the select is ready: warmupDone is closed, or maxWait has
\* passed (at once when it is negative).  Then reg.Start(rootContext).
WarmupOrTimeout ==
  /\ reg = "select"
  /\ warm = "done" \/ waited >= cfg.maxWait
  /\ reg' = "registered"
  /\ UNCHANGED <<cfg, pc, cacheConn, appConn, checks, services, warm, waited, serve, http, rpc>>

\* localServer.Serve(localListener) accepts bufconn connections.
Serve ==
  /\ serve = "spawned"
  /\ serve' = "serving"
  /\ UNCHANGED <<cfg, pc, cacheConn, appConn, checks, services, warm, reg, waited, http, rpc>>

\* http.ListenAndServe on the HTTP port (its error is dropped).
ListenAndServe ==
  /\ http = "spawned"
  /\ http' = "listening"
  /\ UNCHANGED <<cfg, pc, cacheConn, appConn, checks, services, warm, reg, waited, serve, rpc>>

\* Once registered, the executor is sent a task, which calls the cache
\* through the clients InitializeCacheClientsOrDie set up.
CacheRpc ==
  /\ reg = "registered" /\ rpc = "none"
  /\ rpc' = "waiting"
  /\ UNCHANGED <<cfg, pc, cacheConn, appConn, checks, services, warm, reg, waited, serve, http>>

\* Over bufnet, bufDialer's localListener.Dial() blocks until Serve accepts
\* the connection; then the call is served by localServer.
BufnetRpcServed ==
  /\ rpc = "waiting" /\ cacheConn = "bufnet" /\ serve = "serving"
  /\ rpc' = "done"
  /\ UNCHANGED <<cfg, pc, cacheConn, appConn, checks, services, warm, reg, waited, serve, http>>

\* Over the app target the call is answered by the app, if it is up.
RemoteRpcServed ==
  /\ rpc = "waiting" /\ cacheConn = "remote"
  /\ rpc' = "done"
  /\ UNCHANGED <<cfg, pc, cacheConn, appConn, checks, services, warm, reg, waited, serve, http>>

Next ==
  \/ Start \/ CheckConfig \/ RegisterBackends
  \/ InitializeCacheClientsOrDie \/ CacheClientsFail \/ ConnectApp
  \/ StartExecutor \/ RegisterCacheServers \/ NewRegistration
  \/ SpawnGoroutines
  \/ WarmupDone \/ RegistrationStart \/ WaitTick \/ WarmupOrTimeout
  \/ Serve \/ ListenAndServe
  \/ CacheRpc \/ BufnetRpcServed \/ RemoteRpcServed

\* main and the goroutines are scheduled and the clock runs; warmup gets no
\* fairness, since it may never finish, nor does the app answering or the
\* scheduler sending a task.
Fairness ==
  /\ WF_vars(Start) /\ WF_vars(CheckConfig) /\ WF_vars(RegisterBackends)
  /\ WF_vars(InitializeCacheClientsOrDie \/ CacheClientsFail)
  /\ WF_vars(ConnectApp) /\ WF_vars(StartExecutor)
  /\ WF_vars(RegisterCacheServers) /\ WF_vars(NewRegistration)
  /\ WF_vars(SpawnGoroutines)
  /\ WF_vars(RegistrationStart) /\ WF_vars(WaitTick) /\ WF_vars(WarmupOrTimeout)
  /\ WF_vars(Serve) /\ WF_vars(ListenAndServe)
  /\ WF_vars(BufnetRpcServed)

Spec == Init /\ [][Next]_vars /\ Fairness

(***************************************************************************)
(* Properties.                                                             *)
(***************************************************************************)
\* Unless main exits, the executor registers with the scheduler, even when
\* warmup never finishes.
ExecutorEventuallyRegisters == <>(pc = "exited" \/ reg = "registered")

\* reg.Start runs in its own goroutine and may come before
\* localServer.Serve: a task's cache RPC over bufnet issued then waits for
\* the connection to be accepted, and is served in the end.
CacheRpcServedOverBufnet ==
  (rpc = "waiting" /\ cacheConn = "bufnet") ~> (rpc = "done")
=============================================================================

---------------------------- MODULE GrpcShutdown ----------------------------
(***************************************************************************)
(* GRPCShutdown (src/server/util/grpc_server/grpc_server.go): a graceful   *)
(* stop of a gRPC server that a goroutine turns into a hard stop 100ms     *)
(* before the shutdown context's deadline.                                 *)
(*                                                                         *)
(* Three actors: the caller of GRPCShutdown, the hard-stop goroutine it    *)
(* spawns, and the grpc.Server with its in-flight RPCs (environment).      *)
(* Time is counted in ticks of 50ms from the call; Margin is the 100ms.    *)
(* The grpc.Server is reduced to what GRPCShutdown relies on: GracefulStop *)
(* refuses new RPCs and blocks until the in-flight ones end; Stop cancels  *)
(* them and makes a pending GracefulStop return.  The log lines of the     *)
(* select are left out.                                                    *)
(***************************************************************************)
EXTENDS Integers, FiniteSets

CONSTANTS Rpcs,        \* RPCs a client may start
          Deadlines,   \* ticks from the call to the ctx deadline, or NoDeadline
          NoDeadline,
          Margin,      \* 100 * time.Millisecond, in ticks
          MaxTime      \* last tick the model follows

VARIABLES
  now,        \* ticks since GRPCShutdown was called
  pc,         \* caller: "idle", "spawned", "graceful", "returned"
  deadline,   \* the shutdown ctx's deadline
  ctxAt,      \* deadline of the ctx made by context.WithTimeout(ctx, delay)
  cancelled,  \* cancel() of that ctx was called
  gpc,        \* goroutine: "none", "select", "exited"
  timerAt,    \* when time.After(delay) fires
  srv,        \* server: "serving", "draining", "stopped"
  inflight    \* RPCs being served

vars == <<now, pc, deadline, ctxAt, cancelled, gpc, timerAt, srv, inflight>>

Times == -MaxTime..MaxTime

\* The variables' ranges.  No run checks it: every action draws its values
\* from these sets, and no change a bug could make to the code leaves them,
\* so it documents the state rather than tests it.
TypeOK ==
  /\ now \in 0..MaxTime
  /\ pc \in {"idle", "spawned", "graceful", "returned"}
  /\ deadline \in Deadlines
  /\ ctxAt \in Times /\ timerAt \in Times
  /\ cancelled \in BOOLEAN
  /\ gpc \in {"none", "select", "exited"}
  /\ srv \in {"serving", "draining", "stopped"}
  /\ inflight \subseteq Rpcs

Init ==
  /\ now = 0
  /\ pc = "idle"
  /\ deadline \in Deadlines
  /\ ctxAt = 0 /\ timerAt = 0
  /\ cancelled = FALSE
  /\ gpc = "none"
  /\ srv = "serving"
  /\ inflight = {}

\* grpcServer.Stop(): every connection is closed, its RPCs cancelled.
StopServer == srv' = "stopped" /\ inflight' = {}

(***************************************************************************)
(* The server and its clients (environment).                               *)
(***************************************************************************)
\* A client starts an RPC; GracefulStop and Stop refuse new ones.
StartRpc(q) ==
  /\ srv = "serving" /\ q \notin inflight
  /\ inflight' = inflight \cup {q}
  /\ UNCHANGED <<now, pc, deadline, ctxAt, cancelled, gpc, timerAt, srv>>

\* An RPC handler returns.  Nothing makes it: a handler may hang.
FinishRpc(q) ==
  /\ q \in inflight
  /\ inflight' = inflight \ {q}
  /\ UNCHANGED <<now, pc, deadline, ctxAt, cancelled, gpc, timerAt, srv>>

\* GracefulStop's wait ends once the last in-flight RPC has ended.
Drained ==
  /\ srv = "draining" /\ inflight = {}
  /\ srv' = "stopped"
  /\ UNCHANGED <<now, pc, deadline, ctxAt, cancelled, gpc, timerAt, inflight>>

(***************************************************************************)
(* The caller.                                                             *)
(***************************************************************************)
\* A mutant of the delay: the 100ms margin is not taken off.
DelayWithoutMargin(d) == d

\* delay := deadline.Sub(time.Now()) - 100ms; negative when the deadline is
\* less than 100ms away.
Delay(d) == d - Margin

\* No deadline: Stop and return.  Otherwise derive ctx with
\* context.WithTimeout(ctx, delay) and start the hard-stop goroutine.
Call ==
  /\ pc = "idle"
  /\ IF deadline = NoDeadline
     THEN /\ StopServer
          /\ pc' = "returned"
          /\ UNCHANGED <<ctxAt, gpc, timerAt>>
     ELSE /\ ctxAt' = now + Delay(deadline)
             \* time.After(delay) runs as the goroutine's select starts,
             \* which is at once (see Tick)
          /\ timerAt' = now + Delay(deadline)
          /\ gpc' = "select"
          /\ pc' = "spawned"
          /\ UNCHANGED <<srv, inflight>>
  /\ UNCHANGED <<now, deadline, cancelled>>

\* grpcServer.GracefulStop() is entered; on a stopped server it is a no-op.
GracefulStop ==
  /\ pc = "spawned"
  /\ srv' = IF srv = "stopped" THEN "stopped" ELSE "draining"
  /\ pc' = "graceful"
  /\ UNCHANGED <<now, deadline, ctxAt, cancelled, gpc, timerAt, inflight>>

\* GracefulStop returns (drained, or Stop was called); cancel(); return nil.
GracefulStopReturns ==
  /\ pc = "graceful" /\ srv = "stopped"
  /\ cancelled' = TRUE
  /\ pc' = "returned"
  /\ UNCHANGED <<now, deadline, ctxAt, gpc, timerAt, srv, inflight>>

(***************************************************************************)
(* The hard-stop goroutine: whichever of ctx.Done() and time.After(delay)  *)
(* is ready, it calls grpcServer.Stop().                                   *)
(***************************************************************************)
CtxDone == cancelled \/ now >= ctxAt
TimerFired == now >= timerAt

\* A mutant of the goroutine: it waits for cancel() only (a ctx made by
\* context.WithCancel and no time.After case).
HardStopOnCancel ==
  /\ gpc = "select"
  /\ cancelled
  /\ StopServer
  /\ gpc' = "exited"
  /\ UNCHANGED <<now, pc, deadline, ctxAt, cancelled, timerAt>>

HardStop ==
  /\ gpc = "select"
  /\ CtxDone \/ TimerFired
  /\ StopServer
  /\ gpc' = "exited"
  /\ UNCHANGED <<now, pc, deadline, ctxAt, cancelled, timerAt>>

\* Time passes once GRPCShutdown is called.  A goroutine whose select is
\* ready runs before the next tick: the 100ms margin is the time the code
\* allows for it to be scheduled.
Tick ==
  /\ pc # "idle" /\ now < MaxTime
  /\ ~(gpc = "select" /\ (CtxDone \/ TimerFired))
  /\ now' = now + 1
  /\ UNCHANGED <<pc, deadline, ctxAt, cancelled, gpc, timerAt, srv, inflight>>

Next ==
  \/ \E q \in Rpcs : StartRpc(q) \/ FinishRpc(q)
  \/ Drained
  \/ Call \/ GracefulStop \/ GracefulStopReturns
  \/ HardStop
  \/ Tick

\* Go schedules runnable goroutines and the clock runs; RPC handlers get no
\* fairness, since one may never return.
Fairness ==
  /\ WF_vars(Drained)
  /\ WF_vars(Call) /\ WF_vars(GracefulStop) /\ WF_vars(GracefulStopReturns)
  /\ WF_vars(HardStop)
  /\ WF_vars(Tick)

Spec == Init /\ [][Next]_vars /\ Fairness

(***************************************************************************)
(* Properties.                                                             *)
(***************************************************************************)
\* The point of the hard-stop goroutine: whatever the in-flight RPCs do and
\* however close the deadline is (delay may be zero or negative), the server
\* has stopped, its RPCs cancelled, by the shutdown context's deadline.
ServerStoppedByDeadline ==
  (pc # "idle" /\ deadline # NoDeadline /\ now >= deadline)
      => srv = "stopped" /\ inflight = {}

\* GRPCShutdown returns, with or without a deadline, even when an RPC
\* handler never returns, and the hard-stop goroutine it started eventually
\* leaves its select too (at the latest once cancel() has run).
ShutdownReturns == <>(pc = "returned" /\ gpc # "select")
=============================================================================

------------------------------ MODULE Process ------------------------------
(***************************************************************************)
(* The life of the process after its start: the manager runs the gRPC      *)
(* server as a runnable, which listens, leaves a goroutine waiting for the *)
(* manager's context, and serves; a signal, a lost lease or a failing      *)
(* runnable cancels the context.                                           *)
(*                                                                         *)
(* External, from how main and the runnable use them: the manager cancels  *)
(* its context on the first error it takes and waits for its runnables to  *)
(* return, except after a lost lease; grpc.Server's Serve refuses to begin *)
(* after GracefulStop has, and when it has begun returns nil once          *)
(* GracefulStop is through with the calls in flight.  Calls end: Check     *)
(* waits for nothing but the sidecar, for 5 s at most, and the manager     *)
(* waits for 30 s.                                                         *)
(***************************************************************************)
EXTENDS Startup, Naturals

CONSTANT MaxCalls   \* bound on the calls in flight

ASSUME CallsAssumption == MaxCalls \in Nat

VARIABLES
  ctx,        \* the manager's context: "open", or why it was cancelled
  lease,      \* whether this replica leads
  serve,      \* where the runnable's function is, or what it returned
  stopper,    \* the goroutine that waits for the context
  calls,      \* calls of Check in flight
  exit,       \* the exit status, None while the process runs
  cut         \* calls that were cut off by the server or the exit

procVars == <<ctx, lease, serve, stopper, calls, exit, cut>>
allVars == <<pc, cfg, file, procVars>>

Cancelled == ctx # "open"
Stopping == stopper \in {"stopping", "done"}
Returned == serve \in {"nil", "error"}

\* In mgr.Start.
Managed == pc = "serving" /\ UNCHANGED <<pc, cfg, file>>

-----------------------------------------------------------------------------
(* pkg/runnable *)

\* Mutant: the server is started on the leader only.
NeedLeaderElection_default == TRUE

NeedLeaderElection == FALSE

\* The runnable's function goes from one point to the next.
Advance(from, to) ==
  /\ Managed
  /\ serve = from
  /\ serve' = to
  /\ UNCHANGED <<ctx, lease, stopper, calls, exit, cut>>

StartRunnable == (NeedLeaderElection => lease) /\ Advance("waiting", "listen")

\* Listen fails when the port is taken.  A context that is cancelled already
\* does not stop it: there is no host name to resolve.
Listen == Advance("listen", "spawn") \/ Advance("listen", "error")

\* Mutant: nobody waits for the context.
Spawn_noWatcher == Advance("spawn", "serve")

Spawn ==
  /\ Managed
  /\ serve = "spawn"
  /\ serve' = "serve"
  /\ stopper' = "waiting"
  /\ UNCHANGED <<ctx, lease, calls, exit, cut>>

\* Serve begins, or finds the server stopped and returns an error.
Serve == Advance("serve", IF Stopping THEN "error" ELSE "serving")

\* The listener breaks.
ServeFails == ~Stopping /\ Advance("serving", "error")

\* Mutant: Stop instead of GracefulStop.
GracefulStop_abrupt ==
  /\ Managed
  /\ stopper = "waiting"
  /\ Cancelled
  /\ stopper' = "stopping"
  /\ calls' = 0
  /\ cut' = cut + calls
  /\ UNCHANGED <<ctx, lease, serve, exit>>

\* The goroutine wakes up: no new call is accepted ...
GracefulStop ==
  /\ Managed
  /\ stopper = "waiting"
  /\ Cancelled
  /\ stopper' = "stopping"
  /\ UNCHANGED <<ctx, lease, serve, calls, exit, cut>>

\* ... and GracefulStop returns when the last one is answered.
Drained ==
  /\ Managed
  /\ stopper = "stopping"
  /\ calls = 0
  /\ stopper' = "done"
  /\ UNCHANGED <<ctx, lease, serve, calls, exit, cut>>

ServeReturns == stopper = "done" /\ Advance("serving", "nil")

Call ==
  /\ Managed
  /\ serve = "serving"
  /\ ~Stopping
  /\ calls < MaxCalls
  /\ calls' = calls + 1
  /\ UNCHANGED <<ctx, lease, serve, stopper, exit, cut>>

CallEnds ==
  /\ Managed
  /\ calls > 0
  /\ calls' = calls - 1
  /\ UNCHANGED <<ctx, lease, serve, stopper, exit, cut>>

-----------------------------------------------------------------------------
(* The manager *)

Signal ==
  /\ Managed
  /\ ctx = "open"
  /\ ctx' = "signalled"
  /\ UNCHANGED <<lease, serve, stopper, calls, exit, cut>>

AcquireLease ==
  /\ Managed
  /\ ~lease
  /\ lease' = TRUE
  /\ UNCHANGED <<ctx, serve, stopper, calls, exit, cut>>

\* The process ends with what is in flight.
ExitWith(status) ==
  /\ pc = "serving"
  /\ pc' = "exited"
  /\ exit' = status
  /\ cut' = cut + calls
  /\ calls' = 0
  /\ UNCHANGED <<cfg, file, ctx, lease, serve, stopper>>

\* Start returns an error without waiting for anybody.
LoseLease == lease /\ ExitWith(1)

TakeError ==
  /\ Managed
  /\ ctx = "open"
  /\ serve = "error"
  /\ ctx' = "failed"
  /\ UNCHANGED <<lease, serve, stopper, calls, exit, cut>>

\* Start returns when the runnable has, with the error that made it stop.  An
\* error that comes together with a signal is returned or only logged.
ManagerReturns ==
  /\ Cancelled
  /\ Returned \/ serve = "waiting"
  /\ \/ ctx = "signalled" /\ ExitWith(0)
     \/ (ctx = "failed" \/ serve = "error") /\ ExitWith(1)

-----------------------------------------------------------------------------
PInit ==
  /\ Init
  /\ ctx = "open"
  /\ lease = FALSE
  /\ serve = "waiting"
  /\ stopper = "none"
  /\ calls = 0
  /\ exit = None
  /\ cut = 0

\* A step of main before mgr.Start; os.Exit(1) ends it.
MainStep ==
  /\ Next
  /\ exit' = IF pc' = "exited" THEN 1 ELSE None
  /\ UNCHANGED <<ctx, lease, serve, stopper, calls, cut>>

RunnableStep == StartRunnable \/ Listen \/ Spawn \/ Serve \/ ServeReturns
StopperStep == GracefulStop \/ Drained
ManagerStep == TakeError \/ ManagerReturns

PNext ==
  \/ MainStep
  \/ RunnableStep \/ StopperStep \/ ManagerStep
  \/ Call \/ CallEnds \/ ServeFails
  \/ Signal \/ AcquireLease \/ LoseLease

\* Goroutines are scheduled and calls end; nothing is assumed of the lease,
\* of signals or of new calls.
PSpec ==
  /\ PInit /\ [][PNext]_allVars
  /\ WF_allVars(RunnableStep) /\ WF_allVars(StopperStep)
  /\ WF_allVars(ManagerStep) /\ WF_allVars(CallEnds)

-----------------------------------------------------------------------------
(* Properties *)

ProcessTypeOK ==
  /\ TypeOK
  /\ ctx \in {"open", "signalled", "failed"}
  /\ lease \in BOOLEAN
  /\ serve \in {"waiting", "listen", "spawn", "serve", "serving", "nil", "error"}
  /\ stopper \in {"none", "waiting", "stopping", "done"}
  /\ calls \in 0..MaxCalls
  /\ exit \in {None, 0, 1}
  /\ cut \in 0..MaxCalls

\* A process that exits with status 0 has answered every call it accepted,
\* wherever the signal falls between Listen, the start of the goroutine and
\* Serve; unless the listener broke under it (grpc.go: GracefulStop; the
\* comment "Handles graceful shutdown when the manager's context is
\* cancelled").
CleanExitCutsNothing == exit = 0 /\ serve # "error" => cut = 0

\* Once its context is cancelled the process exits: neither a cancellation
\* that comes before the goroutine is there nor one that comes before Serve
\* leaves the runnable, or the manager waiting for it, behind (grpc.go:
\* GRPCServer).
ShutdownCompletes == (pc = "serving" /\ Cancelled) ~> (pc = "exited")

\* The ext-auth server gets to serve, or has failed, on every replica,
\* whether it ever holds the lease or not (leader_election.go: "must serve
\* traffic on every replica").
ServesOnEveryReplica == (pc = "serving") ~> (serve = "serving" \/ Returned \/ pc = "exited")

=============================================================================

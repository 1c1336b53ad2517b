---------------------------- MODULE ServiceBoot -----------------------------
(***************************************************************************)
(* The life of a switchd process: main (cmd/switchd), serviceboot.Run and  *)
(* shutdown, with the requests and the poller that run meanwhile on the    *)
(* connections main opened.  ledger and mockrail boot by the same Run,     *)
(* with gRPC requests only, and with no poller.                            *)
(***************************************************************************)
EXTENDS Naturals

CONSTANTS
    HTTP,       \* REST requests, served on the health listener
    GRPC,       \* rail callbacks and corrective calls
    Stuck,      \* REST requests whose handler may wait for ever
    Grace       \* the deadline of shutdownCtx

ASSUME BootAssumption ==
    /\ HTTP \cap GRPC = {}
    /\ Stuck \subseteq HTTP
    /\ Grace \in Nat \ {0}

VARIABLES
    phase,      \* where main is
    how,        \* how the process ended
    pool,       \* the connection pool
    pollCtx,    \* the context of the poller
    polling,    \* the poller holds a connection
    http,       \* the REST listener: not yet bound, open, or shut
    signalled,  \* SIGTERM has reached NotifyContext
    serveErr,   \* the REST server has failed
    req,        \* the requests: a handler runs, holds a connection, has ended
    waited      \* how long Shutdown has waited

procVars == <<phase, how, signalled, serveErr, waited>>
pollVars == <<pollCtx, polling>>
vars == <<phase, how, pool, pollCtx, polling, http, signalled, serveErr, req, waited>>

Request == HTTP \cup GRPC
Open(r) == req[r] \in {"running", "query"}
-----------------------------------------------------------------------------
(* The process is gone, and with it every request that is still open.      *)
Exit(reason) ==
    /\ phase' = "exited"
    /\ how' = reason
    /\ UNCHANGED <<pollVars, http, signalled, serveErr, req, waited>>

(* NewPool: without a database main gives up.                              *)
Connect ==
    /\ phase = "connect"
    /\ \/ /\ phase' = "recover"
          /\ pool' = "open"
          /\ UNCHANGED <<how, pollVars, http, signalled, serveErr, req, waited>>
       \/ Exit("fatal") /\ UNCHANGED pool

(* The sweep, which may fail; then the poller and the REST server start.   *)
Recover ==
    /\ phase = "recover"
    /\ phase' = "listen"
    /\ pollCtx' = "live"
    /\ UNCHANGED <<how, pool, polling, http, signalled, serveErr, req, waited>>

(* The goroutine of the REST server binds its address, or reports that it  *)
(* cannot.  After Shutdown it ends at once.                                *)
BindHTTP ==
    /\ http = "unbound"
    /\ phase \in {"listen", "serve"}
    /\ \/ http' = "open" /\ UNCHANGED serveErr
       \/ http' = "shut" /\ serveErr' = TRUE
    /\ UNCHANGED <<phase, how, pool, pollVars, signalled, req, waited>>

(* A server that was serving fails.                                        *)
ServeFails ==
    /\ phase = "serve" /\ ~serveErr
    /\ serveErr' = TRUE
    /\ http' \in IF http = "open" THEN {"open", "shut"} ELSE {http}
    /\ UNCHANGED <<phase, how, pool, pollVars, signalled, req, waited>>

(* Run returns at once if the gRPC address is taken: main ends the process *)
(* without shutdown or Cleanup.                                            *)
ListenGRPC ==
    /\ phase = "listen"
    /\ \/ /\ phase' = "serve"
          /\ UNCHANGED <<how, pollVars, http, signalled, serveErr, req, waited>>
       \/ Exit("fatal")
    /\ UNCHANGED pool

(* A signal kills the process until Run has installed its handler; from    *)
(* then on it is remembered, and a second one changes nothing.             *)
SigTerm ==
    /\ ~signalled /\ phase # "exited"
    /\ IF phase \in {"connect", "recover"}
         THEN Exit("killed")
         ELSE signalled' = TRUE /\ UNCHANGED <<phase, how, pollVars, http, serveErr, req, waited>>
    /\ UNCHANGED pool
-----------------------------------------------------------------------------
(* shutdown: the REST server stops listening and waits for its requests,   *)
(* the gRPC server does the same, then Cleanup.                            *)
BeginShutdown ==
    /\ phase = "serve"
    /\ signalled \/ serveErr
    /\ phase' = "httpStop"
    /\ http' = "shut"
    /\ UNCHANGED <<how, pool, pollVars, signalled, serveErr, req, waited>>

Wait ==
    /\ phase = "httpStop"
    /\ waited < Grace
    /\ waited' = waited + 1
    /\ UNCHANGED <<phase, how, pool, pollVars, http, signalled, serveErr, req>>

(* Mutants: Shutdown has no deadline; it does not wait at all.             *)
HTTPStoppedNoDeadline ==
    /\ phase = "httpStop"
    /\ \A r \in HTTP : ~Open(r)
    /\ phase' = "grpcStop"
    /\ UNCHANGED <<how, pool, pollVars, http, signalled, serveErr, req, waited>>

HTTPStoppedAtOnce ==
    /\ phase = "httpStop"
    /\ phase' = "grpcStop"
    /\ UNCHANGED <<how, pool, pollVars, http, signalled, serveErr, req, waited>>

HTTPStopped ==
    /\ phase = "httpStop"
    /\ (\A r \in HTTP : ~Open(r)) \/ waited = Grace
    /\ phase' = "grpcStop"
    /\ UNCHANGED <<how, pool, pollVars, http, signalled, serveErr, req, waited>>

(* Mutant: Stop instead of GracefulStop.                                   *)
GRPCStoppedAtOnce ==
    /\ phase = "grpcStop"
    /\ phase' = "cleanup"
    /\ pollCtx' = "cancelled"
    /\ pool' = "closing"
    /\ UNCHANGED <<how, polling, http, signalled, serveErr, req, waited>>

(* Cleanup: the poller's context is cancelled, the clients' connections    *)
(* are closed, and pool.Close refuses new users...                         *)
GRPCStopped ==
    /\ phase = "grpcStop"
    /\ \A r \in GRPC : ~Open(r)
    /\ phase' = "cleanup"
    /\ pollCtx' = "cancelled"
    /\ pool' = "closing"
    /\ UNCHANGED <<how, polling, http, signalled, serveErr, req, waited>>

(* ... and waits for the connections in use; then main returns.            *)
PoolClosed ==
    /\ phase = "cleanup"
    /\ ~polling /\ \A r \in Request : req[r] # "query"
    /\ pool' = "closed"
    /\ Exit("stopped")
-----------------------------------------------------------------------------
(* Requests and the poller.                                                *)

Become(r, s) == req' = [req EXCEPT ![r] = s]

Arrive(r) ==
    /\ req[r] = "none"
    /\ \/ r \in HTTP /\ http = "open" /\ phase # "exited"
       \/ r \in GRPC /\ phase \in {"serve", "httpStop"}
    /\ Become(r, "running")
    /\ UNCHANGED <<procVars, pool, pollVars, http>>

(* A handler takes a connection for a transaction, or is refused one.      *)
Query(r) ==
    /\ req[r] = "running" /\ phase # "exited"
    /\ Become(r, IF pool = "open" THEN "query" ELSE "refused")
    /\ UNCHANGED <<procVars, pool, pollVars, http>>

QueryDone(r) ==
    /\ req[r] = "query" /\ phase # "exited"
    /\ Become(r, "running")
    /\ UNCHANGED <<procVars, pool, pollVars, http>>

Respond(r) ==
    /\ req[r] = "running" /\ phase # "exited"
    /\ Become(r, "done")
    /\ UNCHANGED <<procVars, pool, pollVars, http>>

Poll ==
    /\ pollCtx = "live" /\ ~polling /\ pool = "open" /\ phase # "exited"
    /\ polling' = TRUE
    /\ UNCHANGED <<procVars, pool, pollCtx, http, req>>

PollDone ==
    /\ polling /\ phase # "exited"
    /\ polling' = FALSE
    /\ UNCHANGED <<procVars, pool, pollCtx, http, req>>
-----------------------------------------------------------------------------
Init ==
    /\ phase = "connect" /\ how = "running"
    /\ pool = "none"
    /\ pollCtx = "none" /\ polling = FALSE
    /\ http = "unbound"
    /\ signalled = FALSE /\ serveErr = FALSE
    /\ req = [r \in Request |-> "none"]
    /\ waited = 0

Main ==
    Connect \/ Recover \/ ListenGRPC \/ BeginShutdown \/ HTTPStopped \/ GRPCStopped \/ PoolClosed

Serve(r) == Arrive(r) \/ Query(r) \/ QueryDone(r) \/ Respond(r)

Next ==
    \/ Main \/ BindHTTP \/ ServeFails \/ SigTerm \/ Wait \/ Poll \/ PollDone
    \/ \E r \in Request : Serve(r)

Spec == Init /\ [][Next]_vars

(* main runs, time passes, every statement ends, and every handler ends    *)
(* after finitely many of them, but for the stuck ones: a callback has the *)
(* caller's deadline, a corrective call makes no remote call, a REST       *)
(* request waits for the ledger without a deadline.                        *)
Fairness ==
    /\ WF_vars(Main) /\ WF_vars(Wait) /\ WF_vars(PollDone)
    /\ \A r \in Request : WF_vars(QueryDone(r))
    /\ \A r \in Request \ Stuck : SF_vars(Respond(r))

FairSpec == Spec /\ Fairness
-----------------------------------------------------------------------------
(* A request that a stopping process fails: it was refused a connection,   *)
(* or was open when main returned.                                         *)
CutShort(r) == req[r] = "refused" \/ (how = "stopped" /\ Open(r))

(* A rail callback or a corrective call that was accepted is served to its *)
(* end, however the signal falls (serviceboot.go: GracefulStop precedes    *)
(* Cleanup).                                                               *)
CallsServedToTheEnd == \A r \in GRPC : ~CutShort(r)

(* A REST request is cut short only after it had the whole deadline of the *)
(* shutdown (serviceboot.go: Shutdown under shutdownCtx).                  *)
RequestsGetTheirGrace == \A r \in HTTP : CutShort(r) => waited = Grace

(* A process that is told to stop does end, even if a REST request never   *)
(* does: nobody waits on it beyond the deadline, and the poller gives its  *)
(* connection back.                                                        *)
SignalEndsProcess == signalled ~> phase = "exited"
=============================================================================

-------------------------- MODULE ServiceBootProofs -------------------------
(***************************************************************************)
(* Proofs about module ServiceBoot, for any requests and any grace: the    *)
(* order in which shutdown stops the servers and closes what they use.     *)
(***************************************************************************)
EXTENDS ServiceBoot, TLAPS

ReqState == {"none", "running", "query", "refused", "done"}

TypeInv == req \in [Request -> ReqState] /\ waited \in Nat

(* Before Run listens, nothing serves.                                     *)
EarlyInv ==
    phase \in {"connect", "recover"} =>
      http = "unbound" /\ \A r \in Request : req[r] = "none"

(* Handlers find the pool open until Cleanup closes it.                    *)
PoolInv == phase \in {"recover", "listen", "serve", "httpStop", "grpcStop"} => pool = "open"

(* Once the REST server is stopped, its address is shut and its requests   *)
(* have ended or had their grace.                                          *)
RestInv ==
    /\ phase \in {"httpStop", "grpcStop", "cleanup"} => http = "shut"
    /\ phase \in {"grpcStop", "cleanup"} \/ how = "stopped" =>
         waited = Grace \/ \A r \in HTTP : ~Open(r)

(* Once the gRPC server is stopped, so are its requests.                   *)
CallInv == phase = "cleanup" \/ how = "stopped" => \A r \in GRPC : ~Open(r)

(* What a stopping process does to its requests.                           *)
CutInv ==
    /\ how = "stopped" => phase = "exited"
    /\ phase \in {"connect", "recover", "listen", "serve", "httpStop", "grpcStop", "cleanup", "exited"}
    /\ \A r \in Request : req[r] = "refused" => r \in HTTP /\ waited = Grace

BootInv == TypeInv /\ EarlyInv /\ PoolInv /\ RestInv /\ CallInv /\ CutInv
-----------------------------------------------------------------------------
(* A process that has just started satisfies the invariant.                *)
LEMMA BootInit == Init => BootInv
<1>. SUFFICES ASSUME Init PROVE BootInv
  OBVIOUS
<1>1. TypeInv
  BY DEF Init, TypeInv, ReqState
<1>2. EarlyInv /\ PoolInv /\ RestInv /\ CallInv /\ CutInv
  BY DEF Init, EarlyInv, PoolInv, RestInv, CallInv, CutInv
<1>. QED BY <1>1, <1>2 DEF BootInv

(* The steps of main and of the clock: no request changes.                 *)
LEMMA ProcessStep ==
  ASSUME BootInv, Main \/ BindHTTP \/ ServeFails \/ SigTerm \/ Wait \/ Poll \/ PollDone
  PROVE  BootInv'
<1>. USE DEF BootInv
<1>1. req' = req
  BY DEF Main, Connect, Recover, ListenGRPC, BeginShutdown, HTTPStopped, GRPCStopped, PoolClosed, Exit,
         BindHTTP, ServeFails, SigTerm, Wait, Poll, PollDone
<1>2. \A r \in Request : Open(r)' = Open(r)
  BY <1>1 DEF Open
<1>3. \A r \in HTTP : r \in Request
  BY DEF Request
<1>4. \A r \in GRPC : r \in Request
  BY DEF Request
<1>. USE <1>1, <1>2, <1>3, <1>4, BootAssumption
     DEF TypeInv, EarlyInv, PoolInv, RestInv, CallInv, CutInv
<1>5. CASE Connect
  BY <1>5 DEF Connect, Exit
<1>6. CASE Recover
  BY <1>6 DEF Recover
<1>7. CASE ListenGRPC
  BY <1>7 DEF ListenGRPC, Exit
<1>8. CASE BeginShutdown
  BY <1>8 DEF BeginShutdown
<1>9. CASE HTTPStopped
  BY <1>9 DEF HTTPStopped
<1>10. CASE GRPCStopped
  BY <1>10 DEF GRPCStopped
<1>11. CASE PoolClosed
  BY <1>11 DEF PoolClosed, Exit
<1>12. CASE BindHTTP
  BY <1>12 DEF BindHTTP, pollVars
<1>13. CASE ServeFails
  BY <1>13 DEF ServeFails, pollVars
<1>14. CASE SigTerm
  BY <1>14 DEF SigTerm, Exit, pollVars
<1>15. CASE Wait
  BY <1>15 DEF Wait, pollVars
<1>16. CASE Poll \/ PollDone
  BY <1>16 DEF Poll, PollDone, procVars
<1>. QED BY <1>5, <1>6, <1>7, <1>8, <1>9, <1>10, <1>11, <1>12, <1>13, <1>14, <1>15, <1>16 DEF Main

(* The steps of one request: the process does not change.                  *)
LEMMA RequestStep ==
  ASSUME BootInv, NEW r \in Request, Serve(r)
  PROVE  BootInv'
<1>. USE DEF BootInv
<1>1. UNCHANGED <<procVars, pool, pollVars, http>>
  BY DEF Serve, Arrive, Query, QueryDone, Respond
<1>2. phase' = phase /\ how' = how /\ waited' = waited /\ pool' = pool /\ http' = http
  BY <1>1 DEF procVars
<1>3. phase # "exited"
  BY DEF Serve, Arrive, Query, QueryDone, Respond
<1>4. PICK s \in ReqState : req' = [req EXCEPT ![r] = s]
  BY DEF Serve, Arrive, Query, QueryDone, Respond, Become, ReqState
<1>5. TypeInv'
  BY <1>2, <1>4 DEF TypeInv
<1>6. req'[r] = s /\ \A q \in Request \ {r} : req'[q] = req[q]
  BY <1>4 DEF TypeInv
<1>7. how # "stopped"
  BY <1>3 DEF CutInv
<1>8. \A q \in Request : Open(q)' => Open(q) \/ (q = r /\ Arrive(r))
  BY <1>6 DEF Serve, Arrive, Query, QueryDone, Respond, Open
<1>9. Arrive(r) => /\ phase \notin {"connect", "recover", "grpcStop", "cleanup", "exited"}
                   /\ r \in HTTP => phase # "httpStop"
  BY BootAssumption DEF Arrive, EarlyInv, RestInv, CutInv
<1>10. EarlyInv'
  <2>1. phase \in {"connect", "recover"} => FALSE
    BY <1>9 DEF Serve, Arrive, Query, QueryDone, Respond, EarlyInv
  <2>. QED BY <1>2, <2>1 DEF EarlyInv
<1>11. PoolInv'
  BY <1>2 DEF PoolInv
<1>12. RestInv'
  <2>1. phase \in {"grpcStop", "cleanup"} => waited = Grace \/ \A q \in HTTP : ~Open(q)'
    BY <1>8, <1>9 DEF RestInv, Request
  <2>. QED BY <1>2, <1>7, <2>1 DEF RestInv
<1>13. CallInv'
  BY <1>2, <1>7, <1>8, <1>9 DEF CallInv, Request
<1>14. CutInv'
  <2>1. ASSUME req'[r] = "refused" PROVE r \in HTTP /\ waited = Grace
    <3>1. req[r] = "running" /\ pool # "open"
      BY <1>6, <2>1 DEF Serve, Arrive, Query, QueryDone, Respond, Become, TypeInv
    <3>2. phase = "cleanup"
      BY <1>3, <3>1 DEF PoolInv, CutInv, EarlyInv
    <3>3. Open(r)
      BY <3>1 DEF Open
    <3>. QED BY <3>2, <3>3 DEF CallInv, RestInv, Request
  <2>. QED BY <1>2, <1>6, <2>1 DEF CutInv
<1>. QED BY <1>5, <1>10, <1>11, <1>12, <1>13, <1>14

(* The invariant of the process holds in every state.                      *)
LEMMA BootAlways == Spec => []BootInv
<1>1. BootInv /\ [Next]_vars => BootInv'
  <2>. SUFFICES ASSUME BootInv, [Next]_vars PROVE BootInv'
    OBVIOUS
  <2>1. CASE UNCHANGED vars
    BY <2>1 DEF vars, BootInv, TypeInv, EarlyInv, PoolInv, RestInv, CallInv, CutInv, Open
  <2>. QED BY <2>1, ProcessStep, RequestStep DEF Next
<1>. QED BY <1>1, BootInit, PTL DEF Spec

(* No rail callback or corrective call is cut short, whatever the moment   *)
(* of the signal: shutdown stops the gRPC server before Cleanup closes the *)
(* pool (serviceboot.go: shutdown).                                        *)
THEOREM CallsServed == Spec => []CallsServedToTheEnd
<1>1. BootInv => CallsServedToTheEnd
  BY BootAssumption DEF BootInv, CallInv, CutInv, CallsServedToTheEnd, CutShort, Request
<1>. QED BY <1>1, BootAlways, PTL

(* A REST request that is cut short had the whole deadline of the shutdown *)
(* (serviceboot.go: Shutdown under shutdownCtx).                           *)
THEOREM GraceGiven == Spec => []RequestsGetTheirGrace
<1>1. BootInv => RequestsGetTheirGrace
  BY DEF BootInv, RestInv, CutInv, RequestsGetTheirGrace, CutShort, Request
<1>. QED BY <1>1, BootAlways, PTL
=============================================================================

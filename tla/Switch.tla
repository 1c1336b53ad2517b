------------------------------- MODULE Switch -------------------------------
(***************************************************************************)
(* The transfer engine of switchd: the lifecycle row of a transfer, the    *)
(* transactional outbox, the outbox poller, the driver's handlers, the     *)
(* inline debit of a request, rail callbacks, the corrective endpoint and  *)
(* the recovery sweep (internal/switch).                                   *)
(*                                                                         *)
(* Between two database transactions or remote calls a handler holds only  *)
(* what it has read; each such stretch of code is one step here, so the    *)
(* model has every interleaving of pollers and request goroutines that the *)
(* row lock, the idempotency keys of the ledger and the outbox allow.      *)
(*                                                                         *)
(* The lease of a claimed event and the backoff of a failed one only delay *)
(* the next claim.  Here a live event can be claimed at any time: a worker *)
(* can always be slower than its lease.  Module Outbox has the clock.      *)
(***************************************************************************)
EXTENDS Naturals, Sequences, FiniteSets

CONSTANTS
    Transfer,       \* identities of the transfers clients may request
    Ref,            \* rail references
    Account,        \* account codes known to clients
    RefOf,          \* [Transfer -> Ref]      the request's reference
    SourceOf,       \* [Transfer -> Account]  the account to debit
    DestOf,         \* [Transfer -> Account]  the account to credit
    InitialLedgers, \* the sets of accounts the ledger may know at the start
    OpenableAccounts, \* accounts the ledger may open later
    Poller,         \* outbox pollers, one in every switchd instance
    Handler,        \* request goroutines (REST create, gRPC callback, corrective)
    MaxAttempts,    \* Config.MaxAttempts: deliveries before an event is parked
    MaxFaults,      \* bound: crashes, lost replies and transient failures
    MaxRows         \* bound: the corrective endpoint appends below this many rows

NoTransfer == "no transfer"
Proc == Poller \cup Handler

ASSUME SwitchAssumption ==
    /\ RefOf \in [Transfer -> Ref]
    /\ SourceOf \in [Transfer -> Account]
    /\ DestOf \in [Transfer -> Account]
    /\ InitialLedgers \subseteq SUBSET Account
    /\ OpenableAccounts \subseteq Account
    /\ Poller \cap Handler = {}
    /\ NoTransfer \notin Transfer
    /\ MaxAttempts \in Nat /\ MaxFaults \in Nat /\ MaxRows \in Nat

VARIABLES
    status,     \* transactions.status of the lifecycle row; "none": no row yet
    debitLeg,   \* metadata.debit_leg_tx_id is recorded in the lifecycle row
    latest,     \* the newest lifecycle row of a reference
    outbox,     \* the outbox table, in insertion order
    posted,     \* ledger: how often each leg of a transfer has been posted
    accounts,   \* ledger: the accounts that exist
    rail,       \* the rail's true outcome for a reference
    sent,       \* references the rail has processed, so it may call back
    act,        \* what each poller and request goroutine is doing
    faults      \* faults so far

rowVars    == <<status, debitLeg, latest>>
ledgerVars == <<posted, accounts>>
railVars   == <<rail, sent>>
vars == <<status, debitLeg, latest, outbox, posted, accounts, rail, sent, act, faults>>
-----------------------------------------------------------------------------
(* The coarse state machine of a lifecycle row.                            *)

Status == {"pending", "debited", "settled", "in_doubt", "reversal_pending",
           "reversed", "failed", "manual_review"}

statusTransitions ==
    [pending          |-> {"debited", "failed"},
     debited          |-> {"settled", "in_doubt", "reversal_pending"},
     in_doubt         |-> {"settled", "reversal_pending", "manual_review"},
     reversal_pending |-> {"reversed"}]

canTransitionStatus(from, to) ==
    from \in DOMAIN statusTransitions /\ to \in statusTransitions[from]

isTerminalStatus(s) == s \in Status \ DOMAIN statusTransitions

(* The outbox events.                                                      *)

Event == {"debit_requested", "debited", "in_doubt", "reversal"}
NoEvent == "no event"

(* Mutant: the switch statement forgets a status.                          *)
EventForgotten(s) ==
    CASE s = "pending"  -> "debit_requested"
      [] s = "debited"  -> "debited"
      [] s = "in_doubt" -> "in_doubt"
      [] OTHER          -> NoEvent

eventForStatus(s) ==
    CASE s = "pending"          -> "debit_requested"
      [] s = "debited"          -> "debited"
      [] s = "in_doubt"         -> "in_doubt"
      [] s = "reversal_pending" -> "reversal"
      [] OTHER                  -> NoEvent

Row == [t: Transfer, type: Event, attempts: Nat, published: BOOLEAN, dead: BOOLEAN]

NewRow(t, type) ==
    [t |-> t, type |-> type, attempts |-> 0, published |-> FALSE, dead |-> FALSE]

Live(row) == ~row.published /\ ~row.dead

Enqueue(t, type) == outbox' = Append(outbox, NewRow(t, type))

(* The three ledger legs of a transfer.  Each is posted under its own      *)
(* idempotency key, so posting one again changes nothing.                  *)

Leg == {"debit", "settle", "reversal"}

(* Mutant: the ledger does not deduplicate on the leg's key.               *)
PostLegTwice(t, leg) == posted' = [posted EXCEPT ![t][leg] = @ + 1]

PostLeg(t, leg) ==
    posted' = [posted EXCEPT ![t][leg] = IF posted[t][leg] = 0 THEN 1 ELSE posted[t][leg]]

(* What a poller or a request goroutine is doing: pc names the step it     *)
(* takes next, evt the handler it runs, row the outbox row it delivers     *)
(* (0 for a request goroutine), att that row's attempts when it was        *)
(* claimed, to the status it is about to write, todo what a recovery sweep *)
(* has still to re-enqueue.                                                *)

Step == {"idle", "down", "recover", "load", "postDebit", "send", "tsq", "postSettle",
         "postReversal", "mark", "requeue", "ack", "nack"}

Activity == [pc: Step, t: Transfer \cup {NoTransfer}, evt: Event \cup {NoEvent},
             row: Nat, att: Nat, to: Status \cup {"none"}, todo: SUBSET (Transfer \X Event)]

Idle == [pc |-> "idle", t |-> NoTransfer, evt |-> NoEvent,
         row |-> 0, att |-> 0, to |-> "none", todo |-> {}]

Goto(p, pc) == act' = [act EXCEPT ![p] = [act[p] EXCEPT !.pc = pc]]
GotoMark(p, to) == act' = [act EXCEPT ![p] = [act[p] EXCEPT !.pc = "mark", !.to = to]]
Finish(p) == act' = [act EXCEPT ![p] = Idle]

(* Mutant: a failed delivery is acknowledged like a successful one.        *)
ReturnAlwaysAcks(p, ok) ==
    IF act[p].row = 0
      THEN Finish(p)
      ELSE act' = [act EXCEPT ![p] = [act[p] EXCEPT !.pc = "ack", !.to = "none"]]

(* The handler returns nil (ok) or an error.  A poller then acknowledges   *)
(* or fails the event; a request goroutine answers its caller.             *)
Return(p, ok) ==
    IF act[p].row = 0
      THEN Finish(p)
      ELSE act' = [act EXCEPT ![p] =
                     [act[p] EXCEPT !.pc = IF ok THEN "ack" ELSE "nack", !.to = "none"]]

FaultBudget == faults < MaxFaults /\ faults' = faults + 1
NoFault == UNCHANGED faults

(* A remote call or a commit took effect; its reply arrives or is lost.    *)
Replied(p, continue) ==
    \/ continue /\ NoFault
    \/ Return(p, FALSE) /\ FaultBudget
-----------------------------------------------------------------------------
(* Requests.                                                               *)

InsertTransfer(t) ==
    /\ status' = [status EXCEPT ![t] = "pending"]
    /\ latest' = [latest EXCEPT ![RefOf[t]] = t]

(* The lifecycle row and its first event are inserted in one transaction.  *)
CreatePending(t) == InsertTransfer(t) /\ Enqueue(t, "debit_requested")

(* The newest lifecycle row of a reference.                                *)
GetTransferByReference(r) == latest[r]

(* POST /transfers: create the transfer, then drive its debit inline.      *)
Create(h, t) ==
    /\ act[h].pc = "idle"
    /\ status[t] = "none"
    /\ CreatePending(t)
    /\ act' = [act EXCEPT ![h] =
                 [Idle EXCEPT !.pc = "load", !.t = t, !.evt = "debit_requested"]]
    /\ UNCHANGED <<debitLeg, ledgerVars, railVars, faults>>

(* RailCallback: the row is found by reference, the newest one wins.       *)
RailCallback(h, r) ==
    /\ act[h].pc = "idle"
    /\ r \in sent
    /\ GetTransferByReference(r) # NoTransfer
    /\ LET t == GetTransferByReference(r)
           Do(pc, to) == act' = [act EXCEPT ![h] = [Idle EXCEPT !.pc = pc, !.t = t, !.to = to]]
       IN  \/ rail[r] = "success" /\ ~isTerminalStatus(status[t]) /\ Do("postSettle", "none")
           \/ rail[r] = "success" /\ isTerminalStatus(status[t]) /\ Do("mark", "settled")
           \/ rail[r] = "declined" /\ Do("mark", "reversal_pending")
    /\ UNCHANGED <<rowVars, outbox, ledgerVars, railVars, faults>>

(* CorrectiveReversal: read the row, and only if it awaits its reversal... *)
CorrectiveReversal(h, r) ==
    /\ act[h].pc = "idle"
    /\ GetTransferByReference(r) # NoTransfer
    /\ status[GetTransferByReference(r)] = "reversal_pending"
    /\ Len(outbox) < MaxRows
    /\ act' = [act EXCEPT ![h] = [Idle EXCEPT !.pc = "requeue", !.t = GetTransferByReference(r)]]
    /\ UNCHANGED <<rowVars, outbox, ledgerVars, railVars, faults>>

(* ... append its event again, in a transaction that does not re-read it.  *)
Requeue(h) ==
    /\ act[h].pc = "requeue"
    /\ Enqueue(act[h].t, "reversal")
    /\ Finish(h)
    /\ UNCHANGED <<rowVars, ledgerVars, railVars, faults>>
-----------------------------------------------------------------------------
(* The poller.                                                             *)

Claim(p, e) ==
    /\ act[p].pc = "idle"
    /\ Live(outbox[e])
    /\ act' = [act EXCEPT ![p] =
                 [Idle EXCEPT !.pc = "load", !.t = outbox[e].t, !.evt = outbox[e].type,
                              !.row = e, !.att = outbox[e].attempts]]
    /\ UNCHANGED <<rowVars, outbox, ledgerVars, railVars, faults>>

MarkPublished(p) ==
    /\ act[p].pc = "ack"
    /\ outbox' = [outbox EXCEPT ![act[p].row] = [@ EXCEPT !.published = TRUE]]
    /\ Finish(p)
    /\ UNCHANGED <<rowVars, ledgerVars, railVars, faults>>

(* Mutant: the cap is reached one delivery early.                          *)
AfterFailureEarly(row, att) ==
    [row EXCEPT !.attempts = row.attempts + 1,
                !.dead = IF att + 2 >= MaxAttempts THEN TRUE ELSE row.dead]

(* fail: the cap is compared with the attempts read when the row was       *)
(* claimed, while the column is incremented from its current value.        *)
AfterFailure(row, att) ==
    [row EXCEPT !.attempts = row.attempts + 1,
                !.dead = IF att + 1 >= MaxAttempts THEN TRUE ELSE row.dead]

Fail(p) ==
    /\ act[p].pc = "nack"
    /\ outbox' = [outbox EXCEPT ![act[p].row] = AfterFailure(@, act[p].att)]
    /\ Finish(p)
    /\ UNCHANGED <<rowVars, ledgerVars, railVars, faults>>
-----------------------------------------------------------------------------
(* The driver's handlers.  Every one first loads the row and gives up      *)
(* quietly when the row has moved on; a reversal without a recorded debit  *)
(* leg is an error.                                                        *)

FirstStep(evt) ==
    CASE evt = "debit_requested" -> "postDebit"
      [] evt = "debited"         -> "send"
      [] evt = "in_doubt"        -> "tsq"
      [] evt = "reversal"        -> "postReversal"

Load(p) ==
    /\ act[p].pc = "load"
    /\ LET t == act[p].t
           evt == act[p].evt
           current == eventForStatus(status[t]) = evt
       IN  IF current /\ (evt = "reversal" => debitLeg[t])
             THEN Goto(p, FirstStep(evt))
             ELSE Return(p, ~current)
    /\ UNCHANGED <<rowVars, outbox, ledgerVars, railVars, faults>>

(* Mutant: a lost reply of the ledger is taken for a rejection.            *)
PostDebitLegGivesUp(p) ==
    /\ act[p].pc = "postDebit"
    /\ LET t == act[p].t
       IN  \/ /\ SourceOf[t] \in accounts
              /\ PostLeg(t, "debit")
              /\ \/ GotoMark(p, "debited") /\ NoFault
                 \/ GotoMark(p, "failed") /\ FaultBudget
           \/ /\ SourceOf[t] \notin accounts
              /\ GotoMark(p, "failed")
              /\ UNCHANGED <<posted, faults>>
    /\ UNCHANGED <<rowVars, outbox, accounts, railVars>>

(* The debit leg.  An unknown source is a terminal rejection.              *)
PostDebitLeg(p) ==
    /\ act[p].pc = "postDebit"
    /\ LET t == act[p].t
       IN  \/ /\ SourceOf[t] \in accounts
              /\ PostLeg(t, "debit")
              /\ Replied(p, GotoMark(p, "debited"))
           \/ /\ SourceOf[t] \notin accounts
              /\ GotoMark(p, "failed")
              /\ UNCHANGED <<posted, faults>>
    /\ UNCHANGED <<rowVars, outbox, accounts, railVars>>

(* Where a definite rail verdict leads, and what it is.                    *)
OnVerdict(p, verdict) ==
    \/ verdict = "success" /\ Goto(p, "postSettle")
    \/ verdict = "declined" /\ GotoMark(p, "reversal_pending")

(* Mutant: a timeout is taken for a decline.                               *)
SendTimeoutReverses(p) ==
    /\ act[p].pc = "send"
    /\ LET r == RefOf[act[p].t]
       IN  \/ OnVerdict(p, rail[r]) /\ sent' = sent \cup {r} /\ NoFault
           \/ /\ GotoMark(p, "reversal_pending")
              /\ sent' \in {sent, sent \cup {r}} /\ NoFault
           \/ /\ Return(p, FALSE)
              /\ sent' \in {sent, sent \cup {r}} /\ FaultBudget
    /\ UNCHANGED <<rowVars, outbox, ledgerVars, rail>>

(* The rail answers with its decision on the reference, or not in time;    *)
(* then it may have processed the transfer all the same.                   *)
SendToRail(p, r) ==
    \/ OnVerdict(p, rail[r]) /\ sent' = sent \cup {r}
    \/ GotoMark(p, "in_doubt") /\ sent' \in {sent, sent \cup {r}}

(* Send: a timeout is the unknown verdict; a failure of the transport is   *)
(* an error, and the rail may have processed the transfer all the same.    *)
Send(p) ==
    /\ act[p].pc = "send"
    /\ LET r == RefOf[act[p].t]
       IN  \/ SendToRail(p, r) /\ NoFault
           \/ /\ Return(p, FALSE)
              /\ sent' \in {sent, sent \cup {r}} /\ FaultBudget
    /\ UNCHANGED <<rowVars, outbox, ledgerVars, rail>>

(* Mutant: inconclusive queries lead to a reversal.                        *)
QueryStatusReverses(p) ==
    /\ act[p].pc = "tsq"
    /\ \/ OnVerdict(p, rail[RefOf[act[p].t]])
       \/ GotoMark(p, "reversal_pending")
    /\ UNCHANGED <<rowVars, outbox, ledgerVars, railVars, faults>>

(* queryStatusWithRetry: the first definite answer wins; timeouts and      *)
(* transport errors are both inconclusive, and after the last attempt the  *)
(* transfer is held for an operator.                                       *)
QueryStatus(p) ==
    /\ act[p].pc = "tsq"
    /\ \/ OnVerdict(p, rail[RefOf[act[p].t]])
       \/ GotoMark(p, "manual_review")
    /\ UNCHANGED <<rowVars, outbox, ledgerVars, railVars, faults>>

(* The settlement leg.  An unknown destination is an error like any other. *)
PostSettlementLeg(p) ==
    /\ act[p].pc = "postSettle"
    /\ LET t == act[p].t
       IN  \/ /\ DestOf[t] \in accounts
              /\ PostLeg(t, "settle")
              /\ Replied(p, GotoMark(p, "settled"))
           \/ /\ DestOf[t] \notin accounts
              /\ Return(p, FALSE)
              /\ UNCHANGED <<posted, faults>>
    /\ UNCHANGED <<rowVars, outbox, accounts, railVars>>

PostReversal(p) ==
    /\ act[p].pc = "postReversal"
    /\ PostLeg(act[p].t, "reversal")
    /\ Replied(p, GotoMark(p, "reversed"))
    /\ UNCHANGED <<rowVars, outbox, accounts, railVars>>

SetTransferStatus(t, to) == status' = [status EXCEPT ![t] = to]

(* With the status debited the id of the debit leg is written.             *)
SetDebitLeg(t, to) == debitLeg' = [debitLeg EXCEPT ![t] = @ \/ to = "debited"]

(* Mutants of the next definition: the edge is not checked under the row   *)
(* lock; the follow-up event is not inserted.                              *)
AdvanceUnchecked(p) ==
    /\ act[p].pc = "mark"
    /\ SetTransferStatus(act[p].t, act[p].to) /\ SetDebitLeg(act[p].t, act[p].to)
    /\ IF eventForStatus(act[p].to) # NoEvent
         THEN Enqueue(act[p].t, eventForStatus(act[p].to))
         ELSE UNCHANGED outbox
    /\ Replied(p, Return(p, TRUE))
    /\ UNCHANGED <<latest, ledgerVars, railVars>>

AdvanceWithoutEvent(p) ==
    /\ act[p].pc = "mark"
    /\ LET t == act[p].t
           to == act[p].to
       IN  \/ /\ canTransitionStatus(status[t], to)
              /\ SetTransferStatus(t, to) /\ SetDebitLeg(t, to)
              /\ UNCHANGED outbox
           \/ /\ ~canTransitionStatus(status[t], to)
              /\ UNCHANGED <<status, debitLeg, outbox>>
    /\ Replied(p, Return(p, TRUE))
    /\ UNCHANGED <<latest, ledgerVars, railVars>>

(* advance and its callers markDebited ... markFailed: under the row lock, *)
(* write the status, the debit leg's id and the follow-up event in one     *)
(* transaction, or do nothing if the edge is no longer legal.              *)
Advance(p) ==
    /\ act[p].pc = "mark"
    /\ LET t == act[p].t
           to == act[p].to
       IN  \/ /\ canTransitionStatus(status[t], to)
              /\ SetTransferStatus(t, to) /\ SetDebitLeg(t, to)
              /\ IF eventForStatus(to) # NoEvent THEN Enqueue(t, eventForStatus(to))
                                                 ELSE UNCHANGED outbox
           \/ /\ ~canTransitionStatus(status[t], to)
              /\ UNCHANGED <<status, debitLeg, outbox>>
    /\ Replied(p, Return(p, TRUE))
    /\ UNCHANGED <<latest, ledgerVars, railVars>>
-----------------------------------------------------------------------------
(* Failures.                                                               *)

(* A database or ledger call fails without effect.  The handler returns    *)
(* the error; a failure to update the outbox row is only logged.           *)
Fault(p) ==
    /\ act[p].pc \notin {"idle", "down", "recover", "send", "tsq"}
    /\ FaultBudget
    /\ IF act[p].pc \in {"ack", "nack"} THEN Finish(p) ELSE Return(p, FALSE)
    /\ UNCHANGED <<rowVars, outbox, ledgerVars, railVars>>

(* A switchd instance dies: its poller is gone until the restart, a        *)
(* request goroutine simply vanishes.                                      *)
Crash(p) ==
    /\ act[p].pc # "down"
    /\ p \in Handler => act[p].pc # "idle"
    /\ FaultBudget
    /\ act' = [act EXCEPT ![p] = IF p \in Poller THEN [Idle EXCEPT !.pc = "down"] ELSE Idle]
    /\ UNCHANGED <<rowVars, outbox, ledgerVars, railVars>>

(* ListStuckTransfers: resumable, and no live event of any type.           *)
Stuck == {t \in Transfer : /\ status[t] \in DOMAIN statusTransitions
                           /\ ~\E e \in DOMAIN outbox : outbox[e].t = t /\ Live(outbox[e])}

(* Mutant: the process starts polling without the sweep.                   *)
RestartWithoutSweep(p) ==
    /\ act[p].pc = "down"
    /\ Finish(p)
    /\ UNCHANGED <<rowVars, outbox, ledgerVars, railVars, faults>>

(* Startup: list the stuck transfers (if the query fails, go on without)   *)
(* ...                                                                     *)
Restart(p) ==
    /\ act[p].pc = "down"
    /\ \/ /\ act' = [act EXCEPT ![p] = [Idle EXCEPT !.pc = "recover",
                       !.todo = {<<t, eventForStatus(status[t])>> : t \in Stuck}]]
          /\ NoFault
       \/ Finish(p) /\ FaultBudget
    /\ UNCHANGED <<rowVars, outbox, ledgerVars, railVars>>

(* ... re-enqueue them one by one, skipping one whose insert fails ...     *)
Recover(p) ==
    /\ act[p].pc = "recover"
    /\ \E x \in act[p].todo :
         /\ act' = [act EXCEPT ![p].todo = @ \ {x}]
         /\ \/ Enqueue(x[1], x[2]) /\ NoFault
            \/ UNCHANGED outbox /\ FaultBudget
    /\ UNCHANGED <<rowVars, ledgerVars, railVars>>

(* ... and start polling.                                                  *)
Recovered(p) ==
    /\ act[p].pc = "recover"
    /\ act[p].todo = {}
    /\ Finish(p)
    /\ UNCHANGED <<rowVars, outbox, ledgerVars, railVars, faults>>

(* The ledger opens an account (AccountService.CreateAccount).             *)
OpenAccount(a) ==
    /\ a \in OpenableAccounts \ accounts
    /\ accounts' = accounts \cup {a}
    /\ UNCHANGED <<rowVars, outbox, posted, railVars, act, faults>>
-----------------------------------------------------------------------------
Init ==
    /\ status = [t \in Transfer |-> "none"]
    /\ debitLeg = [t \in Transfer |-> FALSE]
    /\ latest = [r \in Ref |-> NoTransfer]
    /\ outbox = <<>>
    /\ posted = [t \in Transfer |-> [leg \in Leg |-> 0]]
    /\ accounts \in InitialLedgers
    /\ rail \in [Ref -> {"success", "declined"}]
    /\ sent = {}
    /\ act = [p \in Proc |-> Idle]
    /\ faults = 0

(* The steps of a running handler, in a poller or a request goroutine.     *)
Drive(p) ==
    \/ Load(p)
    \/ PostDebitLeg(p)
    \/ Send(p)
    \/ QueryStatus(p)
    \/ PostSettlementLeg(p)
    \/ PostReversal(p)
    \/ Advance(p)

Poll(p) ==
    \/ \E e \in DOMAIN outbox : Claim(p, e)
    \/ MarkPublished(p)
    \/ Fail(p)
    \/ Restart(p)
    \/ Recover(p)
    \/ Recovered(p)

Request(h) ==
    \/ \E t \in Transfer : Create(h, t)
    \/ \E r \in Ref : RailCallback(h, r) \/ CorrectiveReversal(h, r)
    \/ Requeue(h)

Next ==
    \/ \E p \in Proc : Drive(p) \/ Fault(p) \/ Crash(p)
    \/ \E p \in Poller : Poll(p)
    \/ \E h \in Handler : Request(h)
    \/ \E a \in Account : OpenAccount(a)

Spec == Init /\ [][Next]_vars

(* A running poller keeps polling and finishes the handler it runs: its    *)
(* loop ends only with the process, and a dead process is restarted.       *)
(* Nothing is assumed of clients, the rail, operators or failures.         *)
FairSpec ==
    /\ Spec
    /\ \A p \in Poller : WF_vars(Drive(p) \/ Poll(p))
-----------------------------------------------------------------------------
(* Preconditions of some of the properties below.                          *)

(* No two requests carry the same reference.                               *)
UniqueRefs == \A t, u \in Transfer : RefOf[t] = RefOf[u] => t = u

(* Whether a source account exists does not change while transfers run.    *)
FixedSources == \A t \in Transfer : SourceOf[t] \notin OpenableAccounts

(* Properties.                                                             *)

(* Every variable has its type: statuses, events and outbox rows are those *)
(* the tables allow, and every step writes a status that has its event     *)
(* (statemachine.go, recovery.go).                                         *)
TypeOK ==
    /\ status \in [Transfer -> Status \cup {"none"}]
    /\ debitLeg \in [Transfer -> BOOLEAN]
    /\ latest \in [Ref -> Transfer \cup {NoTransfer}]
    /\ outbox \in Seq(Row)
    /\ posted \in [Transfer -> [Leg -> Nat]]
    /\ accounts \in SUBSET Account
    /\ rail \in [Ref -> {"success", "declined"}]
    /\ sent \in SUBSET Ref
    /\ act \in [Proc -> Activity]
    /\ faults \in Nat

Legs(d, s, r) == [debit |-> d, settle |-> s, reversal |-> r]

(* A terminal status tells the truth about the money: SETTLED means one    *)
(* debit and one settlement leg, REVERSED one debit and one reversal,      *)
(* FAILED no leg at all, MANUAL_REVIEW a debit that was not given back,    *)
(* whatever deliveries, callbacks and crashes raced on the way             *)
(* (driver.go handlers, store.go advance).                                 *)
OutcomeMatchesLedger ==
    \A t \in Transfer :
        /\ status[t] = "settled" => posted[t] = Legs(1, 1, 0)
        /\ status[t] = "reversed" => posted[t] = Legs(1, 0, 1)
        /\ status[t] = "failed" => posted[t] = Legs(0, 0, 0)
        /\ status[t] = "manual_review" => posted[t] \in {Legs(1, 0, 0), Legs(1, 1, 0)}

(* Money leaves the suspense account at most once per transfer, and never  *)
(* before the debit has brought it there: the destination is not credited  *)
(* and the source refunded for one debit (driver.go:277, ledgerclient.go). *)
SuspenseNeverOverdrawn ==
    \A t \in Transfer :
        /\ posted[t]["settle"] + posted[t]["reversal"] <= posted[t]["debit"]
        /\ posted[t]["debit"] <= 1

(* The switch never reverses what the rail settled and never credits what  *)
(* the rail declined, though it decides from answers that may be lost,     *)
(* late or repeated (driver.go handleInDoubt, DESIGN-NOTES 1).             *)
FollowsRail ==
    \A t \in Transfer :
        /\ posted[t]["settle"] > 0 => rail[RefOf[t]] = "success"
        /\ posted[t]["reversal"] > 0 \/ status[t] = "reversal_pending"
             => rail[RefOf[t]] = "declined"

(* No event is lost: a transfer that is not terminal has an event of the   *)
(* type that drives it on, not yet published (it may be dead-lettered).    *)
(* The outbox row is inserted with the status it drives and acknowledged   *)
(* only after the status has moved on (store.go advance, poller.go tick).  *)
NoLostEvent ==
    \A t \in Transfer :
        status[t] \in DOMAIN statusTransitions =>
            \E e \in DOMAIN outbox :
                /\ outbox[e].t = t
                /\ outbox[e].type = eventForStatus(status[t])
                /\ ~outbox[e].published

(* handleReversal's error branch is dead code: every transfer that reaches *)
(* reversal_pending carries the id of a debit leg that was really posted,  *)
(* which becomes the reversal's parent.                                    *)
ReversalHasParent ==
    \A t \in Transfer :
        status[t] = "reversal_pending" => debitLeg[t] /\ posted[t]["debit"] = 1

(* Once a transfer is settled, reversed or failed its ledger legs never    *)
(* change again, even if a handler that loaded the row earlier is still    *)
(* about to post.                                                          *)
LedgerQuietAfterOutcome ==
    [][\A t \in Transfer :
         status[t] \in {"settled", "reversed", "failed"} => posted'[t] = posted[t]]_vars

(* Whatever fails, a transfer ends or one of its events is parked as a     *)
(* dead letter, where the metric of the dead-letter hook shows it          *)
(* (poller.go fail).                                                       *)
EndsOrParked ==
    \A t \in Transfer :
        status[t] # "none" ~> \/ isTerminalStatus(status[t])
                              \/ \E e \in DOMAIN outbox : outbox[e].t = t /\ outbox[e].dead

(* An event is parked only after MaxAttempts failures, although deliveries *)
(* compare the cap with attempts they read earlier: with fewer faults than *)
(* that no transfer whose destination was there from the start is parked,  *)
(* so by EndsOrParked every one ends (poller.go fail, outbox.sql           *)
(* DeadLetterOutbox).                                                      *)
ParkedOnlyByFaults ==
    \A e \in DOMAIN outbox :
        outbox[e].dead /\ DestOf[outbox[e].t] \in accounts \ OpenableAccounts
            => faults >= MaxAttempts

(* FAILED means the transfer was rejected before any money moved           *)
(* (transfer.go:44, store.go:273).  OutcomeMatchesLedger contains it; the  *)
(* run without UniqueRefs checks it alone.                                 *)
FailedMovedNoMoney ==
    \A t \in Transfer : status[t] = "failed" => posted[t] = Legs(0, 0, 0)

(* MANUAL_REVIEW holds the money: it stays in suspense, neither settled    *)
(* nor reversed (indoubt_integration_test.go:90; driver.go handleInDoubt). *)
(* The code does not guarantee this, see the README.                       *)
ReviewHoldsMoney ==
    \A t \in Transfer : status[t] = "manual_review" => posted[t] = Legs(1, 0, 0)

(* A restart after the last failure revives every transfer the recovery    *)
(* sweep lists whose destination exists: it ends (recovery.go Recover,     *)
(* transactions.sql ListStuckTransfers).                                   *)
RestartRevives ==
    \A t \in Transfer :
        (/\ faults = MaxFaults /\ t \in Stuck /\ DestOf[t] \in accounts
         /\ \E p \in Poller : act[p].pc = "down")
            ~> isTerminalStatus(status[t])
-----------------------------------------------------------------------------
(* The switch implements TransferSpec: money moves when a leg is posted,   *)
(* and the report is the status.                                           *)

MoneyOf(t) ==
    IF posted[t]["reversal"] > 0 THEN "refunded"
    ELSE IF posted[t]["settle"] > 0 THEN "destination"
    ELSE IF posted[t]["debit"] > 0 THEN "suspense"
    ELSE "source"

ReportOf(t) ==
    CASE status[t] = "none" -> "none"
      [] status[t] = "manual_review" -> "review"
      [] status[t] \in {"settled", "reversed", "failed"} -> status[t]
      [] OTHER -> "open"

Promise == INSTANCE TransferSpec WITH
    money   <- [t \in Transfer |-> MoneyOf(t)],
    report  <- [t \in Transfer |-> ReportOf(t)],
    verdict <- [t \in Transfer |-> rail[RefOf[t]]]

(* Every step of the switch is a step of TransferSpec or leaves what it    *)
(* talks about unchanged: however events are delivered, the money and the  *)
(* reports move exactly as promised (driver.go, store.go, ledgerclient.go).*)
KeepsPromise == Promise!Spec
=============================================================================

--------------------------- MODULE SwitchInvariant ---------------------------
(***************************************************************************)
(* Inductive invariants of Switch.  DeliveryInv carries NoLostEvent and    *)
(* needs no assumption; MoneyInv carries the properties about the ledger   *)
(* and holds when references are unique and sources fixed.                 *)
(***************************************************************************)
EXTENDS Switch

Handling == {"load", "postDebit", "send", "tsq", "postSettle", "postReversal",
             "mark", "ack", "nack"}

(* Whoever works, works on a transfer.                                     *)
BusyInv ==
    \A p \in Proc :
        /\ act[p].pc \in Handling \cup {"requeue"} => act[p].t \in Transfer
        /\ act[p].pc = "load" => act[p].evt \in Event
        /\ act[p].pc = "mark" => act[p].to \in Status

(* Every variable has its type, and a working process has what its step    *)
(* needs.                                                                  *)
TypeInv == TypeOK /\ BusyInv
-----------------------------------------------------------------------------
(* The statuses a row can have once an event of type evt exists for it,    *)
(* and once that event has been acknowledged.  Both are closed under       *)
(* statusTransitions: a row never comes back to a status it has left.      *)
Reached(evt) ==
    CASE evt = "debit_requested" -> Status
      [] evt = "debited"         -> Status \ {"pending", "failed"}
      [] evt = "in_doubt"        -> {"in_doubt", "settled", "reversal_pending", "reversed",
                                     "manual_review"}
      [] evt = "reversal"        -> {"reversal_pending", "reversed"}

StatusFor(evt) ==
    CASE evt = "debit_requested" -> "pending"
      [] evt = "debited"         -> "debited"
      [] evt = "in_doubt"        -> "in_doubt"
      [] evt = "reversal"        -> "reversal_pending"

Past(evt) == Reached(evt) \ {StatusFor(evt)}

(* An event exists only for a status that was reached, and is published    *)
(* only when that status has been left.                                    *)
RowOk(row, st) ==
    /\ st[row.t] \in Reached(row.type)
    /\ row.published => st[row.t] \in Past(row.type)

RowInv == \A e \in DOMAIN outbox : RowOk(outbox[e], status)

(* The status of a transfer in progress has its event.                     *)
Driven(t, st, ob) ==
    st[t] \in DOMAIN statusTransitions =>
        \E e \in DOMAIN ob : ob[e].t = t /\ ob[e].type = eventForStatus(st[t])

DrivenInv == \A t \in Transfer : Driven(t, status, outbox)

(* A handler that runs for an event does the steps of that event, writes   *)
(* only statuses that follow the event's own, and is done with it only     *)
(* when the transfer has left that status.                                 *)
ActOk(a, st, ob) ==
    /\ a.row # 0 => /\ a.row \in DOMAIN ob
                    /\ a.evt = ob[a.row].type /\ a.t = ob[a.row].t
                    /\ a.pc \in Handling /\ a.evt \in Event
    /\ a.pc \in {"ack", "nack"} => a.row # 0
    /\ a.evt # NoEvent => a.t \in Transfer /\ st[a.t] \in Reached(a.evt)
    /\ a.pc = "postDebit" => a.evt = "debit_requested"
    /\ a.pc = "send" => a.evt = "debited"
    /\ a.pc = "tsq" => a.evt = "in_doubt"
    /\ a.pc = "postReversal" => a.evt = "reversal"
    /\ a.pc = "postSettle" => a.evt \in {"debited", "in_doubt", NoEvent}
    /\ a.pc = "mark" => \/ a.evt # NoEvent /\ canTransitionStatus(StatusFor(a.evt), a.to)
                        \/ a.evt = NoEvent /\ a.to \in {"settled", "reversal_pending"}
    /\ a.pc = "ack" => st[a.t] \in Past(a.evt)
    /\ a.pc = "requeue" => st[a.t] \in Reached("reversal")
    /\ \A x \in a.todo : st[x[1]] \in Reached(x[2])

ActInv == \A p \in Proc : ActOk(act[p], status, outbox)

(* The newest row of a reference is a row with that reference.             *)
LatestInv ==
    \A r \in Ref : latest[r] # NoTransfer => RefOf[latest[r]] = r /\ status[latest[r]] # "none"

(* The inductive invariant of event delivery (store.go advance, poller.go  *)
(* tick): it implies NoLostEvent.                                          *)
DeliveryInv == TypeInv /\ RowInv /\ DrivenInv /\ ActInv /\ LatestInv
-----------------------------------------------------------------------------
(* What the ledger and the rail must look like for a given status.         *)
LegOk(t, st, dl, po, ac, ra, se) ==
    LET debited == po[t]["debit"] = 1
        settled == po[t]["settle"] = 1
        returned == po[t]["reversal"] = 1
    IN
    /\ \A leg \in Leg : po[t][leg] \in {0, 1}
    /\ debited => SourceOf[t] \in ac /\ st[t] # "none"
    /\ settled => debited /\ ra[RefOf[t]] = "success"
    /\ returned => /\ debited /\ ra[RefOf[t]] = "declined"
                   /\ st[t] \in Reached("reversal")
    /\ st[t] \in Reached("debited") => debited /\ dl[t]
    /\ st[t] = "failed" => SourceOf[t] \notin ac
    /\ st[t] = "settled" => settled
    /\ st[t] = "reversed" => returned
    /\ st[t] \in Reached("reversal") => ra[RefOf[t]] = "declined"
    /\ RefOf[t] \in se => st[t] \in Reached("debited")

LegInv == \A t \in Transfer : LegOk(t, status, debitLeg, posted, accounts, rail, sent)

(* What a handler has established before the step it takes next.           *)
WorkOk(a, st, po, ac, ra) ==
    /\ a.pc = "postSettle" => st[a.t] \in Reached("debited") /\ ra[RefOf[a.t]] = "success"
    /\ a.pc = "postReversal" => st[a.t] \in Reached("reversal")
    /\ a.pc = "mark" =>
        /\ a.to = "debited" => po[a.t]["debit"] = 1
        /\ a.to = "failed" => SourceOf[a.t] \notin ac
        /\ a.to = "settled" => po[a.t]["settle"] = 1 \/ isTerminalStatus(st[a.t])
        /\ a.to = "reversal_pending" => ra[RefOf[a.t]] = "declined"
        /\ a.to = "reversed" => po[a.t]["reversal"] = 1

WorkInv == \A p \in Proc : WorkOk(act[p], status, posted, accounts, rail)

(* The inductive invariant of the ledger properties (driver.go handlers):  *)
(* statuses, legs, verdicts and what the running handlers know all agree.  *)
MoneyInv == DeliveryInv /\ LegInv /\ WorkInv
-----------------------------------------------------------------------------
(* The destination of t is in the ledger and was from the start.           *)
Known(t) == DestOf[t] \in accounts \ OpenableAccounts

(* The deliveries of row e that failed and have still to record it.        *)
Failing(e) == {p \in Proc : act[p].pc = "nack" /\ act[p].row = e}

(* A row past its debit records the debit leg, so that a reversal always   *)
(* finds its parent.                                                       *)
ParentInv == \A t \in Transfer : status[t] \in Reached("debited") => debitLeg[t]

(* A delivery compares the cap with attempts that may be stale, but never  *)
(* too high.                                                               *)
StaleInv == \A p \in Proc : act[p].row # 0 => act[p].att <= outbox[act[p].row].attempts

(* Every failure, recorded or not, is a fault of its own.                  *)
CountInv ==
    \A e \in DOMAIN outbox :
        Known(outbox[e].t) =>
            /\ IsFiniteSet(Failing(e))
            /\ outbox[e].attempts + Cardinality(Failing(e)) <= faults
            /\ outbox[e].dead => faults >= MaxAttempts

(* The inductive invariant of the dead letters (poller.go fail): it        *)
(* implies ParkedOnlyByFaults.                                             *)
ParkInv == DeliveryInv /\ ParentInv /\ StaleInv /\ CountInv
=============================================================================

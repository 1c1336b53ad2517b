---------------------------- MODULE SwitchProofs ----------------------------
(***************************************************************************)
(* Proofs about Switch, for any number of transfers, references, pollers   *)
(* and request goroutines and any bounds: types, event delivery, parked    *)
(* events, and the refinement of EventQueue.                               *)
(***************************************************************************)
EXTENDS SwitchInvariant, FiniteSetTheorems, TLAPS

(* Appending a row keeps every earlier row.                                *)
LEMMA AppendRow ==
    ASSUME NEW q \in Seq(Row), NEW row \in Row
    PROVE  /\ Append(q, row) \in Seq(Row)
           /\ DOMAIN Append(q, row) = DOMAIN q \cup {Len(q) + 1}
           /\ \A e \in DOMAIN q : Append(q, row)[e] = q[e]
           /\ Append(q, row)[Len(q) + 1] = row
  OBVIOUS

(* Appending an event keeps the outbox's type.                             *)
LEMMA EnqueueType ==
    ASSUME TypeOK, NEW t \in Transfer, NEW type \in Event, Enqueue(t, type)
    PROVE  outbox' \in Seq(Row)
  <1>1. NewRow(t, type) \in Row
    BY DEF NewRow, Row
  <1> QED
    BY <1>1, AppendRow DEF Enqueue, TypeOK

(* Posting a leg keeps the ledger's type.                                  *)
LEMMA PostLegType ==
    ASSUME TypeOK, NEW t \in Transfer, NEW leg \in Leg, PostLeg(t, leg)
    PROVE  posted' \in [Transfer -> [Leg -> Nat]]
  BY DEF TypeOK, PostLeg

(* The resumable statuses are exactly those with an event (recovery.go     *)
(* eventForStatus).                                                        *)
LEMMA EventOfStatus ==
    /\ \A s : eventForStatus(s) # NoEvent => eventForStatus(s) \in Event
    /\ \A s \in DOMAIN statusTransitions : eventForStatus(s) \in Event
    /\ \A s : eventForStatus(s) # NoEvent => s \in DOMAIN statusTransitions
  BY DEF eventForStatus, Event, NoEvent, statusTransitions

(* A failed delivery changes the delivery columns of a row only.           *)
LEMMA AfterFailureRow ==
    ASSUME NEW row \in Row, NEW att \in Nat
    PROVE  /\ AfterFailure(row, att) \in Row
           /\ AfterFailure(row, att).t = row.t /\ AfterFailure(row, att).type = row.type
           /\ AfterFailure(row, att).published = row.published
  <1>1. ASSUME NEW n \in Nat, NEW d \in BOOLEAN
        PROVE  LET r == [row EXCEPT !.attempts = n, !.dead = d]
               IN  r \in Row /\ r.t = row.t /\ r.type = row.type /\ r.published = row.published
    BY DEF Row
  <1>2. row.attempts + 1 \in Nat /\ row.dead \in BOOLEAN
    BY DEF Row
  <1>3. (IF att + 1 >= MaxAttempts THEN TRUE ELSE row.dead) \in BOOLEAN
    BY <1>2
  <1> QED
    BY <1>1, <1>2, <1>3, Zenon DEF AfterFailure

(* Rewriting the delivery columns of a row keeps the outbox's type.        *)
LEMMA RewriteType ==
    ASSUME TypeOK, NEW e, NEW att \in Nat
    PROVE  /\ [outbox EXCEPT ![e] = [@ EXCEPT !.published = TRUE]] \in Seq(Row)
           /\ [outbox EXCEPT ![e] = AfterFailure(@, att)] \in Seq(Row)
  <1>1. \A row \in Row : /\ [row EXCEPT !.published = TRUE] \in Row
                         /\ AfterFailure(row, att) \in Row
    BY AfterFailureRow DEF Row
  <1>2. outbox \in [1..Len(outbox) -> Row] /\ Len(outbox) \in Nat
    BY DEF TypeOK
  <1>3. /\ [outbox EXCEPT ![e] = [@ EXCEPT !.published = TRUE]] \in [1..Len(outbox) -> Row]
        /\ [outbox EXCEPT ![e] = AfterFailure(@, att)] \in [1..Len(outbox) -> Row]
    BY <1>1, <1>2
  <1> QED
    BY <1>2, <1>3

(* Type correctness is preserved by every step.                            *)
LEMMA TypeStep == TypeInv /\ [Next]_vars => TypeInv'
  <1> SUFFICES ASSUME TypeInv, [Next]_vars PROVE TypeInv'
    OBVIOUS
  <1> USE SwitchAssumption
  <1>0. TypeOK /\ BusyInv
    BY DEF TypeInv
  <1>a. ASSUME NEW p \in Proc, NEW a \in Activity, act' = [act EXCEPT ![p] = a],
               a.pc \in Handling \cup {"requeue"} => a.t \in Transfer,
               a.pc = "load" => a.evt \in Event,
               a.pc = "mark" => a.to \in Status
        PROVE  act' \in [Proc -> Activity] /\ BusyInv'
    BY <1>0, <1>a DEF TypeOK, BusyInv
  <1>b. \A p \in Proc : Finish(p) => act' \in [Proc -> Activity] /\ BusyInv'
    <2>1. Idle \in Activity
      BY DEF Idle, Activity, Step
    <2> QED
      BY <1>a, <2>1 DEF Finish, Idle, Handling
  <1>c. ASSUME NEW p \in Proc, NEW ok \in BOOLEAN, Return(p, ok), act[p].pc \in Handling \cup {"requeue"}
        PROVE  act' \in [Proc -> Activity] /\ BusyInv'
    <2>1. CASE act[p].row = 0
      BY <1>b, <1>c, <2>1 DEF Return
    <2>2. CASE act[p].row # 0
      <3> DEFINE a == [act[p] EXCEPT !.pc = IF ok THEN "ack" ELSE "nack", !.to = "none"]
      <3>1. act[p] \in Activity /\ act[p].t \in Transfer
        BY <1>0, <1>c DEF TypeOK, BusyInv
      <3>2. a \in Activity /\ a.pc \in {"ack", "nack"} /\ a.t \in Transfer
        BY <3>1 DEF Activity, Step
      <3>3. act' = [act EXCEPT ![p] = a]
        BY <1>c, <2>2 DEF Return
      <3> QED
        BY <1>a, <3>2, <3>3
    <2> QED
      BY <2>1, <2>2
  <1>d. ASSUME NEW p \in Proc, NEW pc \in Step \ {"load", "mark"}, Goto(p, pc), act[p].pc \in Handling
        PROVE  act' \in [Proc -> Activity] /\ BusyInv'
    <2> DEFINE a == [act[p] EXCEPT !.pc = pc]
    <2>1. act[p] \in Activity /\ act[p].t \in Transfer
      BY <1>0, <1>d DEF TypeOK, BusyInv
    <2>2. a \in Activity /\ a.pc = pc /\ a.t \in Transfer
      BY <2>1 DEF Activity
    <2> QED
      BY <1>a, <1>d, <2>2 DEF Goto
  <1>e. ASSUME NEW p \in Proc, NEW to \in Status, GotoMark(p, to), act[p].pc \in Handling
        PROVE  act' \in [Proc -> Activity] /\ BusyInv'
    <2> DEFINE a == [act[p] EXCEPT !.pc = "mark", !.to = to]
    <2>1. act[p] \in Activity /\ act[p].t \in Transfer
      BY <1>0, <1>e DEF TypeOK, BusyInv
    <2>2. a \in Activity /\ a.pc = "mark" /\ a.t \in Transfer /\ a.to = to
      BY <2>1 DEF Activity, Step
    <2> QED
      BY <1>a, <1>e, <2>2 DEF GotoMark
  <1>1. ASSUME NEW h \in Handler, NEW t \in Transfer, Create(h, t) PROVE TypeInv'
    <2>1. outbox' \in Seq(Row)
      BY <1>0, <1>1, EnqueueType DEF Create, CreatePending, Event, InsertTransfer
    <2> DEFINE a == [Idle EXCEPT !.pc = "load", !.t = t, !.evt = "debit_requested"]
    <2>2. a \in Activity /\ a.pc = "load" /\ a.t = t /\ a.evt \in Event
      BY DEF Idle, Activity, Step, Event
    <2>3. act' \in [Proc -> Activity] /\ BusyInv'
      BY <1>a, <1>1, <2>2 DEF Create, CreatePending, Proc, InsertTransfer
    <2> QED
      BY <1>0, <1>1, <2>1, <2>3 DEF Create, CreatePending, TypeInv, TypeOK, Status, ledgerVars, railVars, InsertTransfer
  <1>2. ASSUME NEW h \in Handler, NEW r \in Ref, RailCallback(h, r) PROVE TypeInv'
    <2>1. latest[r] \in Transfer
      BY <1>0, <1>2 DEF RailCallback, TypeOK, GetTransferByReference
    <2> DEFINE a == [Idle EXCEPT !.pc = "postSettle", !.t = latest[r], !.to = "none"]
               b == [Idle EXCEPT !.pc = "mark", !.t = latest[r], !.to = "settled"]
               c == [Idle EXCEPT !.pc = "mark", !.t = latest[r], !.to = "reversal_pending"]
    <2>2. a \in Activity /\ a.pc = "postSettle" /\ a.t \in Transfer
      BY <2>1 DEF Idle, Activity, Step
    <2>3. b \in Activity /\ b.pc = "mark" /\ b.t \in Transfer /\ b.to \in Status
      BY <2>1 DEF Idle, Activity, Step, Status
    <2>4. c \in Activity /\ c.pc = "mark" /\ c.t \in Transfer /\ c.to \in Status
      BY <2>1 DEF Idle, Activity, Step, Status
    <2>5. \/ act' = [act EXCEPT ![h] = a]
          \/ act' = [act EXCEPT ![h] = b]
          \/ act' = [act EXCEPT ![h] = c]
      BY <1>2 DEF RailCallback, GetTransferByReference
    <2> HIDE DEF a, b, c
    <2>6. act' \in [Proc -> Activity] /\ BusyInv'
      BY <1>a, <2>2, <2>3, <2>4, <2>5 DEF Proc
    <2> QED
      BY <1>0, <1>2, <2>6 DEF RailCallback, TypeInv, TypeOK, rowVars, ledgerVars, railVars, GetTransferByReference
  <1>3. ASSUME NEW h \in Handler, NEW r \in Ref, CorrectiveReversal(h, r) PROVE TypeInv'
    <2>1. latest[r] \in Transfer
      BY <1>0, <1>3 DEF CorrectiveReversal, TypeOK, GetTransferByReference
    <2> DEFINE a == [Idle EXCEPT !.pc = "requeue", !.t = latest[r]]
    <2>2. a \in Activity /\ a.pc = "requeue" /\ a.t \in Transfer
      BY <2>1 DEF Idle, Activity, Step
    <2>3. act' \in [Proc -> Activity] /\ BusyInv'
      BY <1>a, <1>3, <2>2 DEF CorrectiveReversal, Proc, GetTransferByReference
    <2> QED
      BY <1>0, <1>3, <2>3 DEF CorrectiveReversal, TypeInv, TypeOK, rowVars, ledgerVars, railVars, GetTransferByReference
  <1>4. ASSUME NEW h \in Handler, Requeue(h) PROVE TypeInv'
    <2>1. act[h].t \in Transfer
      BY <1>0, <1>4 DEF Requeue, BusyInv, Proc
    <2>2. outbox' \in Seq(Row)
      BY <1>0, <1>4, <2>1, EnqueueType DEF Requeue, Event
    <2> QED
      BY <1>0, <1>b, <1>4, <2>2 DEF Requeue, TypeInv, TypeOK, Proc, rowVars, ledgerVars, railVars
  <1>5. ASSUME NEW p \in Poller, NEW e \in DOMAIN outbox, Claim(p, e) PROVE TypeInv'
    <2>1. outbox[e] \in Row
      BY <1>0 DEF TypeOK
    <2>2. e \in Nat
      BY <1>0 DEF TypeOK
    <2> DEFINE a == [Idle EXCEPT !.pc = "load", !.t = outbox[e].t, !.evt = outbox[e].type,
                                 !.row = e, !.att = outbox[e].attempts]
    <2>3. a \in Activity /\ a.pc = "load" /\ a.t \in Transfer /\ a.evt \in Event
      BY <2>1, <2>2 DEF Idle, Activity, Step, Row
    <2>4. act' \in [Proc -> Activity] /\ BusyInv'
      BY <1>a, <1>5, <2>3 DEF Claim, Proc
    <2> QED
      BY <1>0, <1>5, <2>4 DEF Claim, TypeInv, TypeOK, rowVars, ledgerVars, railVars
  <1>6. ASSUME NEW p \in Poller, MarkPublished(p) PROVE TypeInv'
    <2>1. outbox' \in Seq(Row)
      BY <1>0, <1>6, RewriteType DEF MarkPublished
    <2> QED
      BY <1>0, <1>b, <1>6, <2>1 DEF MarkPublished, TypeInv, TypeOK, Proc, rowVars, ledgerVars, railVars
  <1>7. ASSUME NEW p \in Poller, Fail(p) PROVE TypeInv'
    <2>1. outbox' \in Seq(Row)
      <3>1. act[p].att \in Nat
        BY <1>0 DEF TypeOK, Activity, Proc
      <3> QED
        BY <1>0, <1>7, <3>1, RewriteType DEF Fail
    <2> QED
      BY <1>0, <1>b, <1>7, <2>1 DEF Fail, TypeInv, TypeOK, Proc, rowVars, ledgerVars, railVars
  <1>8. ASSUME NEW p \in Proc, Load(p) PROVE TypeInv'
    <2>1. act[p].evt \in Event /\ act[p].pc \in Handling
      BY <1>0, <1>8 DEF Load, BusyInv, Handling
    <2>2. FirstStep(act[p].evt) \in Step \ {"load", "mark"}
      BY <2>1 DEF FirstStep, Event, Step
    <2>3. \/ Goto(p, FirstStep(act[p].evt))
          \/ Return(p, TRUE)
          \/ Return(p, FALSE)
      BY <1>8 DEF Load
    <2>4. act' \in [Proc -> Activity] /\ BusyInv'
      BY <1>c, <1>d, <2>1, <2>2, <2>3
    <2> QED
      BY <1>0, <1>8, <2>4 DEF Load, TypeInv, TypeOK, rowVars, ledgerVars, railVars
  <1>9. ASSUME NEW p \in Proc, PostDebitLeg(p) PROVE TypeInv'
    <2>1. act[p].t \in Transfer /\ act[p].pc \in Handling
      BY <1>0, <1>9 DEF PostDebitLeg, BusyInv, Handling
    <2>2. posted' \in [Transfer -> [Leg -> Nat]]
      BY <1>0, <1>9, <2>1, PostLegType DEF PostDebitLeg, TypeOK, Leg
    <2>3. GotoMark(p, "debited") \/ GotoMark(p, "failed") \/ Return(p, FALSE)
      BY <1>9 DEF PostDebitLeg, Replied
    <2>4. act' \in [Proc -> Activity] /\ BusyInv'
      BY <1>c, <1>e, <2>1, <2>3 DEF Status
    <2>5. faults' \in Nat
      <3>1. UNCHANGED faults \/ FaultBudget
        BY <1>9 DEF PostDebitLeg, Replied, NoFault
      <3> QED
        BY <1>0, <3>1 DEF FaultBudget, TypeOK
    <2> QED
      BY <1>0, <1>9, <2>2, <2>4, <2>5 DEF PostDebitLeg, TypeInv, TypeOK, rowVars, railVars
  <1>10. ASSUME NEW p \in Proc, Send(p) PROVE TypeInv'
    <2>1. act[p].t \in Transfer /\ act[p].pc \in Handling
      BY <1>0, <1>10 DEF Send, BusyInv, Handling, SendToRail
    <2>2. \/ Goto(p, "postSettle")
          \/ GotoMark(p, "reversal_pending") \/ GotoMark(p, "in_doubt")
          \/ Return(p, FALSE)
      BY <1>10 DEF Send, OnVerdict, SendToRail
    <2>3. act' \in [Proc -> Activity] /\ BusyInv'
      BY <1>c, <1>d, <1>e, <2>1, <2>2 DEF Status, Step
    <2>4. RefOf[act[p].t] \in Ref
      BY <2>1
    <2>5. faults' \in Nat /\ sent' \in SUBSET Ref
      <3>1. UNCHANGED faults \/ FaultBudget
        BY <1>10 DEF Send, NoFault, SendToRail
      <3>2. sent' \in {sent, sent \cup {RefOf[act[p].t]}}
        BY <1>10 DEF Send, SendToRail
      <3> QED
        BY <1>0, <2>4, <3>1, <3>2 DEF FaultBudget, TypeOK
    <2> QED
      BY <1>0, <1>10, <2>3, <2>5 DEF Send, TypeInv, TypeOK, rowVars, ledgerVars, SendToRail
  <1>11. ASSUME NEW p \in Proc, QueryStatus(p) PROVE TypeInv'
    <2>1. act[p].pc \in Handling
      BY <1>11 DEF QueryStatus, Handling
    <2>2. \/ Goto(p, "postSettle")
          \/ GotoMark(p, "reversal_pending") \/ GotoMark(p, "manual_review")
      BY <1>11 DEF QueryStatus, OnVerdict
    <2>3. act' \in [Proc -> Activity] /\ BusyInv'
      BY <1>d, <1>e, <2>1, <2>2 DEF Status, Step
    <2> QED
      BY <1>0, <1>11, <2>3 DEF QueryStatus, TypeInv, TypeOK, rowVars, ledgerVars, railVars
  <1>12. ASSUME NEW p \in Proc, PostSettlementLeg(p) PROVE TypeInv'
    <2>1. act[p].t \in Transfer /\ act[p].pc \in Handling
      BY <1>0, <1>12 DEF PostSettlementLeg, BusyInv, Handling
    <2>2. posted' \in [Transfer -> [Leg -> Nat]]
      BY <1>0, <1>12, <2>1, PostLegType DEF PostSettlementLeg, TypeOK, Leg
    <2>3. GotoMark(p, "settled") \/ Return(p, FALSE)
      BY <1>12 DEF PostSettlementLeg, Replied
    <2>4. act' \in [Proc -> Activity] /\ BusyInv'
      BY <1>c, <1>e, <2>1, <2>3 DEF Status
    <2>5. faults' \in Nat
      <3>1. UNCHANGED faults \/ FaultBudget
        BY <1>12 DEF PostSettlementLeg, Replied, NoFault
      <3> QED
        BY <1>0, <3>1 DEF FaultBudget, TypeOK
    <2> QED
      BY <1>0, <1>12, <2>2, <2>4, <2>5 DEF PostSettlementLeg, TypeInv, TypeOK, rowVars, railVars
  <1>13. ASSUME NEW p \in Proc, PostReversal(p) PROVE TypeInv'
    <2>1. act[p].t \in Transfer /\ act[p].pc \in Handling
      BY <1>0, <1>13 DEF PostReversal, BusyInv, Handling
    <2>2. posted' \in [Transfer -> [Leg -> Nat]]
      BY <1>0, <1>13, <2>1, PostLegType DEF PostReversal, TypeOK, Leg
    <2>3. GotoMark(p, "reversed") \/ Return(p, FALSE)
      BY <1>13 DEF PostReversal, Replied
    <2>4. act' \in [Proc -> Activity] /\ BusyInv'
      BY <1>c, <1>e, <2>1, <2>3 DEF Status
    <2>5. faults' \in Nat
      <3>1. UNCHANGED faults \/ FaultBudget
        BY <1>13 DEF PostReversal, Replied, NoFault
      <3> QED
        BY <1>0, <3>1 DEF FaultBudget, TypeOK
    <2> QED
      BY <1>0, <1>13, <2>2, <2>4, <2>5 DEF PostReversal, TypeInv, TypeOK, rowVars, railVars
  <1>14. ASSUME NEW p \in Proc, Advance(p) PROVE TypeInv'
    <2>1. act[p].t \in Transfer /\ act[p].pc \in Handling /\ act[p].to \in Status
      BY <1>0, <1>14 DEF Advance, BusyInv, Handling, SetTransferStatus, SetDebitLeg
    <2>2. outbox' \in Seq(Row)
      <3>1. CASE UNCHANGED outbox
        BY <1>0, <3>1 DEF TypeOK
      <3>2. CASE eventForStatus(act[p].to) # NoEvent /\ Enqueue(act[p].t, eventForStatus(act[p].to))
        BY <1>0, <2>1, <3>2, EventOfStatus, EnqueueType
      <3> QED
        BY <1>14, <3>1, <3>2 DEF Advance, SetTransferStatus, SetDebitLeg
    <2>3. Return(p, TRUE) \/ Return(p, FALSE)
      BY <1>14 DEF Advance, Replied, SetTransferStatus, SetDebitLeg
    <2>4. act' \in [Proc -> Activity] /\ BusyInv'
      BY <1>c, <2>1, <2>3
    <2>5. faults' \in Nat
      <3>1. UNCHANGED faults \/ FaultBudget
        BY <1>14 DEF Advance, Replied, NoFault, SetTransferStatus, SetDebitLeg
      <3> QED
        BY <1>0, <3>1 DEF FaultBudget, TypeOK
    <2>6. status' \in [Transfer -> Status \cup {"none"}] /\ debitLeg' \in [Transfer -> BOOLEAN]
      BY <1>0, <1>14, <2>1 DEF Advance, TypeOK, SetTransferStatus, SetDebitLeg
    <2> QED
      BY <1>0, <1>14, <2>2, <2>4, <2>5, <2>6 DEF Advance, TypeInv, TypeOK, ledgerVars, railVars, SetTransferStatus, SetDebitLeg
  <1>15. ASSUME NEW p \in Proc, Fault(p) PROVE TypeInv'
    <2>1. act[p].pc \in Handling \cup {"requeue"}
      BY <1>0, <1>15 DEF Fault, TypeOK, Activity, Step, Handling
    <2>2. act' \in [Proc -> Activity] /\ BusyInv'
      BY <1>b, <1>c, <1>15, <2>1 DEF Fault
    <2> QED
      BY <1>0, <1>15, <2>2 DEF Fault, FaultBudget, TypeInv, TypeOK, rowVars, ledgerVars, railVars
  <1>16. ASSUME NEW p \in Proc, Crash(p) PROVE TypeInv'
    <2>1. Idle \in Activity /\ [Idle EXCEPT !.pc = "down"] \in Activity
      BY DEF Idle, Activity, Step
    <2>2. Idle.pc = "idle" /\ [Idle EXCEPT !.pc = "down"].pc = "down"
      BY DEF Idle
    <2>3. act' \in [Proc -> Activity] /\ BusyInv'
      BY <1>a, <1>16, <2>1, <2>2 DEF Crash, Handling
    <2> QED
      BY <1>0, <1>16, <2>3 DEF Crash, FaultBudget, TypeInv, TypeOK, rowVars, ledgerVars, railVars
  <1>17. ASSUME NEW p \in Poller, Restart(p) PROVE TypeInv'
    <2> DEFINE todo == {<<t, eventForStatus(status[t])>> : t \in Stuck}
               a == [Idle EXCEPT !.pc = "recover", !.todo = todo]
    <2>1. todo \in SUBSET (Transfer \X Event)
      BY EventOfStatus DEF Stuck
    <2>2. a \in Activity /\ a.pc = "recover"
      BY <2>1 DEF Idle, Activity, Step
    <2>3. act' \in [Proc -> Activity] /\ BusyInv'
      BY <1>a, <1>b, <1>17, <2>2 DEF Restart, Handling, Proc
    <2> QED
      BY <1>0, <1>17, <2>3
      DEF Restart, FaultBudget, NoFault, TypeInv, TypeOK, rowVars, ledgerVars, railVars
  <1>18. ASSUME NEW p \in Poller, Recover(p) PROVE TypeInv'
    <2>1. PICK x \in act[p].todo :
             /\ act' = [act EXCEPT ![p].todo = @ \ {x}]
             /\ \/ Enqueue(x[1], x[2]) /\ NoFault
                \/ UNCHANGED outbox /\ FaultBudget
      BY <1>18 DEF Recover
    <2>2. act[p] \in Activity /\ p \in Proc
      BY <1>0 DEF TypeOK, Proc
    <2>3. x[1] \in Transfer /\ x[2] \in Event
      BY <2>1, <2>2 DEF Activity
    <2>4. outbox' \in Seq(Row)
      BY <1>0, <2>1, <2>3, EnqueueType DEF TypeOK
    <2> DEFINE a == [act[p] EXCEPT !.todo = act[p].todo \ {x}]
    <2>5. a \in Activity /\ a.pc = "recover"
      BY <1>18, <2>2 DEF Activity, Recover
    <2>6. act' = [act EXCEPT ![p] = a]
      BY <2>1
    <2>7. act' \in [Proc -> Activity] /\ BusyInv'
      BY <1>a, <2>2, <2>5, <2>6 DEF Handling
    <2> QED
      BY <1>0, <1>18, <2>1, <2>4, <2>7
      DEF Recover, FaultBudget, NoFault, TypeInv, TypeOK, rowVars, ledgerVars, railVars
  <1>19. ASSUME NEW p \in Poller, Recovered(p) PROVE TypeInv'
    BY <1>0, <1>b, <1>19 DEF Recovered, TypeInv, TypeOK, Proc, rowVars, ledgerVars, railVars
  <1>20. ASSUME NEW a \in Account, OpenAccount(a) PROVE TypeInv'
    BY <1>0, <1>20 DEF OpenAccount, TypeInv, TypeOK, BusyInv, rowVars, railVars
  <1>21. CASE UNCHANGED vars
    BY <1>0, <1>21 DEF vars, TypeInv, TypeOK, BusyInv
  <1> QED
    BY <1>1, <1>2, <1>3, <1>4, <1>5, <1>6, <1>7, <1>8, <1>9, <1>10, <1>11, <1>12, <1>13,
       <1>14, <1>15, <1>16, <1>17, <1>18, <1>19, <1>20, <1>21
    DEF Next, Drive, Poll, Request

(* Switch is type correct, and whoever works, works on a transfer.         *)
THEOREM TypeCorrect == Spec => []TypeInv
  <1>1. Init => TypeInv
    BY SwitchAssumption
    DEF Init, TypeInv, TypeOK, BusyInv, Idle, Activity, Step, Handling, Leg
  <1> QED
    BY <1>1, TypeStep, PTL DEF Spec

(* The type invariant of the runs, for every value of the constants        *)
(* (statemachine.go, outbox.go).                                           *)
THEOREM TypeSafe == Spec => []TypeOK
  <1>1. TypeInv => TypeOK
    BY DEF TypeInv
  <1> QED
    BY <1>1, TypeCorrect, PTL
-----------------------------------------------------------------------------
(* Delivery: no event is lost.                                             *)

(* The transition table, edge by edge.                                     *)
LEMMA Edges ==
    /\ DOMAIN statusTransitions = {"pending", "debited", "in_doubt", "reversal_pending"}
    /\ \A s, to : canTransitionStatus(s, to) <=>
            \/ s = "pending" /\ to \in {"debited", "failed"}
            \/ s = "debited" /\ to \in {"settled", "in_doubt", "reversal_pending"}
            \/ s = "in_doubt" /\ to \in {"settled", "reversal_pending", "manual_review"}
            \/ s = "reversal_pending" /\ to = "reversed"
  <1>1. DOMAIN statusTransitions = {"pending", "debited", "in_doubt", "reversal_pending"}
    BY DEF statusTransitions
  <1>2. /\ statusTransitions["pending"] = {"debited", "failed"}
        /\ statusTransitions["debited"] = {"settled", "in_doubt", "reversal_pending"}
        /\ statusTransitions["in_doubt"] = {"settled", "reversal_pending", "manual_review"}
        /\ statusTransitions["reversal_pending"] = {"reversed"}
    BY DEF statusTransitions
  <1> QED
    BY <1>1, <1>2 DEF canTransitionStatus

(* Reached and Past are closed under the transition table, and leaving the *)
(* status of an event is being past it.                                    *)
LEMMA StatusFacts ==
    ASSUME NEW evt \in Event
    PROVE  /\ Past(evt) \subseteq Reached(evt) /\ Reached(evt) \subseteq Status
           /\ \A s \in Reached(evt) : s # StatusFor(evt) => s \in Past(evt)
           /\ \A s, to : s \in Reached(evt) /\ canTransitionStatus(s, to) => to \in Reached(evt)
           /\ \A s, to : s \in Past(evt) /\ canTransitionStatus(s, to) => to \in Past(evt)
           /\ \A to : canTransitionStatus(StatusFor(evt), to) => to \in Past(evt)
           /\ \A s : eventForStatus(s) = evt <=> s = StatusFor(evt)
           /\ StatusFor(evt) \in Reached(evt)
           /\ evt # NoEvent
  <1>1. /\ Past(evt) \subseteq Reached(evt) /\ Reached(evt) \subseteq Status
        /\ \A s \in Reached(evt) : s # StatusFor(evt) => s \in Past(evt)
        /\ StatusFor(evt) \in Reached(evt)
        /\ evt # NoEvent
    BY DEF Event, Past, Reached, StatusFor, Status, NoEvent
  <1>2. \A s, to : s \in Reached(evt) /\ canTransitionStatus(s, to) => to \in Reached(evt)
    BY Edges DEF Event, Reached, Status
  <1>3. \A s, to : s \in Past(evt) /\ canTransitionStatus(s, to) => to \in Past(evt)
    BY Edges DEF Event, Past, Reached, StatusFor, Status
  <1>4. \A to : canTransitionStatus(StatusFor(evt), to) => to \in Past(evt)
    BY Edges DEF Event, Past, Reached, StatusFor, Status
  <1>5. \A s : eventForStatus(s) = evt <=> s = StatusFor(evt)
    BY DEF Event, StatusFor, eventForStatus, NoEvent
  <1> QED
    BY <1>1, <1>2, <1>3, <1>4, <1>5
(* How a step may change the statuses and the outbox: rows move along the  *)
(* transition table, events keep their transfer and type.                  *)
Moved(st, st2) ==
    \A t \in Transfer : \/ st2[t] = st[t]
                        \/ canTransitionStatus(st[t], st2[t])
                        \/ st[t] = "none" /\ st2[t] \in Status

Grown(ob, ob2) ==
    \A e \in DOMAIN ob : /\ e \in DOMAIN ob2
                         /\ ob2[e].t = ob[e].t
                         /\ ob2[e].type = ob[e].type

(* What was reached stays reached, what was left stays left.               *)
LEMMA Monotone ==
    ASSUME NEW st, NEW st2, Moved(st, st2), NEW t \in Transfer, NEW evt \in Event
    PROVE  /\ st[t] \in Reached(evt) => st2[t] \in Reached(evt)
           /\ st[t] \in Past(evt) => st2[t] \in Past(evt)
  <1>1. "none" \notin Status
    BY DEF Status
  <1> QED
    BY <1>1, StatusFacts DEF Moved

(* Progress of others does not invalidate what a handler relies on.        *)
LEMMA ActFrame ==
    ASSUME NEW a \in Activity, NEW st, NEW st2, NEW ob, NEW ob2,
           Moved(st, st2), Grown(ob, ob2), ActOk(a, st, ob),
           a.pc \in Handling \cup {"requeue"} => a.t \in Transfer
    PROVE  ActOk(a, st2, ob2)
  <1>1. a.evt \in Event \cup {NoEvent} /\ a.todo \subseteq Transfer \X Event
    BY DEF Activity
  <1>2. a.row # 0 => /\ a.row \in DOMAIN ob2
                     /\ a.evt = ob2[a.row].type /\ a.t = ob2[a.row].t
                     /\ a.pc \in Handling /\ a.evt \in Event
    BY DEF ActOk, Grown
  <1>3. a.evt # NoEvent => a.t \in Transfer /\ st2[a.t] \in Reached(a.evt)
    BY <1>1, Monotone DEF ActOk
  <1>4. a.pc = "ack" => a.evt \in Event /\ st2[a.t] \in Past(a.evt)
    <2>1. SUFFICES ASSUME a.pc = "ack" PROVE a.evt \in Event /\ st2[a.t] \in Past(a.evt)
      OBVIOUS
    <2>2. a.evt \in Event /\ st[a.t] \in Past(a.evt) /\ a.t \in Transfer
      BY <1>1, <2>1 DEF ActOk, Handling
    <2> QED
      BY <2>2, Monotone
  <1>5. a.pc = "requeue" => st2[a.t] \in Reached("reversal")
    BY Monotone DEF ActOk, Event
  <1>6. \A x \in a.todo : st2[x[1]] \in Reached(x[2])
    <2> SUFFICES ASSUME NEW x \in a.todo PROVE st2[x[1]] \in Reached(x[2])
      OBVIOUS
    <2>1. x[1] \in Transfer /\ x[2] \in Event /\ st[x[1]] \in Reached(x[2])
      BY <1>1 DEF ActOk
    <2> QED
      BY <2>1, Monotone
  <1> QED
    BY <1>2, <1>3, <1>4, <1>5, <1>6 DEF ActOk

(* The parts of DeliveryInv that a step of p can disturb.                  *)
LEMMA DeliveryFrame ==
    ASSUME DeliveryInv, TypeInv', NEW p \in Proc, NEW a,
           act' = [act EXCEPT ![p] = a], ActOk(a, status', outbox'),
           Moved(status, status'), Grown(outbox, outbox'),
           \A e \in DOMAIN outbox' :
              \/ e \in DOMAIN outbox /\ outbox'[e].published = outbox[e].published
              \/ RowOk(outbox'[e], status'),
           \A t \in Transfer : status'[t] = status[t] \/ Driven(t, status', outbox'),
           \A r \in Ref : \/ latest'[r] = latest[r]
                          \/ RefOf[latest'[r]] = r /\ status'[latest'[r]] # "none"
    PROVE  DeliveryInv'
  <1>0. TypeOK /\ BusyInv /\ RowInv /\ DrivenInv /\ ActInv /\ LatestInv
    BY DEF DeliveryInv, TypeInv
  <1>1. RowInv'
    <2> SUFFICES ASSUME NEW e \in DOMAIN outbox', e \in DOMAIN outbox,
                        outbox'[e].published = outbox[e].published
                 PROVE  RowOk(outbox'[e], status')
      BY DEF RowInv
    <2>1. outbox[e] \in Row
      BY <1>0 DEF TypeOK
    <2>2. outbox[e].t \in Transfer /\ outbox[e].type \in Event
      BY <2>1 DEF Row
    <2> QED
      BY <1>0, <2>2, Monotone DEF RowInv, RowOk, Grown
  <1>2. DrivenInv'
    BY <1>0 DEF DrivenInv, Driven, Grown
  <1>3. ActInv'
    <2> SUFFICES ASSUME NEW q \in Proc PROVE ActOk(act'[q], status', outbox')
      BY DEF ActInv
    <2>1. act \in [Proc -> Activity]
      BY <1>0 DEF TypeOK
    <2>2. CASE q = p
      BY <2>1, <2>2
    <2>3. CASE q # p
      <3>1. act'[q] = act[q] /\ act[q] \in Activity
        BY <2>1, <2>3
      <3>2. ActOk(act[q], status, outbox)
        BY <1>0 DEF ActInv
      <3>3. act[q].pc \in Handling \cup {"requeue"} => act[q].t \in Transfer
        BY <1>0 DEF BusyInv
      <3> QED
        BY <3>1, <3>2, <3>3, ActFrame
    <2> QED
      BY <2>2, <2>3
  <1>4. LatestInv'
    <2>1. \A r \in Ref : latest[r] \in Transfer \cup {NoTransfer}
      BY <1>0 DEF TypeOK
    <2>2. \A t \in Transfer : status[t] # "none" => status'[t] # "none"
      BY Edges DEF Moved
    <2> QED
      BY <1>0, <2>1, <2>2 DEF LatestInv
  <1> QED
    BY <1>1, <1>2, <1>3, <1>4 DEF DeliveryInv

(* A step that touches neither rows nor outbox only has to account for     *)
(* what p does next.                                                       *)
LEMMA QuietStep ==
    ASSUME DeliveryInv, TypeInv', UNCHANGED <<rowVars, outbox>>, NEW p \in Proc, NEW a,
           act' = [act EXCEPT ![p] = a], ActOk(a, status, outbox)
    PROVE  DeliveryInv'
  <1>1. status' = status /\ outbox' = outbox /\ latest' = latest
    BY DEF rowVars
  <1>2. Moved(status, status') /\ Grown(outbox, outbox')
    BY <1>1 DEF Moved, Grown
  <1> QED
    BY <1>1, <1>2, DeliveryFrame
(* p goes on with an activity that ActOk accepts in st and ob.             *)
Continues(p, st, ob) ==
    \E a \in Activity : act' = [act EXCEPT ![p] = a] /\ ActOk(a, st, ob)

(* An idle process, or one that is down, satisfies the activity invariant. *)
LEMMA IdleOk ==
    ASSUME NEW st, NEW ob
    PROVE  /\ Idle \in Activity /\ ActOk(Idle, st, ob)
           /\ [Idle EXCEPT !.pc = "down"] \in Activity
           /\ ActOk([Idle EXCEPT !.pc = "down"], st, ob)
  <1>1. Idle \in Activity /\ ActOk(Idle, st, ob)
    BY DEF Idle, Activity, Step, ActOk, NoEvent
  <1>2. /\ [Idle EXCEPT !.pc = "down"] \in Activity
        /\ ActOk([Idle EXCEPT !.pc = "down"], st, ob)
    BY DEF Idle, Activity, Step, ActOk, NoEvent
  <1> QED
    BY <1>1, <1>2

(* Finish leaves an activity that the invariant accepts.                   *)
LEMMA FinishContinues ==
    ASSUME NEW p \in Proc, NEW st, NEW ob, Finish(p)
    PROVE  Continues(p, st, ob)
  BY IdleOk DEF Continues, Finish

(* A handler may return an error at any time, and nil once the transfer    *)
(* has left the status of its event.                                       *)
LEMMA ReturnContinues ==
    ASSUME NEW p \in Proc, NEW st, NEW ob, NEW ok \in BOOLEAN, Return(p, ok),
           act[p] \in Activity, ActOk(act[p], st, ob),
           ok /\ act[p].row # 0 => st[act[p].t] \in Past(act[p].evt)
    PROVE  Continues(p, st, ob)
  <1>1. CASE act[p].row = 0
    BY <1>1, FinishContinues DEF Return
  <1>2. CASE act[p].row # 0
    <2> DEFINE pc == IF ok THEN "ack" ELSE "nack"
               a == [act[p] EXCEPT !.pc = pc, !.to = "none"]
    <2>1. pc \in {"ack", "nack"} /\ (pc = "ack" => ok)
      OBVIOUS
    <2> HIDE DEF pc
    <2>2. /\ a \in Activity /\ a.pc = pc /\ a.t = act[p].t /\ a.evt = act[p].evt
          /\ a.row = act[p].row /\ a.todo = act[p].todo
      BY <2>1 DEF Activity, Step
    <2>3. act' = [act EXCEPT ![p] = a]
      BY <1>2 DEF Return, pc
    <2> HIDE DEF a
    <2>4. ActOk(a, st, ob)
      BY <1>2, <2>1, <2>2 DEF ActOk, Handling
    <2> QED
      BY <2>2, <2>3, <2>4 DEF Continues
  <1> QED
    BY <1>1, <1>2

(* A handler goes on to another step of its event.                         *)
LEMMA GotoContinues ==
    ASSUME NEW p \in Proc, NEW st, NEW ob, NEW pc, Goto(p, pc),
           act[p] \in Activity, ActOk(act[p], st, ob),
           \/ pc = "postDebit" /\ act[p].evt = "debit_requested"
           \/ pc = "send" /\ act[p].evt = "debited"
           \/ pc = "tsq" /\ act[p].evt = "in_doubt"
           \/ pc = "postReversal" /\ act[p].evt = "reversal"
           \/ pc = "postSettle" /\ act[p].evt \in {"debited", "in_doubt"}
    PROVE  Continues(p, st, ob)
  <1> DEFINE a == [act[p] EXCEPT !.pc = pc]
  <1>1. /\ a \in Activity /\ a.pc = pc /\ a.t = act[p].t /\ a.evt = act[p].evt
        /\ a.row = act[p].row /\ a.todo = act[p].todo
    BY DEF Activity, Step
  <1>2. act' = [act EXCEPT ![p] = a]
    BY DEF Goto
  <1> HIDE DEF a
  <1>3. ActOk(a, st, ob)
    BY <1>1 DEF ActOk, Handling
  <1> QED
    BY <1>1, <1>2, <1>3 DEF Continues

(* A handler goes on to write a status that follows its event's.           *)
LEMMA MarkContinues ==
    ASSUME NEW p \in Proc, NEW st, NEW ob, NEW to \in Status, GotoMark(p, to),
           act[p] \in Activity, ActOk(act[p], st, ob),
           \/ act[p].evt # NoEvent /\ canTransitionStatus(StatusFor(act[p].evt), to)
           \/ act[p].evt = NoEvent /\ to \in {"settled", "reversal_pending"}
    PROVE  Continues(p, st, ob)
  <1> DEFINE a == [act[p] EXCEPT !.pc = "mark", !.to = to]
  <1>1. /\ a \in Activity /\ a.pc = "mark" /\ a.t = act[p].t /\ a.evt = act[p].evt
        /\ a.row = act[p].row /\ a.todo = act[p].todo /\ a.to = to
    BY DEF Activity, Step
  <1>2. act' = [act EXCEPT ![p] = a]
    BY DEF GotoMark
  <1> HIDE DEF a
  <1>3. ActOk(a, st, ob)
    BY <1>1 DEF ActOk, Handling
  <1> QED
    BY <1>1, <1>2, <1>3 DEF Continues

(* Appending an event keeps every row that is there and adds a live one at *)
(* the end (outbox.Append).                                                *)
LEMMA EnqueueFrame ==
    ASSUME TypeOK, NEW t \in Transfer, NEW type \in Event, Enqueue(t, type)
    PROVE  /\ Grown(outbox, outbox')
           /\ DOMAIN outbox' = DOMAIN outbox \cup {Len(outbox) + 1}
           /\ \A e \in DOMAIN outbox : outbox'[e] = outbox[e]
           /\ LET row == outbox'[Len(outbox) + 1]
              IN  row.t = t /\ row.type = type /\ row.published = FALSE
  <1> DEFINE row == NewRow(t, type)
  <1>1. row \in Row /\ row.t = t /\ row.type = type /\ row.published = FALSE
    BY DEF NewRow, Row
  <1>2. outbox' = Append(outbox, row) /\ outbox \in Seq(Row)
    BY DEF Enqueue, TypeOK
  <1> HIDE DEF row
  <1>3. /\ DOMAIN outbox' = DOMAIN outbox \cup {Len(outbox) + 1}
        /\ \A e \in DOMAIN outbox : outbox'[e] = outbox[e]
        /\ outbox'[Len(outbox) + 1] = row
    BY <1>1, <1>2, AppendRow
  <1> QED
    BY <1>1, <1>3 DEF Grown

(* A step that appends an event of a status the transfer has reached.      *)
LEMMA EnqueueStep ==
    ASSUME DeliveryInv, TypeInv', NEW t \in Transfer, NEW type \in Event, Enqueue(t, type),
           NEW p \in Proc, Continues(p, status', outbox'),
           Moved(status, status'), status'[t] \in Reached(type),
           \A u \in Transfer : status'[u] = status[u] \/ (u = t /\ eventForStatus(status'[u]) = type),
           \A r \in Ref : \/ latest'[r] = latest[r]
                          \/ RefOf[latest'[r]] = r /\ status'[latest'[r]] # "none"
    PROVE  DeliveryInv'
  <1>1. TypeOK
    BY DEF DeliveryInv, TypeInv
  <1> DEFINE n == Len(outbox) + 1
  <1>2. /\ Grown(outbox, outbox')
        /\ DOMAIN outbox' = DOMAIN outbox \cup {n}
        /\ \A e \in DOMAIN outbox : outbox'[e] = outbox[e]
        /\ outbox'[n].t = t /\ outbox'[n].type = type /\ outbox'[n].published = FALSE
    BY <1>1, EnqueueFrame
  <1> HIDE DEF n
  <1>3. RowOk(outbox'[n], status')
    BY <1>2 DEF RowOk
  <1>4. \A e \in DOMAIN outbox' :
           \/ e \in DOMAIN outbox /\ outbox'[e].published = outbox[e].published
           \/ RowOk(outbox'[e], status')
    BY <1>2, <1>3
  <1>5. \A u \in Transfer : status'[u] = status[u] \/ Driven(u, status', outbox')
    BY <1>2 DEF Driven
  <1>6. PICK a \in Activity : act' = [act EXCEPT ![p] = a] /\ ActOk(a, status', outbox')
    BY DEF Continues
  <1> QED
    BY <1>2, <1>4, <1>5, <1>6, DeliveryFrame

(* A step that changes neither rows nor outbox.                            *)
LEMMA ContinueStep ==
    ASSUME DeliveryInv, TypeInv', UNCHANGED <<rowVars, outbox>>, NEW p \in Proc,
           Continues(p, status, outbox)
    PROVE  DeliveryInv'
  <1>1. PICK a \in Activity : act' = [act EXCEPT ![p] = a] /\ ActOk(a, status, outbox)
    BY DEF Continues
  <1> QED
    BY <1>1, QuietStep

(* Every step preserves DeliveryInv.                                       *)
LEMMA DeliveryStep == DeliveryInv /\ [Next]_vars => DeliveryInv'
  <1> SUFFICES ASSUME DeliveryInv, [Next]_vars PROVE DeliveryInv'
    OBVIOUS
  <1> USE SwitchAssumption
  <1>0. /\ TypeOK /\ BusyInv /\ RowInv /\ DrivenInv /\ ActInv /\ LatestInv
        /\ TypeInv'
    BY TypeStep DEF DeliveryInv, TypeInv
  <1>a. \A p \in Proc : act[p] \in Activity /\ ActOk(act[p], status, outbox)
    BY <1>0 DEF TypeOK, ActInv
  <1>b. \A p \in Proc : /\ act[p].evt \in Event \cup {NoEvent}
                        /\ act[p].to \in Status \cup {"none"}
                        /\ act[p].todo \subseteq Transfer \X Event
    BY <1>a DEF Activity
  <1>c. NoEvent \notin Event
    BY DEF NoEvent, Event
  <1>d. Poller \subseteq Proc /\ Handler \subseteq Proc
    BY DEF Proc
  <1>e. ASSUME NEW t \in Transfer, NEW to, canTransitionStatus(status[t], to),
               status' = [status EXCEPT ![t] = to]
        PROVE  Moved(status, status')
    BY <1>0, <1>e DEF TypeOK, Moved
  <1>f. status' = status => Moved(status, status')
    BY DEF Moved
  <1>1. ASSUME NEW h \in Handler, NEW t \in Transfer, Create(h, t) PROVE DeliveryInv'
    <2>1. /\ status[t] = "none" /\ status' = [status EXCEPT ![t] = "pending"]
          /\ status'[t] = "pending" /\ Enqueue(t, "debit_requested")
          /\ latest' = [latest EXCEPT ![RefOf[t]] = t]
      BY <1>0, <1>1 DEF Create, CreatePending, TypeOK, InsertTransfer
    <2>2. Moved(status, status') /\ "pending" \in Reached("debit_requested")
      BY <1>0, <2>1 DEF Moved, TypeOK, Status, Reached
    <2>3. \A u \in Transfer : status'[u] = status[u] \/ (u = t /\ eventForStatus(status'[u]) = "debit_requested")
      BY <1>0, <2>1 DEF TypeOK, eventForStatus
    <2>4. \A r \in Ref : \/ latest'[r] = latest[r]
                         \/ RefOf[latest'[r]] = r /\ status'[latest'[r]] # "none"
      BY <1>0, <2>1 DEF TypeOK
    <2> DEFINE a == [Idle EXCEPT !.pc = "load", !.t = t, !.evt = "debit_requested"]
    <2>5. a \in Activity /\ ActOk(a, status', outbox')
      BY <2>1, <2>2 DEF Idle, Activity, Step, Event, ActOk
    <2>6. Continues(h, status', outbox')
      BY <1>1, <2>5 DEF Create, CreatePending, Continues, InsertTransfer
    <2>7. /\ "debit_requested" \in Event /\ status'[t] \in Reached("debit_requested")
          /\ Enqueue(t, "debit_requested") /\ h \in Proc
      BY <1>d, <2>1, <2>2 DEF Event
    <2> QED
      BY <1>0, <2>2, <2>3, <2>4, <2>6, <2>7, EnqueueStep
  <1>2. ASSUME NEW h \in Handler, NEW r \in Ref, RailCallback(h, r) PROVE DeliveryInv'
    <2>1. latest[r] \in Transfer
      BY <1>0, <1>2 DEF RailCallback, TypeOK, GetTransferByReference
    <2> DEFINE a == [Idle EXCEPT !.pc = "postSettle", !.t = latest[r], !.to = "none"]
               b == [Idle EXCEPT !.pc = "mark", !.t = latest[r], !.to = "settled"]
               c == [Idle EXCEPT !.pc = "mark", !.t = latest[r], !.to = "reversal_pending"]
    <2>2. a \in Activity /\ ActOk(a, status, outbox)
      BY <2>1 DEF Idle, Activity, Step, ActOk, NoEvent
    <2>3. b \in Activity /\ ActOk(b, status, outbox)
      BY <2>1 DEF Idle, Activity, Step, Status, ActOk, NoEvent
    <2>4. c \in Activity /\ ActOk(c, status, outbox)
      BY <2>1 DEF Idle, Activity, Step, Status, ActOk, NoEvent
    <2>5. /\ \/ act' = [act EXCEPT ![h] = a]
             \/ act' = [act EXCEPT ![h] = b]
             \/ act' = [act EXCEPT ![h] = c]
          /\ UNCHANGED <<rowVars, outbox>>
      BY <1>2 DEF RailCallback, GetTransferByReference
    <2> HIDE DEF a, b, c
    <2>6. Continues(h, status, outbox)
      BY <2>2, <2>3, <2>4, <2>5 DEF Continues
    <2> QED
      BY <1>0, <1>d, <2>5, <2>6, ContinueStep
  <1>3. ASSUME NEW h \in Handler, NEW r \in Ref, CorrectiveReversal(h, r) PROVE DeliveryInv'
    <2>1. latest[r] \in Transfer /\ status[latest[r]] \in Reached("reversal")
      BY <1>0, <1>3 DEF CorrectiveReversal, TypeOK, Reached, GetTransferByReference
    <2> DEFINE a == [Idle EXCEPT !.pc = "requeue", !.t = latest[r]]
    <2>2. a \in Activity /\ ActOk(a, status, outbox)
      BY <2>1 DEF Idle, Activity, Step, ActOk, NoEvent
    <2>3. Continues(h, status, outbox) /\ UNCHANGED <<rowVars, outbox>>
      BY <1>3, <2>2 DEF CorrectiveReversal, Continues, GetTransferByReference
    <2> QED
      BY <1>0, <1>d, <2>3, ContinueStep
  <1>4. ASSUME NEW h \in Handler, Requeue(h) PROVE DeliveryInv'
    <2>1. act[h].t \in Transfer /\ status[act[h].t] \in Reached("reversal")
      BY <1>0, <1>a, <1>d, <1>4 DEF Requeue, BusyInv, ActOk
    <2>2. Enqueue(act[h].t, "reversal") /\ Finish(h) /\ status' = status /\ latest' = latest
      BY <1>4 DEF Requeue, rowVars
    <2>3. Continues(h, status', outbox')
      BY <1>d, <2>2, FinishContinues
    <2> QED
      BY <1>0, <1>d, <1>f, <2>1, <2>2, <2>3, EnqueueStep DEF Event
  <1>5. ASSUME NEW p \in Poller, NEW e \in DOMAIN outbox, Claim(p, e) PROVE DeliveryInv'
    <2>1. /\ outbox[e].t \in Transfer /\ outbox[e].type \in Event /\ outbox[e].attempts \in Nat
          /\ e \in Nat /\ status[outbox[e].t] \in Reached(outbox[e].type)
      <3>1. outbox[e] \in Row /\ e \in Nat
        BY <1>0 DEF TypeOK
      <3>2. RowOk(outbox[e], status)
        BY <1>0 DEF RowInv
      <3> QED
        BY <3>1, <3>2 DEF Row, RowOk
    <2> DEFINE a == [Idle EXCEPT !.pc = "load", !.t = outbox[e].t, !.evt = outbox[e].type,
                                 !.row = e, !.att = outbox[e].attempts]
    <2>2. a \in Activity /\ ActOk(a, status, outbox)
      BY <2>1 DEF Idle, Activity, Step, ActOk, Handling
    <2>3. Continues(p, status, outbox) /\ UNCHANGED <<rowVars, outbox>>
      BY <1>5, <2>2 DEF Claim, Continues
    <2> QED
      BY <1>0, <1>d, <2>3, ContinueStep
  <1>g. ASSUME NEW p \in Proc, NEW row \in Row, act[p].row # 0,
               outbox' = [outbox EXCEPT ![act[p].row] = row],
               row.t = outbox[act[p].row].t, row.type = outbox[act[p].row].type,
               row.published => outbox[act[p].row].published \/ status[row.t] \in Past(row.type),
               UNCHANGED rowVars, Finish(p)
        PROVE  DeliveryInv'
    <2>1. act[p].row \in DOMAIN outbox /\ outbox \in Seq(Row)
      BY <1>0, <1>a, <1>g DEF ActOk, TypeOK
    <2>2. /\ DOMAIN outbox' = DOMAIN outbox
          /\ \A e \in DOMAIN outbox : outbox'[e] = IF e = act[p].row THEN row ELSE outbox[e]
      BY <1>g, <2>1
    <2>3. status' = status /\ latest' = latest
      BY <1>g DEF rowVars
    <2>4. RowOk(outbox[act[p].row], status)
      BY <1>0, <2>1 DEF RowInv
    <2>5. RowOk(row, status')
      BY <1>g, <2>3, <2>4 DEF RowOk
    <2>6. Grown(outbox, outbox') /\ Moved(status, status')
      BY <1>f, <1>g, <2>2, <2>3 DEF Grown
    <2>7. \A e \in DOMAIN outbox' :
             \/ e \in DOMAIN outbox /\ outbox'[e].published = outbox[e].published
             \/ RowOk(outbox'[e], status')
      BY <2>2, <2>5
    <2>8. PICK a \in Activity : act' = [act EXCEPT ![p] = a] /\ ActOk(a, status', outbox')
      BY <1>g, FinishContinues DEF Continues
    <2> QED
      BY <1>0, <2>3, <2>6, <2>7, <2>8, DeliveryFrame
  <1>6. ASSUME NEW p \in Poller, MarkPublished(p) PROVE DeliveryInv'
    <2>1. /\ act[p].row # 0 /\ act[p].row \in DOMAIN outbox
          /\ status[act[p].t] \in Past(act[p].evt)
          /\ act[p].evt = outbox[act[p].row].type /\ act[p].t = outbox[act[p].row].t
      BY <1>a, <1>d, <1>6 DEF MarkPublished, ActOk
    <2> DEFINE row == [outbox[act[p].row] EXCEPT !.published = TRUE]
    <2>2. outbox[act[p].row] \in Row
      BY <1>0, <2>1 DEF TypeOK
    <2>3. /\ row \in Row /\ row.t = outbox[act[p].row].t /\ row.type = outbox[act[p].row].type
      BY <2>2 DEF Row
    <2>4. outbox' = [outbox EXCEPT ![act[p].row] = row] /\ UNCHANGED rowVars /\ Finish(p)
      BY <1>6 DEF MarkPublished
    <2> HIDE DEF row
    <2> QED
      BY <1>d, <1>g, <2>1, <2>3, <2>4
  <1>7. ASSUME NEW p \in Poller, Fail(p) PROVE DeliveryInv'
    <2>1. act[p].row # 0 /\ act[p].row \in DOMAIN outbox
      BY <1>a, <1>d, <1>7 DEF Fail, ActOk
    <2> DEFINE row == AfterFailure(outbox[act[p].row], act[p].att)
    <2>2. outbox[act[p].row] \in Row /\ act[p].att \in Nat
      BY <1>0, <1>d, <2>1 DEF TypeOK, Activity
    <2>3. /\ row \in Row /\ row.t = outbox[act[p].row].t /\ row.type = outbox[act[p].row].type
          /\ row.published = outbox[act[p].row].published
      BY <2>2, AfterFailureRow
    <2>4. outbox' = [outbox EXCEPT ![act[p].row] = row] /\ UNCHANGED rowVars /\ Finish(p)
      BY <1>7 DEF Fail
    <2> HIDE DEF row
    <2> QED
      BY <1>d, <1>g, <2>1, <2>3, <2>4
  <1>8. ASSUME NEW p \in Proc, Load(p) PROVE DeliveryInv'
    <2>1. act[p].evt \in Event /\ status[act[p].t] \in Reached(act[p].evt)
      BY <1>0, <1>a, <1>c, <1>8 DEF Load, BusyInv, ActOk
    <2>2. \/ Goto(p, FirstStep(act[p].evt))
          \/ Return(p, TRUE) /\ eventForStatus(status[act[p].t]) # act[p].evt
          \/ Return(p, FALSE)
      BY <1>8 DEF Load
    <2>3. CASE Goto(p, FirstStep(act[p].evt))
      <3>1. \/ FirstStep(act[p].evt) = "postDebit" /\ act[p].evt = "debit_requested"
            \/ FirstStep(act[p].evt) = "send" /\ act[p].evt = "debited"
            \/ FirstStep(act[p].evt) = "tsq" /\ act[p].evt = "in_doubt"
            \/ FirstStep(act[p].evt) = "postReversal" /\ act[p].evt = "reversal"
        BY <2>1 DEF FirstStep, Event
      <3>2. Continues(p, status, outbox)
        BY <1>a, <2>3, <3>1, GotoContinues
      <3> QED
        BY <1>0, <1>8, <3>2, ContinueStep DEF Load
    <2>4. CASE Return(p, TRUE) /\ eventForStatus(status[act[p].t]) # act[p].evt
      <3>1. status[act[p].t] \in Past(act[p].evt)
        BY <2>1, <2>4, StatusFacts
      <3>2. Continues(p, status, outbox)
        BY <1>a, <2>4, <3>1, ReturnContinues
      <3> QED
        BY <1>0, <1>8, <3>2, ContinueStep DEF Load
    <2>5. CASE Return(p, FALSE)
      <3>2. Continues(p, status, outbox)
        BY <1>a, <2>5, ReturnContinues
      <3> QED
        BY <1>0, <1>8, <3>2, ContinueStep DEF Load
    <2> QED
      BY <2>2, <2>3, <2>4, <2>5
  <1>9. ASSUME NEW p \in Proc, PostDebitLeg(p) PROVE DeliveryInv'
    <2>1. act[p].evt = "debit_requested"
      BY <1>a, <1>9 DEF PostDebitLeg, ActOk
    <2>2. /\ GotoMark(p, "debited") \/ GotoMark(p, "failed") \/ Return(p, FALSE)
          /\ UNCHANGED <<rowVars, outbox>>
      BY <1>9 DEF PostDebitLeg, Replied
    <2>3. /\ act[p].evt # NoEvent /\ {"debited", "failed"} \subseteq Status
          /\ canTransitionStatus(StatusFor(act[p].evt), "debited")
          /\ canTransitionStatus(StatusFor(act[p].evt), "failed")
      BY <2>1, Edges DEF StatusFor, NoEvent, Status
    <2>4. Continues(p, status, outbox)
      BY <1>a, <2>2, <2>3, MarkContinues, ReturnContinues
    <2> QED
      BY <1>0, <2>2, <2>4, ContinueStep
  <1>h. ASSUME NEW p \in Proc, NEW v, OnVerdict(p, v), act[p].evt \in {"debited", "in_doubt"}
        PROVE  Continues(p, status, outbox)
    <2>1. /\ act[p].evt # NoEvent /\ "reversal_pending" \in Status
          /\ canTransitionStatus(StatusFor(act[p].evt), "reversal_pending")
      BY <1>h, Edges DEF StatusFor, NoEvent, Status
    <2>2. Goto(p, "postSettle") \/ GotoMark(p, "reversal_pending")
      BY <1>h DEF OnVerdict
    <2> QED
      BY <1>a, <1>h, <2>1, <2>2, GotoContinues, MarkContinues
  <1>10. ASSUME NEW p \in Proc, Send(p) PROVE DeliveryInv'
    <2>1. act[p].evt = "debited"
      BY <1>a, <1>10 DEF Send, ActOk, SendToRail
    <2>2. /\ OnVerdict(p, rail[RefOf[act[p].t]]) \/ GotoMark(p, "in_doubt") \/ Return(p, FALSE)
          /\ UNCHANGED <<rowVars, outbox>>
      BY <1>10 DEF Send, SendToRail
    <2>3. /\ act[p].evt # NoEvent /\ "in_doubt" \in Status
          /\ canTransitionStatus(StatusFor(act[p].evt), "in_doubt")
      BY <2>1, Edges DEF StatusFor, NoEvent, Status
    <2>4. Continues(p, status, outbox)
      BY <1>a, <1>h, <2>1, <2>2, <2>3, MarkContinues, ReturnContinues
    <2> QED
      BY <1>0, <2>2, <2>4, ContinueStep
  <1>11. ASSUME NEW p \in Proc, QueryStatus(p) PROVE DeliveryInv'
    <2>1. act[p].evt = "in_doubt"
      BY <1>a, <1>11 DEF QueryStatus, ActOk
    <2>2. /\ OnVerdict(p, rail[RefOf[act[p].t]]) \/ GotoMark(p, "manual_review")
          /\ UNCHANGED <<rowVars, outbox>>
      BY <1>11 DEF QueryStatus
    <2>3. /\ act[p].evt # NoEvent /\ "manual_review" \in Status
          /\ canTransitionStatus(StatusFor(act[p].evt), "manual_review")
      BY <2>1, Edges DEF StatusFor, NoEvent, Status
    <2>4. Continues(p, status, outbox)
      BY <1>a, <1>h, <2>1, <2>2, <2>3, MarkContinues
    <2> QED
      BY <1>0, <2>2, <2>4, ContinueStep
  <1>12. ASSUME NEW p \in Proc, PostSettlementLeg(p) PROVE DeliveryInv'
    <2>1. act[p].evt \in {"debited", "in_doubt", NoEvent}
      BY <1>a, <1>12 DEF PostSettlementLeg, ActOk
    <2>2. /\ GotoMark(p, "settled") \/ Return(p, FALSE)
          /\ UNCHANGED <<rowVars, outbox>>
      BY <1>12 DEF PostSettlementLeg, Replied
    <2>3. /\ "settled" \in Status
          /\ act[p].evt # NoEvent => canTransitionStatus(StatusFor(act[p].evt), "settled")
      BY <2>1, Edges DEF StatusFor, NoEvent, Status
    <2>4. Continues(p, status, outbox)
      BY <1>a, <2>2, <2>3, MarkContinues, ReturnContinues
    <2> QED
      BY <1>0, <2>2, <2>4, ContinueStep
  <1>13. ASSUME NEW p \in Proc, PostReversal(p) PROVE DeliveryInv'
    <2>1. act[p].evt = "reversal"
      BY <1>a, <1>13 DEF PostReversal, ActOk
    <2>2. /\ GotoMark(p, "reversed") \/ Return(p, FALSE)
          /\ UNCHANGED <<rowVars, outbox>>
      BY <1>13 DEF PostReversal, Replied
    <2>3. /\ act[p].evt # NoEvent /\ "reversed" \in Status
          /\ canTransitionStatus(StatusFor(act[p].evt), "reversed")
      BY <2>1, Edges DEF StatusFor, NoEvent, Status
    <2>4. Continues(p, status, outbox)
      BY <1>a, <2>2, <2>3, MarkContinues, ReturnContinues
    <2> QED
      BY <1>0, <2>2, <2>4, ContinueStep
  <1>14. ASSUME NEW p \in Proc, Advance(p) PROVE DeliveryInv'
    <2> DEFINE t == act[p].t
               to == act[p].to
    <2>1. /\ t \in Transfer /\ to \in Status
          /\ \/ act[p].evt # NoEvent /\ canTransitionStatus(StatusFor(act[p].evt), to)
             \/ act[p].evt = NoEvent /\ act[p].row = 0
          /\ latest' = latest
          /\ Return(p, TRUE) \/ Return(p, FALSE)
      BY <1>0, <1>a, <1>c, <1>14 DEF Advance, BusyInv, Handling, ActOk, Replied, SetTransferStatus, SetDebitLeg
    <2>2. CASE canTransitionStatus(status[t], to)
      <3>1. status' = [status EXCEPT ![t] = to] /\ status'[t] = to
        BY <1>0, <1>14, <2>1, <2>2 DEF Advance, TypeOK, SetTransferStatus, SetDebitLeg
      <3>2. Moved(status, status')
        BY <1>e, <2>1, <2>2, <3>1
      <3>3. \/ eventForStatus(to) # NoEvent /\ Enqueue(t, eventForStatus(to))
            \/ eventForStatus(to) = NoEvent /\ UNCHANGED outbox
        BY <1>14, <2>2 DEF Advance, SetTransferStatus, SetDebitLeg
      <3>4. Grown(outbox, outbox')
        BY <1>0, <2>1, <3>3, EnqueueFrame, EventOfStatus DEF Grown
      <3>5. act[p].evt # NoEvent => status'[t] \in Past(act[p].evt)
        BY <1>b, <2>1, <3>1, StatusFacts
      <3>6. ActOk(act[p], status', outbox')
        BY <1>a, <2>1, <3>2, <3>4, ActFrame
      <3>7. Continues(p, status', outbox')
        BY <1>a, <1>c, <2>1, <3>5, <3>6, ReturnContinues
      <3>8. \A u \in Transfer : status'[u] = status[u] \/ u = t
        BY <1>0, <3>1 DEF TypeOK
      <3>9. CASE eventForStatus(to) # NoEvent /\ Enqueue(t, eventForStatus(to))
        <4>1. eventForStatus(to) \in Event /\ status'[t] \in Reached(eventForStatus(to))
          BY <3>1, <3>9, EventOfStatus, StatusFacts
        <4> QED
          BY <1>0, <2>1, <3>1, <3>2, <3>7, <3>8, <3>9, <4>1, EnqueueStep
      <3>10. CASE eventForStatus(to) = NoEvent /\ UNCHANGED outbox
        <4>1. to \notin DOMAIN statusTransitions
          BY <1>c, <3>10, EventOfStatus
        <4>2. \A u \in Transfer : status'[u] = status[u] \/ Driven(u, status', outbox')
          BY <3>1, <3>8, <4>1 DEF Driven
        <4>3. PICK a \in Activity : act' = [act EXCEPT ![p] = a] /\ ActOk(a, status', outbox')
          BY <3>7 DEF Continues
        <4> QED
          BY <1>0, <2>1, <3>2, <3>4, <3>10, <4>2, <4>3, DeliveryFrame
      <3> QED
        BY <3>3, <3>9, <3>10
    <2>3. CASE ~canTransitionStatus(status[t], to)
      <3>1. UNCHANGED <<rowVars, outbox>>
        BY <1>14, <2>3 DEF Advance, rowVars, SetTransferStatus, SetDebitLeg
      <3>2. act[p].evt # NoEvent => status[t] \in Past(act[p].evt)
        BY <1>a, <1>b, <2>1, <2>3, StatusFacts DEF ActOk
      <3>3. Continues(p, status, outbox)
        BY <1>a, <1>c, <2>1, <3>2, ReturnContinues
      <3> QED
        BY <1>0, <3>1, <3>3, ContinueStep
    <2> QED
      BY <2>2, <2>3
  <1>15. ASSUME NEW p \in Proc, Fault(p) PROVE DeliveryInv'
    <2>1. Continues(p, status, outbox)
      BY <1>a, <1>15, FinishContinues, ReturnContinues DEF Fault
    <2> QED
      BY <1>0, <1>15, <2>1, ContinueStep DEF Fault
  <1>16. ASSUME NEW p \in Proc, Crash(p) PROVE DeliveryInv'
    <2>1. Continues(p, status, outbox)
      BY <1>16, IdleOk DEF Crash, Continues
    <2> QED
      BY <1>0, <1>16, <2>1, ContinueStep DEF Crash
  <1>17. ASSUME NEW p \in Poller, Restart(p) PROVE DeliveryInv'
    <2> DEFINE todo == {<<t, eventForStatus(status[t])>> : t \in Stuck}
               a == [Idle EXCEPT !.pc = "recover", !.todo = todo]
    <2>1. todo \in SUBSET (Transfer \X Event)
      BY EventOfStatus DEF Stuck
    <2>2. \A x \in todo : status[x[1]] \in Reached(x[2])
      <3>1. \A t \in Stuck : status[t] \in Reached(eventForStatus(status[t]))
        BY EventOfStatus, StatusFacts DEF Stuck
      <3> QED
        BY <3>1
    <2> HIDE DEF todo
    <2>3. a \in Activity /\ ActOk(a, status, outbox)
      BY <2>1, <2>2 DEF Idle, Activity, Step, ActOk, NoEvent
    <2>4. Finish(p) \/ act' = [act EXCEPT ![p] = a]
      BY <1>17 DEF Restart, todo
    <2>5. Continues(p, status, outbox)
      BY <1>d, <2>3, <2>4, FinishContinues DEF Continues
    <2> QED
      BY <1>0, <1>d, <1>17, <2>5, ContinueStep DEF Restart
  <1>18. ASSUME NEW p \in Poller, Recover(p) PROVE DeliveryInv'
    <2>1. PICK x \in act[p].todo :
             /\ act' = [act EXCEPT ![p].todo = @ \ {x}]
             /\ Enqueue(x[1], x[2]) \/ UNCHANGED outbox
      BY <1>18 DEF Recover
    <2>2. x[1] \in Transfer /\ x[2] \in Event /\ status[x[1]] \in Reached(x[2])
      BY <1>a, <1>b, <1>d, <2>1 DEF ActOk
    <2>3. status' = status /\ latest' = latest /\ UNCHANGED rowVars
      BY <1>18 DEF Recover, rowVars
    <2> DEFINE a == [act[p] EXCEPT !.todo = act[p].todo \ {x}]
    <2>4. /\ a \in Activity /\ a.pc = act[p].pc /\ a.t = act[p].t /\ a.evt = act[p].evt
          /\ a.row = act[p].row /\ a.to = act[p].to /\ a.todo \subseteq act[p].todo
      BY <1>a, <1>d DEF Activity
    <2>5. act' = [act EXCEPT ![p] = a]
      BY <2>1
    <2> HIDE DEF a
    <2>6. ActOk(a, status, outbox)
      BY <1>a, <1>d, <2>4 DEF ActOk
    <2>7. CASE UNCHANGED outbox
      BY <1>0, <1>d, <2>3, <2>4, <2>5, <2>6, <2>7, ContinueStep DEF Continues
    <2>8. CASE Enqueue(x[1], x[2])
      <3>1. Moved(status, status') /\ Grown(outbox, outbox')
        BY <1>0, <1>f, <2>2, <2>3, <2>8, EnqueueFrame
      <3>2. a.pc \in Handling \cup {"requeue"} => a.t \in Transfer
        BY <1>0, <1>d, <2>4 DEF BusyInv
      <3>3. ActOk(a, status', outbox')
        BY <2>4, <2>6, <3>1, <3>2, ActFrame
      <3>4. Continues(p, status', outbox')
        BY <2>4, <2>5, <3>3 DEF Continues
      <3> QED
        BY <1>0, <1>d, <2>2, <2>3, <2>8, <3>1, <3>4, EnqueueStep
    <2> QED
      BY <2>1, <2>7, <2>8
  <1>19. ASSUME NEW p \in Poller, Recovered(p) PROVE DeliveryInv'
    <2>1. Continues(p, status, outbox)
      BY <1>d, <1>19, FinishContinues DEF Recovered
    <2> QED
      BY <1>0, <1>d, <1>19, <2>1, ContinueStep DEF Recovered
  <1>20. ASSUME UNCHANGED <<rowVars, outbox, act>> PROVE DeliveryInv'
    BY <1>0, <1>20 DEF rowVars, DeliveryInv, RowInv, DrivenInv, ActInv, LatestInv
  <1>21. ASSUME NEW a \in Account, OpenAccount(a) PROVE DeliveryInv'
    BY <1>20, <1>21 DEF OpenAccount
  <1>22. CASE UNCHANGED vars
    BY <1>20, <1>22 DEF vars, rowVars
  <1> QED
    BY <1>1, <1>2, <1>3, <1>4, <1>5, <1>6, <1>7, <1>8, <1>9, <1>10, <1>11, <1>12, <1>13,
       <1>14, <1>15, <1>16, <1>17, <1>18, <1>19, <1>21, <1>22
    DEF Next, Drive, Poll, Request

(* The initial state satisfies the inductive invariant of event delivery.  *)
LEMMA DeliveryInit == Init => DeliveryInv
  <1> SUFFICES ASSUME Init PROVE DeliveryInv
    OBVIOUS
  <1>1. TypeInv
    BY SwitchAssumption
    DEF Init, TypeInv, TypeOK, BusyInv, Idle, Activity, Step, Handling, Leg
  <1>2. ActInv
    BY IdleOk DEF Init, ActInv
  <1>3. RowInv /\ LatestInv
    BY DEF Init, RowInv, LatestInv
  <1>4. DrivenInv
    BY Edges DEF Init, DrivenInv, Driven
  <1> QED
    BY <1>1, <1>2, <1>3, <1>4 DEF DeliveryInv

(* DeliveryInv is an invariant of Switch.                                  *)
THEOREM DeliveryCorrect == Spec => []DeliveryInv
  BY DeliveryInit, DeliveryStep, PTL DEF Spec

(* No interleaving of pollers, requests, callbacks, crashes and restarts   *)
(* loses the event that drives a transfer on.                              *)
THEOREM NoEventLost == Spec => []NoLostEvent
  <1>1. DeliveryInv => NoLostEvent
    <2> SUFFICES ASSUME DeliveryInv, NEW t \in Transfer, status[t] \in DOMAIN statusTransitions
                 PROVE  \E e \in DOMAIN outbox : /\ outbox[e].t = t
                                                 /\ outbox[e].type = eventForStatus(status[t])
                                                 /\ ~outbox[e].published
      BY DEF NoLostEvent
    <2>1. PICK e \in DOMAIN outbox : outbox[e].t = t /\ outbox[e].type = eventForStatus(status[t])
      BY DEF DeliveryInv, DrivenInv, Driven
    <2>2. outbox[e].type \in Event
      BY <2>1, EventOfStatus
    <2>3. status[t] = StatusFor(outbox[e].type)
      BY <2>1, <2>2, StatusFacts
    <2>4. status[t] \notin Past(outbox[e].type)
      BY <2>3 DEF Past
    <2>5. ~outbox[e].published
      BY <2>1, <2>4 DEF DeliveryInv, RowInv, RowOk
    <2> QED
      BY <2>1, <2>5
  <1> QED
    BY <1>1, DeliveryCorrect, PTL
-----------------------------------------------------------------------------
(* Dead letters: an event is parked only for real failures.                *)

(* No row is dropped or moved, none that exists changes its attempts or is *)
(* parked, and a new one starts afresh.                                    *)
SameCounts(ob, ob2) ==
    /\ \A e \in DOMAIN ob : /\ e \in DOMAIN ob2 /\ ob2[e].t = ob[e].t
                            /\ ob2[e].attempts = ob[e].attempts /\ ob2[e].dead = ob[e].dead
    /\ \A e \in DOMAIN ob2 \ DOMAIN ob : ob2[e].attempts = 0 /\ ~ob2[e].dead

(* An appended event starts afresh (outbox.go, insert).                    *)
LEMMA EnqueueCounts ==
    ASSUME TypeOK, NEW t \in Transfer, NEW type \in Event, Enqueue(t, type)
    PROVE  SameCounts(outbox, outbox')
  <1> DEFINE row == NewRow(t, type)
  <1>1. row \in Row /\ row.attempts = 0 /\ row.dead = FALSE
    BY DEF NewRow, Row
  <1>2. outbox' = Append(outbox, row) /\ outbox \in Seq(Row)
    BY DEF Enqueue, TypeOK
  <1> HIDE DEF row
  <1> QED
    BY <1>1, <1>2, AppendRow DEF SameCounts

(* p's next activity: it drops its row or keeps it with the attempts it    *)
(* has read, and has failed only if the step is one that may.              *)
Keeps(p, mayFail) ==
    \E a \in Activity : /\ act' = [act EXCEPT ![p] = a]
                        /\ a.row # 0 => a.row = act[p].row /\ a.att = act[p].att
                        /\ a.pc = "nack" => mayFail /\ a.row # 0

(* A handler that is done drops its row (Finish).                          *)
LEMMA FinishKeeps ==
    ASSUME NEW p \in Proc, Finish(p)
    PROVE  Keeps(p, FALSE)
  <1>1. Idle \in Activity /\ Idle.row = 0 /\ Idle.pc = "idle"
    BY DEF Idle, Activity, Step
  <1> QED
    BY <1>1 DEF Finish, Keeps

(* A handler that goes on keeps its row (Goto, GotoMark).                  *)
LEMMA GotoKeeps ==
    ASSUME NEW p \in Proc, act[p] \in Activity,
           \/ \E pc \in Step \ {"nack"} : Goto(p, pc)
           \/ \E to \in Status : GotoMark(p, to)
    PROVE  Keeps(p, FALSE)
  <1>1. ASSUME NEW pc \in Step \ {"nack"}, Goto(p, pc) PROVE Keeps(p, FALSE)
    <2> DEFINE a == [act[p] EXCEPT !.pc = pc]
    <2>1. a \in Activity /\ a.pc = pc /\ a.row = act[p].row /\ a.att = act[p].att
      BY DEF Activity
    <2>2. act' = [act EXCEPT ![p] = a]
      BY <1>1 DEF Goto
    <2> HIDE DEF a
    <2> QED
      BY <2>1, <2>2 DEF Keeps
  <1>2. ASSUME NEW to \in Status, GotoMark(p, to) PROVE Keeps(p, FALSE)
    <2> DEFINE a == [act[p] EXCEPT !.pc = "mark", !.to = to]
    <2>1. a \in Activity /\ a.pc = "mark" /\ a.row = act[p].row /\ a.att = act[p].att
      BY DEF Activity, Step
    <2>2. act' = [act EXCEPT ![p] = a]
      BY <1>2 DEF GotoMark
    <2> HIDE DEF a
    <2> QED
      BY <2>1, <2>2 DEF Keeps
  <1> QED
    BY <1>1, <1>2

(* A handler that returns keeps its row for the poller (Return).           *)
LEMMA ReturnKeeps ==
    ASSUME NEW p \in Proc, act[p] \in Activity, NEW ok \in BOOLEAN, Return(p, ok)
    PROVE  Keeps(p, ~ok)
  <1>1. CASE act[p].row = 0
    BY <1>1, FinishKeeps DEF Return, Keeps
  <1>2. CASE act[p].row # 0
    <2> DEFINE pc == IF ok THEN "ack" ELSE "nack"
               a == [act[p] EXCEPT !.pc = pc, !.to = "none"]
    <2>1. pc \in {"ack", "nack"} /\ (pc = "nack" => ~ok)
      OBVIOUS
    <2>2. act' = [act EXCEPT ![p] = a]
      BY <1>2 DEF Return
    <2> HIDE DEF pc
    <2>3. a \in Activity /\ a.pc = pc /\ a.row = act[p].row /\ a.att = act[p].att
      BY <2>1 DEF Activity, Step
    <2> HIDE DEF a
    <2> QED
      BY <1>2, <2>1, <2>2, <2>3 DEF Keeps
  <1> QED
    BY <1>1, <1>2

(* What a step of p that fails no delivery, or pays for the failure with a *)
(* fault, does to the counts.                                              *)
LEMMA CountFrame ==
    ASSUME TypeOK, TypeOK', ActInv, StaleInv, CountInv, NEW p \in Proc,
           UNCHANGED (accounts \ OpenableAccounts),
           NEW a \in Activity, act' = [act EXCEPT ![p] = a],
           a.row # 0 => a.row \in DOMAIN outbox /\ a.att <= outbox[a.row].attempts,
           SameCounts(outbox, outbox'), faults' \in {faults, faults + 1},
           a.pc = "nack" => \/ faults' = faults + 1
                            \/ a.row \in DOMAIN outbox /\ ~Known(outbox[a.row].t)
    PROVE  StaleInv' /\ CountInv'
  <1>1. /\ act \in [Proc -> Activity] /\ faults \in Nat
        /\ outbox \in Seq(Row) /\ outbox' \in Seq(Row)
    BY DEF TypeOK
  <1>2. \A q \in Proc : act'[q] = IF q = p THEN a ELSE act[q]
    BY <1>1
  <1>3. \A q \in Proc : act[q].row # 0 => act[q].row \in DOMAIN outbox
    BY DEF ActInv, ActOk
  <1>4. StaleInv'
    BY <1>2, <1>3 DEF StaleInv, SameCounts
  <1>5. ASSUME NEW e \in DOMAIN outbox', DestOf[outbox'[e].t] \in accounts \ OpenableAccounts
        PROVE  /\ IsFiniteSet(Failing(e)')
               /\ outbox'[e].attempts + Cardinality(Failing(e)') <= faults'
               /\ outbox'[e].dead => faults' >= MaxAttempts
    <2>1. Failing(e)' \subseteq Failing(e) \cup {p}
      BY <1>2 DEF Failing
    <2>2. CASE e \notin DOMAIN outbox
      <3>1. e # 0
        BY <1>1
      <3>2. Failing(e)' = {}
        BY <1>2, <1>3, <2>2, <3>1 DEF Failing
      <3> QED
        BY <1>1, <2>2, <3>2, FS_EmptySet DEF SameCounts
    <2>3. CASE e \in DOMAIN outbox
      <3>1. /\ outbox'[e].attempts = outbox[e].attempts /\ outbox'[e].dead = outbox[e].dead
            /\ Known(outbox[e].t)
        BY <1>5, <2>3 DEF SameCounts, Known
      <3>2. /\ IsFiniteSet(Failing(e)) /\ outbox[e].attempts + Cardinality(Failing(e)) <= faults
            /\ outbox[e].dead => faults >= MaxAttempts
        BY <2>3, <3>1 DEF CountInv
      <3>3. Cardinality(Failing(e)) \in Nat /\ outbox[e].attempts \in Nat
        <4>1. Cardinality(Failing(e)) \in Nat
          BY <3>2, FS_CardinalityType
        <4>2. outbox[e] \in Row
          BY <1>1, <2>3
        <4> QED
          BY <4>1, <4>2 DEF Row
      <3>4. outbox'[e].dead => faults' >= MaxAttempts
        BY <1>1, <3>1, <3>2, SwitchAssumption
      <3>5. CASE faults' = faults + 1
        <4>1. /\ IsFiniteSet(Failing(e) \cup {p})
              /\ Cardinality(Failing(e) \cup {p}) <= Cardinality(Failing(e)) + 1
              /\ Cardinality(Failing(e) \cup {p}) \in Nat
          <5> DEFINE F == Failing(e)
          <5>1. IsFiniteSet(F) /\ Cardinality(F) \in Nat
            BY <3>2, <3>3
          <5> HIDE DEF F
          <5>2. /\ IsFiniteSet(F \cup {p})
                /\ Cardinality(F \cup {p}) = IF p \in F THEN Cardinality(F) ELSE Cardinality(F) + 1
            BY <5>1, FS_AddElement, Zenon
          <5>3. Cardinality(F \cup {p}) <= Cardinality(F) + 1 /\ Cardinality(F \cup {p}) \in Nat
            BY <5>1, <5>2
          <5> QED
            BY <5>2, <5>3 DEF F
        <4>2. /\ IsFiniteSet(Failing(e)')
              /\ Cardinality(Failing(e)') <= Cardinality(Failing(e) \cup {p})
              /\ Cardinality(Failing(e)') \in Nat
          BY <2>1, <4>1, FS_Subset, FS_CardinalityType
        <4> QED
          BY <1>1, <3>1, <3>2, <3>3, <3>4, <3>5, <4>1, <4>2
      <3>6. CASE faults' # faults + 1
        <4>1. faults' = faults /\ (a.pc = "nack" => a.row # e)
          BY <3>1, <3>6
        <4>2. Failing(e)' \subseteq Failing(e)
          BY <1>2, <4>1 DEF Failing
        <4>3. /\ IsFiniteSet(Failing(e)')
              /\ Cardinality(Failing(e)') <= Cardinality(Failing(e))
              /\ Cardinality(Failing(e)') \in Nat
          BY <3>2, <4>2, FS_Subset, FS_CardinalityType
        <4> QED
          BY <1>1, <3>1, <3>2, <3>3, <3>4, <4>1, <4>3
      <3> QED
        BY <3>5, <3>6
    <2> QED
      BY <2>2, <2>3
  <1>6. CountInv'
    BY <1>5 DEF CountInv, Known
  <1> QED
    BY <1>4, <1>6

(* The same, for a step that keeps or drops p's row.                       *)
LEMMA KeepsCounts ==
    ASSUME ParkInv, TypeOK', NEW p \in Proc, NEW mayFail \in BOOLEAN, Keeps(p, mayFail),
           UNCHANGED (accounts \ OpenableAccounts),
           SameCounts(outbox, outbox'), faults' \in {faults, faults + 1},
           mayFail => \/ faults' = faults + 1
                      \/ act[p].row # 0 => ~Known(outbox[act[p].row].t)
    PROVE  StaleInv' /\ CountInv'
  <1>1. TypeOK /\ ActInv /\ StaleInv /\ CountInv
    BY DEF ParkInv, DeliveryInv, TypeInv
  <1>2. PICK a \in Activity : /\ act' = [act EXCEPT ![p] = a]
                              /\ a.row # 0 => a.row = act[p].row /\ a.att = act[p].att
                              /\ a.pc = "nack" => mayFail /\ a.row # 0
    BY DEF Keeps
  <1>3. a.row # 0 => a.row \in DOMAIN outbox /\ a.att <= outbox[a.row].attempts
    BY <1>1, <1>2 DEF ActInv, ActOk, StaleInv
  <1> QED
    BY <1>1, <1>2, <1>3, CountFrame

(* A failure that is recorded moves from the deliveries that failed to the *)
(* attempts of the row; if it parks the row, the attempts read plus this   *)
(* one are as many faults (poller.go fail).                                *)
LEMMA FailCounts ==
    ASSUME ParkInv, NEW p \in Poller, Fail(p)
    PROVE  StaleInv' /\ CountInv'
  <1>0. TypeOK /\ ActInv /\ StaleInv /\ CountInv
    BY DEF ParkInv, DeliveryInv, TypeInv
  <1>1. p \in Proc
    BY DEF Proc
  <1>2. /\ act \in [Proc -> Activity] /\ faults \in Nat /\ faults' = faults
        /\ outbox \in Seq(Row) /\ MaxAttempts \in Nat
    BY <1>0, SwitchAssumption DEF TypeOK, Fail
  <1>3. PICK r \in DOMAIN outbox : r = act[p].row
    BY <1>0, <1>1 DEF Fail, ActInv, ActOk
  <1>4. PICK n \in Nat, k \in Nat : n = outbox[r].attempts /\ k = act[p].att /\ k <= n
    <2>1. outbox[r] \in Row /\ act[p] \in Activity
      BY <1>1, <1>2
    <2>2. outbox[r].attempts \in Nat /\ act[p].att \in Nat
      BY <2>1 DEF Row, Activity
    <2>3. act[p].row # 0
      BY <1>2, <1>3
    <2> QED
      BY <1>0, <1>1, <1>3, <2>2, <2>3 DEF StaleInv
  <1>5. /\ outbox'[r].attempts = n + 1 /\ outbox'[r].t = outbox[r].t
        /\ outbox'[r].dead => outbox[r].dead \/ k + 1 >= MaxAttempts
        /\ DOMAIN outbox' = DOMAIN outbox
        /\ \A e \in DOMAIN outbox : e # r => outbox'[e] = outbox[e]
    <2>1. outbox' = [outbox EXCEPT ![r] = AfterFailure(outbox[r], k)]
      BY <1>3, <1>4 DEF Fail
    <2>2. outbox[r] \in Row
      BY <1>2
    <2>3. LET row == AfterFailure(outbox[r], k)
          IN  /\ row.attempts = n + 1 /\ row.t = outbox[r].t
              /\ row.dead => outbox[r].dead \/ k + 1 >= MaxAttempts
      BY <1>4, <2>2 DEF AfterFailure, Row
    <2> QED
      BY <1>2, <2>1, <2>3
  <1>6. /\ \A q \in Proc : q # p => act'[q] = act[q]
        /\ act'[p].row = 0 /\ act'[p].pc = "idle"
    BY <1>1, <1>2 DEF Fail, Finish, Idle
  <1>7. \A q \in Proc : act[q].row # 0 => act[q].row \in DOMAIN outbox
    BY <1>0 DEF ActInv, ActOk
  <1>8. StaleInv'
    <2> SUFFICES ASSUME NEW q \in Proc, act'[q].row # 0
                 PROVE  act'[q].att <= outbox'[act'[q].row].attempts
      BY DEF StaleInv
    <2>1. act'[q] = act[q] /\ act[q].att <= outbox[act[q].row].attempts
      BY <1>0, <1>6 DEF StaleInv
    <2>2. act[q].att \in Nat /\ act[q].row \in DOMAIN outbox
      BY <1>2, <1>7, <2>1 DEF Activity
    <2> QED
      BY <1>4, <1>5, <2>1, <2>2
  <1>9. ASSUME NEW e \in DOMAIN outbox, e # r PROVE Failing(e)' = Failing(e)
    BY <1>3, <1>6, <1>9 DEF Failing, Proc
  <1>10. Failing(r)' = Failing(r) \ {p} /\ p \in Failing(r)
    BY <1>1, <1>3, <1>6 DEF Failing, Fail
  <1>11. ASSUME Known(outbox[r].t)
         PROVE  /\ IsFiniteSet(Failing(r)')
                /\ n + 1 + Cardinality(Failing(r)') <= faults
                /\ outbox'[r].dead => faults >= MaxAttempts
    <2> DEFINE F == Failing(r)
    <2>1. IsFiniteSet(F) /\ n + Cardinality(F) <= faults /\ (outbox[r].dead => faults >= MaxAttempts)
      BY <1>0, <1>4, <1>11 DEF CountInv
    <2>2. p \in F /\ Failing(r)' = F \ {p}
      BY <1>10
    <2> HIDE DEF F
    <2>3. Cardinality(F) \in Nat /\ IsFiniteSet(F \ {p})
          /\ Cardinality(F \ {p}) = Cardinality(F) - 1 /\ Cardinality(F \ {p}) \in Nat
      BY <2>1, <2>2, FS_RemoveElement, FS_CardinalityType
    <2>4. n + 1 + Cardinality(F \ {p}) <= faults /\ k + 1 <= faults
      BY <1>2, <1>4, <2>1, <2>3
    <2>5. outbox'[r].dead => faults >= MaxAttempts
      <3>1. k + 1 >= MaxAttempts => faults >= MaxAttempts
        BY <1>2, <1>4, <2>4
      <3> QED
        BY <1>5, <2>1, <3>1, Zenon
    <2> QED
      BY <2>2, <2>3, <2>4, <2>5, Zenon
  <1>12. CountInv'
    <2> SUFFICES ASSUME NEW e \in DOMAIN outbox', Known(outbox[e].t)'
                 PROVE  /\ IsFiniteSet(Failing(e)')
                        /\ outbox'[e].attempts + Cardinality(Failing(e)') <= faults'
                        /\ outbox'[e].dead => faults' >= MaxAttempts
      BY DEF CountInv
    <2>1. e \in DOMAIN outbox /\ outbox'[e].t = outbox[e].t
      BY <1>2, <1>5
    <2>2. UNCHANGED accounts
      BY DEF Fail, ledgerVars
    <2>3. Known(outbox[e].t)
      BY <2>1, <2>2 DEF Known
    <2> QED
      BY <1>0, <1>2, <1>5, <1>9, <1>11, <2>1, <2>3 DEF CountInv
  <1> QED
    BY <1>8, <1>12

(* A step changes the debit leg's record only with the status debited, and *)
(* the accounts that were there from the start stay (store.go markDebited).*)
LEMMA ParentStep ==
    ASSUME TypeOK, ParentInv, [Next]_vars
    PROVE  ParentInv' /\ UNCHANGED (accounts \ OpenableAccounts)
  <1>1. ASSUME UNCHANGED <<status, debitLeg>> PROVE ParentInv'
    BY <1>1 DEF ParentInv
  <1>2. ASSUME UNCHANGED accounts PROVE UNCHANGED (accounts \ OpenableAccounts)
    BY <1>2
  <1>3. ASSUME NEW p \in Proc,
               \/ Load(p) \/ PostDebitLeg(p) \/ Send(p) \/ QueryStatus(p) \/ PostSettlementLeg(p)
               \/ PostReversal(p) \/ Fault(p) \/ Crash(p)
        PROVE  UNCHANGED <<status, debitLeg, accounts>>
    BY <1>3 DEF Load, PostDebitLeg, Send, QueryStatus, PostSettlementLeg, PostReversal, Fault,
                Crash, rowVars, ledgerVars
  <1>4. ASSUME NEW p \in Poller, Poll(p) PROVE UNCHANGED <<status, debitLeg, accounts>>
    BY <1>4 DEF Poll, Claim, MarkPublished, Fail, Restart, Recover, Recovered, rowVars, ledgerVars
  <1>5. ASSUME NEW h \in Handler, NEW t \in Transfer, Create(h, t)
        PROVE  ParentInv' /\ UNCHANGED accounts
    <2>1. /\ status' = [status EXCEPT ![t] = "pending"] /\ UNCHANGED <<debitLeg, accounts>>
      BY <1>5 DEF Create, CreatePending, InsertTransfer, ledgerVars
    <2> QED
      BY <2>1 DEF ParentInv, TypeOK, Reached
  <1>6. ASSUME NEW h \in Handler,
               Requeue(h) \/ \E r \in Ref : RailCallback(h, r) \/ CorrectiveReversal(h, r)
        PROVE  UNCHANGED <<status, debitLeg, accounts>>
    BY <1>6 DEF RailCallback, CorrectiveReversal, Requeue, rowVars, ledgerVars
  <1>7. ASSUME NEW p \in Proc, Advance(p) PROVE ParentInv' /\ UNCHANGED accounts
    <2>1. UNCHANGED accounts
      BY <1>7 DEF Advance, ledgerVars
    <2>2. CASE UNCHANGED <<status, debitLeg>>
      BY <1>1, <2>1, <2>2
    <2>3. ASSUME NEW t, NEW to, canTransitionStatus(status[t], to),
                 SetTransferStatus(t, to), SetDebitLeg(t, to)
          PROVE  ParentInv'
      <3> SUFFICES ASSUME NEW u \in Transfer, status'[u] \in Reached("debited")
                   PROVE  debitLeg'[u]
        BY DEF ParentInv
      <3>1. CASE u # t
        <4>1. status'[u] = status[u] /\ debitLeg'[u] = debitLeg[u]
          BY <2>3, <3>1 DEF SetTransferStatus, SetDebitLeg, TypeOK
        <4> QED
          BY <4>1 DEF ParentInv
      <3>2. CASE u = t
        <4>1. status'[u] = to /\ debitLeg'[u] = (debitLeg[u] \/ to = "debited")
          BY <2>3, <3>2 DEF SetTransferStatus, SetDebitLeg, TypeOK
        <4>2. to = "debited" \/ status[u] \in Reached("debited")
          BY <2>3, <3>2, <4>1, Edges DEF Reached, Status
        <4> QED
          BY <4>1, <4>2 DEF ParentInv
      <3> QED
        BY <3>1, <3>2
    <2> QED
      BY <1>7, <2>1, <2>2, <2>3 DEF Advance
  <1>8. ASSUME NEW a \in Account, OpenAccount(a)
        PROVE  UNCHANGED <<status, debitLeg>> /\ UNCHANGED (accounts \ OpenableAccounts)
    BY <1>8 DEF OpenAccount, rowVars
  <1>9. CASE UNCHANGED vars
    BY <1>1, <1>2, <1>9 DEF vars
  <1> QED
    BY <1>1, <1>2, <1>3, <1>4, <1>5, <1>6, <1>7, <1>8, <1>9 DEF Next, Drive, Request

(* Every step preserves ParkInv.                                           *)
LEMMA ParkStep == ParkInv /\ [Next]_vars => ParkInv'
  <1> SUFFICES ASSUME ParkInv, [Next]_vars PROVE ParkInv'
    OBVIOUS
  <1>0. TypeOK /\ BusyInv /\ ActInv /\ RowInv /\ ParentInv /\ StaleInv /\ CountInv
    BY DEF ParkInv, DeliveryInv, TypeInv
  <1>1. DeliveryInv' /\ ParentInv' /\ UNCHANGED (accounts \ OpenableAccounts) /\ TypeOK'
    <2>1. DeliveryInv'
      BY DeliveryStep DEF ParkInv
    <2> QED
      BY <1>0, <2>1, ParentStep DEF DeliveryInv, TypeInv
  <1> SUFFICES StaleInv' /\ CountInv'
    BY <1>1 DEF ParkInv
  <1>a. \A p \in Proc : act[p] \in Activity /\ ActOk(act[p], status, outbox)
    BY <1>0 DEF TypeOK, ActInv
  <1>b. SameCounts(outbox, outbox)
    BY DEF SameCounts
  <1>c. Poller \subseteq Proc /\ Handler \subseteq Proc
    BY DEF Proc
  <1>d. \A p \in Proc : Keeps(p, FALSE) => Keeps(p, TRUE)
    BY DEF Keeps
  <1>e. ASSUME NEW p \in Proc, Keeps(p, FALSE), SameCounts(outbox, outbox'), UNCHANGED faults
        PROVE  StaleInv' /\ CountInv'
    BY <1>1, <1>e, KeepsCounts
  <1>f. ASSUME NEW p \in Proc, Keeps(p, TRUE), SameCounts(outbox, outbox'), FaultBudget
        PROVE  StaleInv' /\ CountInv'
    BY <1>1, <1>f, KeepsCounts DEF FaultBudget
  <1>g. ASSUME NEW p \in Proc, Return(p, FALSE), SameCounts(outbox, outbox'), FaultBudget
        PROVE  StaleInv' /\ CountInv'
    BY <1>a, <1>f, <1>g, ReturnKeeps
  <1>h. ASSUME NEW p \in Proc, Finish(p), SameCounts(outbox, outbox'),
               UNCHANGED faults \/ FaultBudget
        PROVE  StaleInv' /\ CountInv'
    BY <1>d, <1>e, <1>f, <1>h, FinishKeeps
  <1>i. ASSUME NEW p \in Proc, NEW to \in Status, GotoMark(p, to), SameCounts(outbox, outbox'),
               UNCHANGED faults
        PROVE  StaleInv' /\ CountInv'
    BY <1>a, <1>e, <1>i, GotoKeeps
  <1>j. ASSUME NEW p \in Proc, NEW a \in Activity, act' = [act EXCEPT ![p] = a], a.row = 0,
               a.pc # "nack", SameCounts(outbox, outbox'), UNCHANGED faults \/ FaultBudget
        PROVE  StaleInv' /\ CountInv'
    <2>1. Keeps(p, FALSE)
      BY <1>j DEF Keeps
    <2> QED
      BY <1>d, <1>e, <1>f, <1>j, <2>1
  <1>2. ASSUME NEW h \in Handler, NEW t \in Transfer, Create(h, t) PROVE StaleInv' /\ CountInv'
    <2> DEFINE a == [Idle EXCEPT !.pc = "load", !.t = t, !.evt = "debit_requested"]
    <2>1. a \in Activity /\ a.row = 0 /\ a.pc = "load"
      BY DEF Idle, Activity, Step, Event
    <2>2. act' = [act EXCEPT ![h] = a] /\ Enqueue(t, "debit_requested") /\ UNCHANGED faults
      BY <1>2 DEF Create, CreatePending
    <2> HIDE DEF a
    <2>3. SameCounts(outbox, outbox')
      BY <1>0, <2>2, EnqueueCounts DEF Event
    <2> QED
      BY <1>c, <1>j, <2>1, <2>2, <2>3
  <1>3. ASSUME NEW h \in Handler, NEW r \in Ref, RailCallback(h, r) \/ CorrectiveReversal(h, r)
        PROVE  StaleInv' /\ CountInv'
    <2>1. PICK t \in Transfer : t = latest[r]
      BY <1>0, <1>3 DEF RailCallback, CorrectiveReversal, GetTransferByReference, TypeOK
    <2>2. PICK pc \in {"postSettle", "mark", "requeue"}, to \in Status \cup {"none"} :
             /\ \/ act' = [act EXCEPT ![h] = [Idle EXCEPT !.pc = pc, !.t = t, !.to = to]]
                \/ act' = [act EXCEPT ![h] = [Idle EXCEPT !.pc = pc, !.t = t]]
             /\ UNCHANGED <<outbox, faults>>
      BY <1>3, <2>1 DEF RailCallback, CorrectiveReversal, GetTransferByReference, Status
    <2> DEFINE a == [Idle EXCEPT !.pc = pc, !.t = t, !.to = to]
               b == [Idle EXCEPT !.pc = pc, !.t = t]
    <2>3. a \in Activity /\ a.row = 0 /\ a.pc = pc /\ b \in Activity /\ b.row = 0 /\ b.pc = pc
      BY DEF Idle, Activity, Step
    <2>4. act' = [act EXCEPT ![h] = a] \/ act' = [act EXCEPT ![h] = b]
      BY <2>2
    <2> HIDE DEF a, b
    <2>5. SameCounts(outbox, outbox') /\ UNCHANGED faults
      BY <1>b, <2>2
    <2> QED
      BY <1>c, <1>j, <2>3, <2>4, <2>5
  <1>4. ASSUME NEW h \in Handler, Requeue(h) PROVE StaleInv' /\ CountInv'
    <2>1. Enqueue(act[h].t, "reversal") /\ act[h].t \in Transfer
      BY <1>0, <1>4, <1>c DEF Requeue, BusyInv
    <2>2. SameCounts(outbox, outbox')
      BY <1>0, <2>1, EnqueueCounts DEF Event
    <2> QED
      BY <1>4, <1>c, <1>h, <2>2 DEF Requeue
  <1>5. ASSUME NEW p \in Poller, NEW e \in DOMAIN outbox, Claim(p, e) PROVE StaleInv' /\ CountInv'
    <2> DEFINE a == [Idle EXCEPT !.pc = "load", !.t = outbox[e].t, !.evt = outbox[e].type,
                                 !.row = e, !.att = outbox[e].attempts]
    <2>1. outbox[e] \in Row /\ e \in Nat
      BY <1>0 DEF TypeOK
    <2>2. outbox[e].attempts \in Nat /\ outbox[e].t \in Transfer /\ outbox[e].type \in Event
      BY <2>1 DEF Row
    <2>3. a \in Activity /\ a.row = e /\ a.att = outbox[e].attempts /\ a.pc = "load"
      BY <2>1, <2>2 DEF Idle, Activity, Step
    <2>4. act' = [act EXCEPT ![p] = a] /\ outbox' = outbox /\ faults' = faults
      BY <1>5 DEF Claim
    <2> HIDE DEF a
    <2>5. a.row # 0 => a.row \in DOMAIN outbox /\ a.att <= outbox[a.row].attempts
      BY <2>2, <2>3
    <2>6. /\ SameCounts(outbox, outbox') /\ faults' \in {faults, faults + 1}
          /\ p \in Proc /\ a \in Activity /\ a.pc # "nack"
      BY <1>b, <1>c, <2>3, <2>4
    <2> QED
      BY <1>0, <1>1, <2>4, <2>5, <2>6, CountFrame
  <1>6. ASSUME NEW p \in Poller, MarkPublished(p) PROVE StaleInv' /\ CountInv'
    <2>1. outbox \in Seq(Row) /\ outbox' = [outbox EXCEPT ![act[p].row] = [@ EXCEPT !.published = TRUE]]
      BY <1>0, <1>6 DEF TypeOK, MarkPublished
    <2>2. \A row \in Row : LET new == [row EXCEPT !.published = TRUE]
                           IN  new.t = row.t /\ new.attempts = row.attempts /\ new.dead = row.dead
      BY DEF Row
    <2>3. SameCounts(outbox, outbox')
      BY <2>1, <2>2 DEF SameCounts
    <2> QED
      BY <1>6, <1>c, <1>h, <2>3 DEF MarkPublished
  <1>7. ASSUME NEW p \in Poller, Fail(p) PROVE StaleInv' /\ CountInv'
    BY <1>7, FailCounts
  <1>8. ASSUME NEW p \in Proc, Load(p) PROVE StaleInv' /\ CountInv'
    <2>1. act[p].evt \in Event /\ act[p].t \in Transfer
      BY <1>0, <1>8 DEF Load, BusyInv, Handling
    <2>2. FirstStep(act[p].evt) \in Step \ {"nack"}
      BY <2>1 DEF FirstStep, Event, Step
    <2>3. ASSUME eventForStatus(status[act[p].t]) = act[p].evt, act[p].evt = "reversal"
          PROVE  debitLeg[act[p].t]
      <3>1. status[act[p].t] = "reversal_pending"
        BY <2>1, <2>3, StatusFacts DEF StatusFor
      <3> QED
        BY <1>0, <2>1, <3>1 DEF ParentInv, Reached, Status
    <2>4. /\ Goto(p, FirstStep(act[p].evt)) \/ Return(p, TRUE)
          /\ UNCHANGED <<outbox, faults>>
      BY <1>8, <2>3 DEF Load
    <2>5. Keeps(p, FALSE)
      BY <1>a, <2>2, <2>4, GotoKeeps, ReturnKeeps
    <2> QED
      BY <1>b, <1>e, <2>4, <2>5
  <1>9. ASSUME NEW p \in Proc, PostDebitLeg(p) PROVE StaleInv' /\ CountInv'
    BY <1>9, <1>b, <1>g, <1>i DEF PostDebitLeg, Replied, NoFault, Status
  <1>k. ASSUME NEW p \in Proc, NEW v, OnVerdict(p, v), UNCHANGED <<outbox, faults>>
        PROVE  StaleInv' /\ CountInv'
    <2>1. Keeps(p, FALSE)
      BY <1>a, <1>k, GotoKeeps DEF OnVerdict, Step, Status
    <2> QED
      BY <1>b, <1>e, <1>k, <2>1
  <1>10. ASSUME NEW p \in Proc, Send(p) PROVE StaleInv' /\ CountInv'
    <2>1. /\ UNCHANGED outbox
          /\ \/ OnVerdict(p, rail[RefOf[act[p].t]]) /\ UNCHANGED faults
             \/ GotoMark(p, "in_doubt") /\ UNCHANGED faults
             \/ Return(p, FALSE) /\ FaultBudget
      BY <1>10 DEF Send, SendToRail, NoFault
    <2> QED
      BY <1>b, <1>g, <1>i, <1>k, <2>1 DEF Status
  <1>11. ASSUME NEW p \in Proc, QueryStatus(p) PROVE StaleInv' /\ CountInv'
    BY <1>11, <1>b, <1>i, <1>k DEF QueryStatus, Status
  <1>12. ASSUME NEW p \in Proc, PostSettlementLeg(p) PROVE StaleInv' /\ CountInv'
    <2>1. act[p].t \in Transfer /\ UNCHANGED outbox
      BY <1>0, <1>12 DEF PostSettlementLeg, BusyInv, Handling
    <2>2. CASE DestOf[act[p].t] \in accounts
      BY <1>12, <1>b, <1>g, <1>i, <2>1, <2>2 DEF PostSettlementLeg, Replied, NoFault, Status
    <2>3. CASE DestOf[act[p].t] \notin accounts
      <3>1. Return(p, FALSE) /\ UNCHANGED faults
        BY <1>12, <2>3 DEF PostSettlementLeg
      <3>2. ~Known(act[p].t)
        BY <2>3 DEF Known
      <3>3. act[p].row # 0 => ~Known(outbox[act[p].row].t)
        BY <1>a, <3>2 DEF ActOk
      <3>4. Keeps(p, TRUE)
        BY <1>a, <3>1, ReturnKeeps
      <3> QED
        BY <1>1, <1>b, <2>1, <3>1, <3>3, <3>4, KeepsCounts
    <2> QED
      BY <2>2, <2>3
  <1>13. ASSUME NEW p \in Proc, PostReversal(p) PROVE StaleInv' /\ CountInv'
    BY <1>13, <1>b, <1>g, <1>i DEF PostReversal, Replied, NoFault, Status
  <1>14. ASSUME NEW p \in Proc, Advance(p) PROVE StaleInv' /\ CountInv'
    <2>1. act[p].t \in Transfer
      BY <1>0, <1>14 DEF Advance, BusyInv, Handling
    <2>2. \/ UNCHANGED outbox
          \/ eventForStatus(act[p].to) \in Event /\ Enqueue(act[p].t, eventForStatus(act[p].to))
      BY <1>14, EventOfStatus DEF Advance
    <2>3. SameCounts(outbox, outbox')
      BY <1>0, <1>b, <2>1, <2>2, EnqueueCounts
    <2>4. \/ Return(p, TRUE) /\ UNCHANGED faults
          \/ Return(p, FALSE) /\ FaultBudget
      BY <1>14 DEF Advance, Replied, NoFault
    <2> QED
      BY <1>a, <1>e, <1>g, <2>3, <2>4, ReturnKeeps
  <1>15. ASSUME NEW p \in Proc, Fault(p) PROVE StaleInv' /\ CountInv'
    BY <1>15, <1>b, <1>g, <1>h DEF Fault
  <1>16. ASSUME NEW p \in Proc, Crash(p) PROVE StaleInv' /\ CountInv'
    <2>1. PICK a \in {Idle, [Idle EXCEPT !.pc = "down"]} :
             act' = [act EXCEPT ![p] = a] /\ UNCHANGED outbox /\ FaultBudget
      BY <1>16 DEF Crash
    <2>2. a \in Activity /\ a.row = 0 /\ a.pc # "nack"
      BY DEF Idle, Activity, Step
    <2> QED
      BY <1>b, <1>j, <2>1, <2>2
  <1>17. ASSUME NEW p \in Poller, Restart(p) PROVE StaleInv' /\ CountInv'
    <2> DEFINE todo == {<<t, eventForStatus(status[t])>> : t \in Stuck}
               a == [Idle EXCEPT !.pc = "recover", !.todo = todo]
    <2>1. todo \in SUBSET (Transfer \X Event)
      BY EventOfStatus DEF Stuck
    <2>2. /\ \/ Finish(p) /\ FaultBudget
             \/ act' = [act EXCEPT ![p] = a] /\ UNCHANGED faults
          /\ UNCHANGED outbox
      BY <1>17 DEF Restart, NoFault
    <2> HIDE DEF todo
    <2>3. a \in Activity /\ a.row = 0 /\ a.pc = "recover"
      BY <2>1 DEF Idle, Activity, Step
    <2> HIDE DEF a
    <2> QED
      BY <1>b, <1>c, <1>h, <1>j, <2>2, <2>3
  <1>18. ASSUME NEW p \in Poller, Recover(p) PROVE StaleInv' /\ CountInv'
    <2>1. PICK x \in act[p].todo :
             /\ act' = [act EXCEPT ![p].todo = @ \ {x}]
             /\ \/ Enqueue(x[1], x[2]) /\ NoFault
                \/ UNCHANGED outbox /\ FaultBudget
      BY <1>18 DEF Recover
    <2>2. x[1] \in Transfer /\ x[2] \in Event
      BY <1>a, <1>c, <2>1 DEF Activity
    <2>3. SameCounts(outbox, outbox')
      BY <1>0, <1>b, <2>1, <2>2, EnqueueCounts
    <2> DEFINE a == [act[p] EXCEPT !.todo = act[p].todo \ {x}]
    <2>4. a \in Activity /\ a.pc = "recover" /\ a.row = act[p].row /\ a.att = act[p].att
      BY <1>18, <1>a, <1>c DEF Activity, Recover
    <2>5. act' = [act EXCEPT ![p] = a]
      BY <2>1
    <2> HIDE DEF a
    <2>6. Keeps(p, FALSE)
      BY <2>4, <2>5 DEF Keeps
    <2> QED
      BY <1>c, <1>d, <1>e, <1>f, <2>1, <2>3, <2>6 DEF NoFault
  <1>19. ASSUME NEW p \in Poller, Recovered(p) PROVE StaleInv' /\ CountInv'
    BY <1>19, <1>b, <1>c, <1>h DEF Recovered
  <1>20. CASE UNCHANGED <<outbox, act, faults>>
    BY <1>0, <1>1, <1>20 DEF StaleInv, CountInv, Failing, Known
  <1>21. ASSUME NEW b \in Account, OpenAccount(b) PROVE StaleInv' /\ CountInv'
    BY <1>20, <1>21 DEF OpenAccount
  <1>22. CASE UNCHANGED vars
    BY <1>20, <1>22 DEF vars
  <1> QED
    BY <1>2, <1>3, <1>4, <1>5, <1>6, <1>7, <1>8, <1>9, <1>10, <1>11, <1>12, <1>13,
       <1>14, <1>15, <1>16, <1>17, <1>18, <1>19, <1>21, <1>22
    DEF Next, Drive, Poll, Request

(* An event whose destination was there from the start is parked only      *)
(* after MaxAttempts faults, although deliveries compare the cap with      *)
(* stale attempts (poller.go fail).                                        *)
THEOREM ParkedForFaults == Spec => []ParkedOnlyByFaults
  <1>1. Init => ParkInv
    <2> SUFFICES ASSUME Init PROVE ParkInv
      OBVIOUS
    <2>1. ParentInv /\ StaleInv /\ CountInv
      BY DEF Init, ParentInv, StaleInv, CountInv, Idle, Reached, Status
    <2> QED
      BY <2>1, DeliveryInit DEF ParkInv
  <1>2. ParkInv => ParkedOnlyByFaults
    BY DEF ParkInv, CountInv, Known, ParkedOnlyByFaults
  <1> QED
    BY <1>1, <1>2, ParkStep, PTL DEF Spec
-----------------------------------------------------------------------------
(* Delivery by the rules of the outbox: the rows of the outbox are the     *)
(* events, and the deliveries under way are those the pollers hold.        *)

MarkOf(row) == IF row.published THEN IF row.dead THEN "both" ELSE "published"
                                ELSE IF row.dead THEN "parked" ELSE "live"

Marks == [e \in Nat \ {0} |-> IF e \in DOMAIN outbox THEN MarkOf(outbox[e]) ELSE "absent"]

Attempts == [e \in Nat \ {0} |-> IF e \in DOMAIN outbox THEN outbox[e].attempts ELSE 0]

Holding(p, a) == [worker |-> p, event |-> a.row, att |-> a.att]

Taken == {Holding(p, act[p]) : p \in {q \in Poller : act[q].row # 0}}

Queue == INSTANCE EventQueue WITH
    Event <- Nat \ {0}, Worker <- Poller,
    state <- Marks, attempts <- Attempts, taken <- Taken

(* The switch takes, acknowledges, retries and parks its events only as    *)
(* EventQueue allows (poller.go, outbox.sql).                              *)
DeliversByTheQueue == Queue!Spec

(* Who holds what.                                                         *)
LEMMA TakenIs ==
    ASSUME NEW x
    PROVE  x \in Taken <=> \E p \in Poller : act[p].row # 0 /\ x = Holding(p, act[p])
  BY DEF Taken

LEMMA TakenIsNext ==
    ASSUME NEW x
    PROVE  x \in Taken' <=> \E p \in Poller : act'[p].row # 0 /\ x = Holding(p, act'[p])
  BY DEF Taken

(* Only who works on a delivery: the deliveries under way stay.            *)
LEMMA SameTaken ==
    ASSUME \A p \in Poller : act'[p].row = act[p].row /\ act'[p].att = act[p].att
    PROVE  Taken' = Taken
  <1>1. \A p \in Poller : Holding(p, act'[p]) = Holding(p, act[p])
    BY DEF Holding
  <1>2. ASSUME NEW x PROVE x \in Taken' <=> x \in Taken
    BY <1>1, TakenIs, TakenIsNext
  <1> QED
    BY <1>2

(* A new row is a new event.                                               *)
LEMMA EnqueueAppends ==
    ASSUME outbox \in Seq(Row), NEW row \in Row, outbox' = Append(outbox, row),
           row.attempts = 0, Live(row), Taken' = Taken
    PROVE  Queue!Next
  <1>. DEFINE e == Len(outbox) + 1
  <1>1. /\ e \in Nat \ {0} /\ e \notin DOMAIN outbox
        /\ DOMAIN outbox' = DOMAIN outbox \cup {e} /\ outbox'[e] = row
        /\ \A f \in DOMAIN outbox : outbox'[f] = outbox[f]
    BY AppendRow
  <1>. HIDE DEF e
  <1>2. MarkOf(row) = "live"
    BY DEF Live, MarkOf
  <1>3. Marks[e] = "absent" /\ Marks' = [Marks EXCEPT ![e] = "live"]
    BY <1>1, <1>2 DEF Marks
  <1>4. Attempts' = Attempts
    BY <1>1 DEF Attempts
  <1>5. Queue!Append(e)
    BY <1>3, <1>4 DEF Queue!Append
  <1> QED
    BY <1>1, <1>5 DEF Queue!Next

(* A row of the outbox rewritten by the delivery that ends.                *)
LEMMA RewriteMarks ==
    ASSUME outbox \in Seq(Row), NEW e \in DOMAIN outbox, NEW row \in Row,
           outbox' = [outbox EXCEPT ![e] = row]
    PROVE  /\ e \in Nat \ {0}
           /\ Marks' = [Marks EXCEPT ![e] = MarkOf(row)]
           /\ Attempts' = [Attempts EXCEPT ![e] = row.attempts]
           /\ Marks[e] = MarkOf(outbox[e])
           /\ Attempts[e] = outbox[e].attempts
  <1>1. e \in Nat \ {0} /\ DOMAIN outbox' = DOMAIN outbox /\ outbox'[e] = row
    OBVIOUS
  <1>2. \A f \in DOMAIN outbox : f # e => outbox'[f] = outbox[f]
    OBVIOUS
  <1>3. /\ Marks[e] = MarkOf(outbox[e])
        /\ Attempts[e] = outbox[e].attempts
    BY <1>1 DEF Marks, Attempts
  <1>4. Marks' = [Marks EXCEPT ![e] = MarkOf(row)]
    BY <1>1, <1>2 DEF Marks
  <1>5. Attempts' = [Attempts EXCEPT ![e] = row.attempts]
    BY <1>1, <1>2 DEF Attempts
  <1> QED
    BY <1>1, <1>3, <1>4, <1>5

(* A poller that lets go of its delivery.                                  *)
LEMMA LetGo ==
    ASSUME act \in [Proc -> Activity], NEW p \in Proc, NEW a, a.row = 0,
           act' = [act EXCEPT ![p] = a]
    PROVE  Taken' = Taken \ {Holding(p, act[p])}
  <1>1. act'[p].row = 0 /\ \A q \in Proc : q # p => act'[q] = act[q]
    OBVIOUS
  <1>2. \A q \in Poller : q \in Proc
    BY DEF Proc
  <1>3. \A q \in Poller : q # p => Holding(q, act[q]) # Holding(p, act[p])
    BY DEF Holding
  <1>4. ASSUME NEW x PROVE x \in Taken' <=> x \in Taken \ {Holding(p, act[p])}
    BY <1>1, <1>2, <1>3, TakenIs, TakenIsNext
  <1> QED
    BY <1>4

(* One process changes what it does and keeps its delivery.                *)
LEMMA KeepsHold ==
    ASSUME act \in [Proc -> Activity], NEW p \in Proc, NEW a,
           a.row = act[p].row, a.att = act[p].att \/ a.row = 0,
           act' = [act EXCEPT ![p] = a]
    PROVE  Taken' = Taken
  <1>1. CASE a.att = act[p].att
    <2>1. \A q \in Proc : act'[q].row = act[q].row /\ act'[q].att = act[q].att
      BY <1>1
    <2> QED
      BY <2>1, SameTaken DEF Proc
  <1>2. CASE a.row = 0
    <2>1. Holding(p, act[p]) \notin Taken
      BY <1>2, TakenIs DEF Holding
    <2> QED
      BY <1>2, <2>1, LetGo
  <1> QED
    BY <1>1, <1>2

(* What a handler does to its own record keeps its delivery.               *)
LEMMA HandlerHolds ==
    ASSUME act \in [Proc -> Activity], NEW p \in Proc,
           \/ \E pc : Goto(p, pc)
           \/ \E to : GotoMark(p, to)
           \/ \E ok \in BOOLEAN : Return(p, ok)
    PROVE  Taken' = Taken
  <1>1. act[p] \in Activity
    OBVIOUS
  <1>2. ASSUME NEW pc, Goto(p, pc) PROVE Taken' = Taken
    <2>1. [act[p] EXCEPT !.pc = pc].row = act[p].row /\ [act[p] EXCEPT !.pc = pc].att = act[p].att
      BY <1>1 DEF Activity
    <2> QED
      BY <1>2, <2>1, KeepsHold DEF Goto
  <1>3. ASSUME NEW to, GotoMark(p, to) PROVE Taken' = Taken
    <2>. DEFINE a == [act[p] EXCEPT !.pc = "mark", !.to = to]
    <2>1. a.row = act[p].row /\ a.att = act[p].att
      BY <1>1 DEF Activity
    <2>2. act' = [act EXCEPT ![p] = a]
      BY <1>3, Zenon DEF GotoMark
    <2>. HIDE DEF a
    <2> QED
      BY <2>1, <2>2, KeepsHold
  <1>4. ASSUME NEW ok \in BOOLEAN, Return(p, ok) PROVE Taken' = Taken
    <2>1. CASE act[p].row = 0
      <3>1. Idle.row = 0 /\ act' = [act EXCEPT ![p] = Idle]
        BY <1>4, <2>1 DEF Return, Finish, Idle
      <3> QED
        BY <2>1, <3>1, KeepsHold
    <2>2. CASE act[p].row # 0
      <3>. DEFINE a == [act[p] EXCEPT !.pc = IF ok THEN "ack" ELSE "nack", !.to = "none"]
      <3>1. a.row = act[p].row /\ a.att = act[p].att
        BY <1>1 DEF Activity
      <3>2. act' = [act EXCEPT ![p] = a]
        BY <1>4, <2>2, Zenon DEF Return
      <3>. HIDE DEF a
      <3> QED
        BY <3>1, <3>2, KeepsHold
    <2> QED
      BY <2>1, <2>2
  <1> QED
    BY <1>2, <1>3, <1>4

(* A step that leaves the outbox and the deliveries under way alone.       *)
LEMMA SameQueue ==
    ASSUME outbox' = outbox, Taken' = Taken
    PROVE  UNCHANGED Queue!vars
  <1>1. Marks' = Marks /\ Attempts' = Attempts
    BY DEF Marks, Attempts
  <1> QED
    BY <1>1 DEF Queue!vars

(* An event of a transfer is put into the outbox.                          *)
LEMMA EnqueueIsAppend ==
    ASSUME TypeOK, NEW t \in Transfer, NEW type \in Event, Enqueue(t, type), Taken' = Taken
    PROVE  Queue!Next
  <1>. DEFINE row == NewRow(t, type)
  <1>1. row \in Row /\ row.attempts = 0 /\ Live(row)
    BY DEF NewRow, Row, Live
  <1>2. outbox' = Append(outbox, row)
    BY DEF Enqueue
  <1>3. outbox \in Seq(Row)
    BY DEF TypeOK
  <1>. HIDE DEF row
  <1> QED
    BY <1>1, <1>2, <1>3, EnqueueAppends

(* A delivery is dropped without a trace.                                  *)
LEMMA LostDelivery ==
    ASSUME act \in [Proc -> Activity], NEW p \in Proc, NEW a, a.row = 0,
           act' = [act EXCEPT ![p] = a], outbox' = outbox
    PROVE  Queue!Next
  <1>. DEFINE D == Taken \cap {Holding(p, act[p])}
  <1>1. Taken' = Taken \ D
    BY LetGo
  <1>2. Marks' = Marks /\ Attempts' = Attempts
    BY DEF Marks, Attempts
  <1>3. D \in SUBSET Taken
    OBVIOUS
  <1>. HIDE DEF D
  <1> QED
    BY <1>1, <1>2, <1>3 DEF Queue!Next, Queue!Drop

(* A claim takes the one event it delivers.                                *)
LEMMA ClaimTakes ==
    ASSUME TypeOK, ActInv, NEW p \in Poller, NEW e \in DOMAIN outbox, Claim(p, e)
    PROVE  Queue!Next
  <1>1. p \in Proc /\ act \in [Proc -> Activity] /\ outbox \in Seq(Row)
    BY DEF Proc, TypeOK
  <1>2. act[p].row = 0
    BY <1>1 DEF Claim, ActInv, ActOk, Handling
  <1>. DEFINE a == [Idle EXCEPT !.pc = "load", !.t = outbox[e].t, !.evt = outbox[e].type,
                                !.row = e, !.att = outbox[e].attempts]
  <1>3. act' = [act EXCEPT ![p] = a] /\ outbox' = outbox /\ Live(outbox[e])
    BY Zenon DEF Claim
  <1>4. a.row = e /\ a.att = outbox[e].attempts
    BY DEF Idle
  <1>. HIDE DEF a
  <1>5. e \in Nat \ {0}
    BY <1>1
  <1>6. act'[p] = a /\ \A q \in Proc : q # p => act'[q] = act[q]
    BY <1>1, <1>3
  <1>7. Attempts[e] = outbox[e].attempts /\ Marks[e] = "live"
    BY <1>3, <1>5 DEF Attempts, Marks, MarkOf, Live
  <1>8. Holding(p, a) = [worker |-> p, event |-> e, att |-> Attempts[e]]
    BY <1>4, <1>7 DEF Holding
  <1>9. ASSUME NEW x PROVE x \in Taken' <=> x \in Taken \cup {Holding(p, a)}
    <2>1. \A q \in Poller : q \in Proc
      BY DEF Proc
    <2>2. e # 0
      BY <1>5
    <2> QED
      BY <1>2, <1>4, <1>6, <2>1, <2>2, TakenIs, TakenIsNext
  <1>10. {[worker |-> p, event |-> f, att |-> Attempts[f]] : f \in {e}} = {Holding(p, a)}
    BY <1>8
  <1>11. Marks' = Marks /\ Attempts' = Attempts
    BY <1>3 DEF Marks, Attempts
  <1>12. Queue!Take(p, {e})
    BY <1>7, <1>9, <1>10, <1>11 DEF Queue!Take
  <1> QED
    BY <1>5, <1>12 DEF Queue!Next

(* The end of a delivery: published, or failed and perhaps parked.         *)
LEMMA DeliveryEnds ==
    ASSUME TypeOK, ActInv, NEW p \in Poller, MarkPublished(p) \/ Fail(p)
    PROVE  Queue!Next
  <1>. DEFINE d == Holding(p, act[p])
              e == act[p].row
  <1>1. p \in Proc /\ act \in [Proc -> Activity] /\ outbox \in Seq(Row)
    BY DEF Proc, TypeOK
  <1>2. act[p].pc \in {"ack", "nack"}
    BY DEF MarkPublished, Fail
  <1>3. e # 0 /\ e \in DOMAIN outbox
    BY <1>1, <1>2 DEF ActInv, ActOk
  <1>4. d \in Taken /\ d.event = e /\ d.att = act[p].att
    BY <1>3, TakenIs DEF Holding
  <1>5. act' = [act EXCEPT ![p] = Idle] /\ Idle.row = 0
    BY DEF MarkPublished, Fail, Finish, Idle
  <1>6. Taken' = Taken \ {d}
    BY <1>1, <1>5, LetGo
  <1>7. outbox[e] \in Row /\ act[p].att \in Nat
    BY <1>1, <1>3 DEF Activity
  <1>. HIDE DEF d, e
  <1>8. CASE MarkPublished(p)
    <2>. DEFINE row == [outbox[e] EXCEPT !.published = TRUE]
    <2>1. /\ row \in Row /\ row.published /\ row.dead = outbox[e].dead
          /\ row.attempts = outbox[e].attempts
      BY <1>7 DEF Row
    <2>2. outbox' = [outbox EXCEPT ![e] = row]
      BY <1>8 DEF MarkPublished, e
    <2>. HIDE DEF row
    <2>3. /\ Marks' = [Marks EXCEPT ![e] = MarkOf(row)]
          /\ Attempts' = [Attempts EXCEPT ![e] = row.attempts]
          /\ Marks[e] = MarkOf(outbox[e])
          /\ Attempts[e] = outbox[e].attempts /\ e \in Nat \ {0}
      BY <1>1, <1>3, <2>1, <2>2, RewriteMarks
    <2>4. Marks' = [Marks EXCEPT ![e] = IF Marks[e] = "parked" THEN "both" ELSE
                                        IF Marks[e] = "live" THEN "published" ELSE Marks[e]]
      BY <1>7, <2>1, <2>3 DEF Row, MarkOf
    <2>5. Attempts' = Attempts
      BY <2>1, <2>3 DEF Attempts
    <2>6. Queue!Ack(d)
      BY <1>4, <1>6, <2>4, <2>5 DEF Queue!Ack
    <2> QED
      BY <1>4, <2>6 DEF Queue!Next
  <1>9. CASE Fail(p)
    <2>. DEFINE row == AfterFailure(outbox[e], act[p].att)
    <2>1. row \in Row
      BY <1>7, AfterFailureRow
    <2>2. /\ row.published = outbox[e].published /\ row.attempts = outbox[e].attempts + 1
          /\ row.dead = IF act[p].att + 1 >= MaxAttempts THEN TRUE ELSE outbox[e].dead
      BY <1>7 DEF AfterFailure, Row
    <2>3. outbox' = [outbox EXCEPT ![e] = row]
      BY <1>9 DEF Fail, e
    <2>. HIDE DEF row
    <2>4. /\ Marks' = [Marks EXCEPT ![e] = MarkOf(row)]
          /\ Attempts' = [Attempts EXCEPT ![e] = row.attempts]
          /\ Marks[e] = MarkOf(outbox[e])
          /\ Attempts[e] = outbox[e].attempts /\ e \in Nat \ {0}
      BY <1>1, <1>3, <2>1, <2>3, RewriteMarks
    <2>5. Attempts' = [Attempts EXCEPT ![e] = Attempts[e] + 1]
      BY <2>2, <2>4
    <2>6. CASE d.att + 1 < MaxAttempts
      <3>1. ~(act[p].att + 1 >= MaxAttempts)
        BY <1>4, <1>7, <2>6, SwitchAssumption
      <3>2. row.dead = outbox[e].dead
        BY <2>2, <3>1, Zenon
      <3>3. Marks' = [Marks EXCEPT ![e] = Marks[e]]
        BY <2>2, <2>4, <3>2, Zenon DEF MarkOf
      <3>4. Marks' = Marks
        BY <3>3 DEF Marks
      <3>5. Queue!Retry(d)
        BY <1>4, <1>6, <2>5, <2>6, <3>4 DEF Queue!Retry
      <3> QED
        BY <1>4, <3>5 DEF Queue!Next
    <2>7. CASE ~(d.att + 1 < MaxAttempts)
      <3>1. d.att + 1 >= MaxAttempts /\ row.dead
        BY <1>4, <1>7, <2>2, <2>7, SwitchAssumption
      <3>2. Marks' = [Marks EXCEPT ![e] = IF Marks[e] = "published" THEN "both" ELSE
                                          IF Marks[e] = "live" THEN "parked" ELSE Marks[e]]
        BY <1>7, <2>2, <2>4, <3>1 DEF Row, MarkOf
      <3>3. Queue!Park(d)
        BY <1>4, <1>6, <2>5, <3>1, <3>2 DEF Queue!Park
      <3> QED
        BY <1>4, <3>3 DEF Queue!Next
    <2> QED
      BY <2>6, <2>7
  <1> QED
    BY <1>8, <1>9

(* Every step of the switch is a step of the queue or leaves it alone.     *)
LEMMA QueueStep == DeliveryInv /\ [Next]_vars => [Queue!Next]_(Queue!vars)
  <1> SUFFICES ASSUME DeliveryInv, [Next]_vars PROVE Queue!Next \/ UNCHANGED Queue!vars
    OBVIOUS
  <1>0. TypeOK /\ BusyInv /\ ActInv /\ act \in [Proc -> Activity]
    BY DEF DeliveryInv, TypeInv, TypeOK
  <1>a. Poller \subseteq Proc /\ Handler \subseteq Proc
    BY DEF Proc
  <1>b. \A p \in Proc : act[p].row # 0 => act[p].pc \in Handling
    BY <1>0 DEF ActInv, ActOk
  <1>1. ASSUME NEW p \in Proc, Load(p) \/ Send(p) \/ QueryStatus(p)
        PROVE  outbox' = outbox /\ Taken' = Taken
    <2>1. outbox' = outbox
      BY <1>1 DEF Load, Send, QueryStatus
    <2>2. \/ \E pc : Goto(p, pc)
          \/ \E to : GotoMark(p, to)
          \/ \E ok \in BOOLEAN : Return(p, ok)
      BY <1>1 DEF Load, Send, SendToRail, QueryStatus, OnVerdict
    <2> QED
      BY <1>0, <2>1, <2>2, HandlerHolds
  <1>2. ASSUME NEW p \in Proc, PostDebitLeg(p) \/ PostSettlementLeg(p) \/ PostReversal(p)
        PROVE  outbox' = outbox /\ Taken' = Taken
    <2>1. outbox' = outbox
      BY <1>2 DEF PostDebitLeg, PostSettlementLeg, PostReversal
    <2>2. \/ \E to : GotoMark(p, to)
          \/ \E ok \in BOOLEAN : Return(p, ok)
      BY <1>2 DEF PostDebitLeg, PostSettlementLeg, PostReversal, Replied
    <2> QED
      BY <1>0, <2>1, <2>2, HandlerHolds
  <1>3. ASSUME NEW p \in Proc, Advance(p)
        PROVE  Queue!Next \/ (outbox' = outbox /\ Taken' = Taken)
    <2>1. \E ok \in BOOLEAN : Return(p, ok)
      BY <1>3 DEF Advance, Replied
    <2>2. Taken' = Taken
      BY <1>0, <2>1, HandlerHolds
    <2>3. \/ outbox' = outbox
          \/ /\ eventForStatus(act[p].to) # NoEvent
             /\ Enqueue(act[p].t, eventForStatus(act[p].to))
      BY <1>3 DEF Advance
    <2>4. act[p].t \in Transfer /\ act[p].to \in Status
      BY <1>0, <1>3 DEF Advance, BusyInv, Handling
    <2>5. eventForStatus(act[p].to) # NoEvent => eventForStatus(act[p].to) \in Event
      BY DEF eventForStatus, Event
    <2> QED
      BY <1>0, <2>2, <2>3, <2>4, <2>5, EnqueueIsAppend
  <1>4. ASSUME NEW p \in Proc, Fault(p)
        PROVE  Queue!Next \/ (outbox' = outbox /\ Taken' = Taken)
    <2>1. outbox' = outbox /\ (Finish(p) \/ Return(p, FALSE))
      BY <1>4 DEF Fault
    <2>2. CASE Finish(p)
      <3>1. act' = [act EXCEPT ![p] = Idle] /\ Idle.row = 0
        BY <2>2 DEF Finish, Idle
      <3> QED
        BY <1>0, <2>1, <3>1, LostDelivery
    <2>3. CASE Return(p, FALSE)
      BY <1>0, <2>1, <2>3, HandlerHolds
    <2> QED
      BY <2>1, <2>2, <2>3
  <1>5. ASSUME NEW p \in Proc, Crash(p) PROVE Queue!Next
    <2>. DEFINE a == IF p \in Poller THEN [Idle EXCEPT !.pc = "down"] ELSE Idle
    <2>1. act' = [act EXCEPT ![p] = a] /\ outbox' = outbox
      BY <1>5, Zenon DEF Crash
    <2>2. a.row = 0
      BY DEF Idle
    <2>. HIDE DEF a
    <2> QED
      BY <1>0, <2>1, <2>2, LostDelivery
  <1>6. ASSUME NEW p \in Poller, Restart(p) \/ Recovered(p)
        PROVE  outbox' = outbox /\ Taken' = Taken
    <2>1. outbox' = outbox /\ act[p].pc \in {"down", "recover"}
      BY <1>6 DEF Restart, Recovered
    <2>2. act[p].row = 0
      BY <1>a, <1>b, <2>1 DEF Handling
    <2>. DEFINE a == [Idle EXCEPT !.pc = "recover",
                                  !.todo = {<<t, eventForStatus(status[t])>> : t \in Stuck}]
    <2>3. act' = [act EXCEPT ![p] = a] \/ act' = [act EXCEPT ![p] = Idle]
      BY <1>6, Zenon DEF Restart, Recovered, Finish
    <2>4. a.row = 0 /\ Idle.row = 0
      BY DEF Idle
    <2>. HIDE DEF a
    <2> QED
      BY <1>0, <1>a, <2>1, <2>2, <2>3, <2>4, KeepsHold
  <1>7. ASSUME NEW p \in Poller, Recover(p)
        PROVE  Queue!Next \/ (outbox' = outbox /\ Taken' = Taken)
    <2>1. PICK x \in act[p].todo : /\ act' = [act EXCEPT ![p].todo = @ \ {x}]
                                   /\ Enqueue(x[1], x[2]) \/ outbox' = outbox
      BY <1>7 DEF Recover
    <2>. DEFINE a == [act[p] EXCEPT !.todo = @ \ {x}]
    <2>2. act[p] \in Activity
      BY <1>0, <1>a
    <2>3. a.row = act[p].row /\ a.att = act[p].att /\ x[1] \in Transfer /\ x[2] \in Event
      BY <2>2 DEF Activity
    <2>4. act' = [act EXCEPT ![p] = a]
      BY <2>1
    <2>. HIDE DEF a
    <2>5. Taken' = Taken
      BY <1>0, <1>a, <2>3, <2>4, KeepsHold
    <2> QED
      BY <1>0, <2>1, <2>3, <2>5, EnqueueIsAppend
  <1>8. ASSUME NEW h \in Handler, NEW a, act' = [act EXCEPT ![h] = a] PROVE Taken' = Taken
    <2>1. \A q \in Poller : q \in Proc /\ q # h
      BY <1>a, SwitchAssumption
    <2>2. \A q \in Poller : act'[q] = act[q]
      BY <1>0, <1>8, <2>1
    <2> QED
      BY <2>2, SameTaken
  <1>9. ASSUME NEW h \in Handler, NEW t \in Transfer, Create(h, t) PROVE Queue!Next
    <2>1. Enqueue(t, "debit_requested") /\ Taken' = Taken
      BY <1>8, <1>9, Zenon DEF Create, CreatePending
    <2> QED
      BY <1>0, <2>1, EnqueueIsAppend DEF Event
  <1>10. ASSUME NEW h \in Handler, NEW r \in Ref, RailCallback(h, r) \/ CorrectiveReversal(h, r)
         PROVE  outbox' = outbox /\ Taken' = Taken
    BY <1>8, <1>10, Zenon DEF RailCallback, CorrectiveReversal
  <1>11. ASSUME NEW h \in Handler, Requeue(h) PROVE Queue!Next
    <2>1. Enqueue(act[h].t, "reversal") /\ Taken' = Taken
      BY <1>8, <1>11, Zenon DEF Requeue, Finish
    <2>2. act[h].t \in Transfer
      BY <1>0, <1>a, <1>11 DEF Requeue, BusyInv
    <2> QED
      BY <1>0, <2>1, <2>2, EnqueueIsAppend DEF Event
  <1>12. ASSUME UNCHANGED vars \/ \E a \in Account : OpenAccount(a)
         PROVE  outbox' = outbox /\ Taken' = Taken
    BY <1>12 DEF vars, OpenAccount, Taken
  <1>13. ASSUME NEW p \in Poller, NEW e \in DOMAIN outbox, Claim(p, e) PROVE Queue!Next
    BY <1>0, <1>13, ClaimTakes
  <1>14. ASSUME NEW p \in Poller, MarkPublished(p) \/ Fail(p) PROVE Queue!Next
    BY <1>0, <1>14, DeliveryEnds
  <1>15. CASE \E p \in Proc : Drive(p) \/ Fault(p) \/ Crash(p)
    BY <1>1, <1>2, <1>3, <1>4, <1>5, <1>15, SameQueue DEF Drive
  <1>16. CASE \E p \in Poller : Poll(p)
    BY <1>6, <1>7, <1>13, <1>14, <1>16, SameQueue DEF Poll
  <1>17. CASE \E h \in Handler : Request(h)
    BY <1>9, <1>10, <1>11, <1>17, SameQueue DEF Request
  <1> QED
    BY <1>12, <1>15, <1>16, <1>17, SameQueue DEF Next

(* However pollers, crashes and failures interleave, the switch delivers   *)
(* its events by the rules of EventQueue; the poller with its clock,       *)
(* leases and backoffs does so too (QueueKept of OutboxProofs), so both    *)
(* modules speak of one queue (poller.go, outbox.sql).                     *)
THEOREM DeliversByRules == Spec => DeliversByTheQueue
  <1>1. Init => Queue!Init
    <2> SUFFICES ASSUME Init PROVE Queue!Init
      OBVIOUS
    <2>1. DOMAIN outbox = {} /\ \A p \in Poller : act[p].row = 0
      BY DEF Init, Idle, Proc
    <2>2. Marks = [e \in Nat \ {0} |-> "absent"] /\ Attempts = [e \in Nat \ {0} |-> 0]
      BY <2>1 DEF Marks, Attempts
    <2>3. Taken = {}
      BY <2>1, TakenIs
    <2> QED
      BY <2>2, <2>3 DEF Queue!Init
  <1>2. DeliveryInv /\ [Next]_vars => [Queue!Next]_(Queue!vars)
    BY QueueStep
  <1> QED
    BY <1>1, <1>2, DeliveryCorrect, PTL DEF Spec, DeliversByTheQueue, Queue!Spec
=============================================================================

------------------------- MODULE SwitchMoneyProofs -------------------------
(***************************************************************************)
(* The ledger follows the lifecycle, for any number of transfers, pollers, *)
(* request goroutines and faults, as long as references are unique and no  *)
(* source account is opened while its transfer runs.                       *)
(***************************************************************************)
EXTENDS SwitchProofs

(* How a step may change what handlers rely on besides the statuses: no    *)
(* posted leg disappears, and no missing source appears.                   *)
Kept(po, po2, ac, ac2) ==
    /\ \A t \in Transfer, leg \in Leg : po[t][leg] = 1 => po2[t][leg] = 1
    /\ \A t \in Transfer : SourceOf[t] \notin ac => SourceOf[t] \notin ac2

(* Terminal statuses are final.                                            *)
LEMMA TerminalFinal ==
    ASSUME NEW s
    PROVE  /\ isTerminalStatus(s) <=> s \in {"settled", "reversed", "failed", "manual_review"}
           /\ isTerminalStatus(s) => \A to : ~canTransitionStatus(s, to)
  BY Edges DEF isTerminalStatus, Status

(* Progress of others does not invalidate what a handler has established.  *)
LEMMA WorkFrame ==
    ASSUME NEW a, NEW st, NEW st2, NEW po, NEW po2, NEW ac, NEW ac2, NEW ra,
           Moved(st, st2), Kept(po, po2, ac, ac2), WorkOk(a, st, po, ac, ra),
           a.pc \in Handling => a.t \in Transfer
    PROVE  WorkOk(a, st2, po2, ac2, ra)
  <1>1. /\ a.pc = "postSettle" => st2[a.t] \in Reached("debited") /\ ra[RefOf[a.t]] = "success"
        /\ a.pc = "postReversal" => st2[a.t] \in Reached("reversal")
    BY Monotone DEF WorkOk, Handling, Event
  <1>2. ASSUME a.pc = "mark"
        PROVE  /\ a.to = "debited" => po2[a.t]["debit"] = 1
               /\ a.to = "failed" => SourceOf[a.t] \notin ac2
               /\ a.to = "reversal_pending" => ra[RefOf[a.t]] = "declined"
               /\ a.to = "reversed" => po2[a.t]["reversal"] = 1
    BY <1>2 DEF WorkOk, Kept, Handling, Leg
  <1>3. ASSUME a.pc = "mark", a.to = "settled"
        PROVE  po2[a.t]["settle"] = 1 \/ isTerminalStatus(st2[a.t])
    <2>1. a.t \in Transfer /\ (po[a.t]["settle"] = 1 \/ isTerminalStatus(st[a.t]))
      BY <1>3 DEF WorkOk, Handling
    <2>2. isTerminalStatus(st[a.t]) => st2[a.t] = st[a.t]
      BY <2>1, TerminalFinal DEF Moved
    <2> QED
      BY <2>1, <2>2 DEF Kept, Leg
  <1> QED
    BY <1>1, <1>2, <1>3 DEF WorkOk

(* p goes on with an activity that WorkOk accepts.                         *)
Works(p, st, po, ac) ==
    \E a \in Activity : act' = [act EXCEPT ![p] = a] /\ WorkOk(a, st, po, ac, rail)

(* An activity that neither posts a dependent leg nor writes a status has  *)
(* nothing to establish.                                                   *)
LEMMA IdleWorks ==
    ASSUME NEW p \in Proc, NEW st, NEW po, NEW ac,
           NEW a \in Activity, act' = [act EXCEPT ![p] = a],
           a.pc \notin {"postSettle", "postReversal", "mark"}
    PROVE  Works(p, st, po, ac)
  BY DEF Works, WorkOk

(* A handler that is done has nothing to establish (Finish).               *)
LEMMA FinishWorks ==
    ASSUME NEW p \in Proc, NEW st, NEW po, NEW ac, Finish(p)
    PROVE  Works(p, st, po, ac)
  <1>1. Idle \in Activity /\ Idle.pc = "idle"
    BY DEF Idle, Activity, Step
  <1> QED
    BY <1>1, IdleWorks DEF Finish

(* A handler that returns to its poller has nothing to establish (Return). *)
LEMMA ReturnWorks ==
    ASSUME NEW p \in Proc, NEW st, NEW po, NEW ac, NEW ok \in BOOLEAN, Return(p, ok),
           act[p] \in Activity
    PROVE  Works(p, st, po, ac)
  <1>1. CASE act[p].row = 0
    BY <1>1, FinishWorks DEF Return
  <1>2. CASE act[p].row # 0
    <2> DEFINE pc == IF ok THEN "ack" ELSE "nack"
               a == [act[p] EXCEPT !.pc = pc, !.to = "none"]
    <2>1. pc \in {"ack", "nack"}
      OBVIOUS
    <2> HIDE DEF pc
    <2>2. a \in Activity /\ a.pc = pc
      BY <2>1 DEF Activity, Step
    <2>3. act' = [act EXCEPT ![p] = a]
      BY <1>2 DEF Return, pc
    <2> HIDE DEF a
    <2> QED
      BY <2>1, <2>2, <2>3, IdleWorks
  <1> QED
    BY <1>1, <1>2

(* A handler goes on to post a leg: the settlement leg only for a debited  *)
(* transfer the rail settled, the reversal only for one whose reversal is  *)
(* due (Goto).                                                             *)
LEMMA GotoWorks ==
    ASSUME NEW p \in Proc, NEW st, NEW po, NEW ac, NEW pc \in Step \ {"mark"}, Goto(p, pc),
           act[p] \in Activity,
           pc = "postSettle" => /\ st[act[p].t] \in Reached("debited")
                                /\ rail[RefOf[act[p].t]] = "success",
           pc = "postReversal" => st[act[p].t] \in Reached("reversal")
    PROVE  Works(p, st, po, ac)
  <1> DEFINE a == [act[p] EXCEPT !.pc = pc]
  <1>1. a \in Activity /\ a.pc = pc /\ a.t = act[p].t
    BY DEF Activity
  <1>2. act' = [act EXCEPT ![p] = a]
    BY DEF Goto
  <1> HIDE DEF a
  <1>3. WorkOk(a, st, po, ac, rail)
    BY <1>1 DEF WorkOk
  <1> QED
    BY <1>1, <1>2, <1>3 DEF Works

(* A handler goes on to write a status whose ledger leg, or whose verdict  *)
(* of the rail, it has established (GotoMark).                             *)
LEMMA MarkWorks ==
    ASSUME NEW p \in Proc, NEW st, NEW po, NEW ac, NEW to \in Status, GotoMark(p, to),
           act[p] \in Activity,
           to = "debited" => po[act[p].t]["debit"] = 1,
           to = "failed" => SourceOf[act[p].t] \notin ac,
           to = "settled" => po[act[p].t]["settle"] = 1,
           to = "reversal_pending" => rail[RefOf[act[p].t]] = "declined",
           to = "reversed" => po[act[p].t]["reversal"] = 1
    PROVE  Works(p, st, po, ac)
  <1> DEFINE a == [act[p] EXCEPT !.pc = "mark", !.to = to]
  <1>1. a \in Activity /\ a.pc = "mark" /\ a.t = act[p].t /\ a.to = to
    BY DEF Activity, Step
  <1>2. act' = [act EXCEPT ![p] = a]
    BY DEF GotoMark
  <1> HIDE DEF a
  <1>3. WorkOk(a, st, po, ac, rail)
    BY <1>1 DEF WorkOk
  <1> QED
    BY <1>1, <1>2, <1>3 DEF Works

(* MoneyInv holds after a step if DeliveryInv does, the ledger is right,   *)
(* and p's next activity is.                                               *)
LEMMA MoneyFrame ==
    ASSUME MoneyInv, DeliveryInv', LegInv', UNCHANGED rail, NEW p \in Proc,
           Moved(status, status'), Kept(posted, posted', accounts, accounts'),
           Works(p, status', posted', accounts')
    PROVE  MoneyInv'
  <1>1. TypeOK /\ BusyInv /\ WorkInv
    BY DEF MoneyInv, DeliveryInv, TypeInv
  <1>2. PICK a \in Activity : /\ act' = [act EXCEPT ![p] = a]
                              /\ WorkOk(a, status', posted', accounts', rail)
    BY DEF Works
  <1>3. ASSUME NEW q \in Proc PROVE WorkOk(act'[q], status', posted', accounts', rail)
    <2>1. act \in [Proc -> Activity]
      BY <1>1 DEF TypeOK
    <2>2. CASE q = p
      BY <1>2, <2>1, <2>2
    <2>3. CASE q # p
      <3>1. act'[q] = act[q]
        BY <1>2, <2>1, <2>3
      <3>2. WorkOk(act[q], status, posted, accounts, rail) /\ (act[q].pc \in Handling => act[q].t \in Transfer)
        BY <1>1 DEF WorkInv, BusyInv
      <3> QED
        BY <3>1, <3>2, WorkFrame
    <2> QED
      BY <2>2, <2>3
  <1>4. WorkInv'
    BY <1>3 DEF WorkInv
  <1> QED
    BY <1>4 DEF MoneyInv

(* Steps that leave rows, ledger and rail alone.                           *)
LEMMA MoneyQuiet ==
    ASSUME MoneyInv, DeliveryInv', UNCHANGED <<rowVars, ledgerVars, railVars>>, NEW p \in Proc,
           Works(p, status, posted, accounts)
    PROVE  MoneyInv'
  <1>1. /\ status' = status /\ debitLeg' = debitLeg /\ posted' = posted
        /\ accounts' = accounts /\ rail' = rail /\ sent' = sent
    BY DEF rowVars, ledgerVars, railVars
  <1>2. LegInv'
    BY <1>1 DEF MoneyInv, LegInv
  <1>3. Moved(status, status') /\ Kept(posted, posted', accounts, accounts')
    BY <1>1 DEF Moved, Kept
  <1> QED
    BY <1>1, <1>2, <1>3, MoneyFrame
(* Posting a leg makes it posted once and changes no other leg.            *)
LEMMA PostLegEffect ==
    ASSUME TypeOK, LegInv, NEW t \in Transfer, NEW leg \in Leg, PostLeg(t, leg)
    PROVE  /\ posted'[t][leg] = 1
           /\ \A u \in Transfer, l \in Leg : u # t \/ l # leg => posted'[u][l] = posted[u][l]
           /\ \A u \in Transfer, l \in Leg : posted[u][l] = 1 => posted'[u][l] = 1
  <1>1. posted[t][leg] \in {0, 1}
    BY DEF LegInv, LegOk
  <1>2. posted \in [Transfer -> [Leg -> Nat]]
    BY DEF TypeOK
  <1>3. posted' = [posted EXCEPT ![t] = [posted[t] EXCEPT ![leg] = 1]]
    BY <1>1, <1>2 DEF PostLeg
  <1> QED
    BY <1>2, <1>3

(* Every step preserves MoneyInv.                                          *)
LEMMA MoneyStep ==
    ASSUME UniqueRefs, FixedSources
    PROVE  MoneyInv /\ [Next]_vars => MoneyInv'
  <1> SUFFICES ASSUME MoneyInv, [Next]_vars PROVE MoneyInv'
    OBVIOUS
  <1> USE SwitchAssumption
  <1>0. /\ TypeOK /\ BusyInv /\ RowInv /\ ActInv /\ LatestInv /\ LegInv /\ WorkInv
        /\ DeliveryInv'
    BY DeliveryStep DEF MoneyInv, DeliveryInv, TypeInv
  <1>a. \A p \in Proc : /\ act[p] \in Activity /\ ActOk(act[p], status, outbox)
                        /\ WorkOk(act[p], status, posted, accounts, rail)
    BY <1>0 DEF TypeOK, ActInv, WorkInv
  <1>b. \A t \in Transfer : LegOk(t, status, debitLeg, posted, accounts, rail, sent)
    BY <1>0 DEF LegInv
  <1>c. Poller \subseteq Proc /\ Handler \subseteq Proc
    BY DEF Proc
  <1>d. /\ Reached("debited") = {"debited", "settled", "in_doubt", "reversal_pending", "reversed",
                                 "manual_review"}
        /\ Reached("in_doubt") \subseteq Reached("debited")
        /\ Reached("reversal") = {"reversal_pending", "reversed"}
    BY DEF Reached, Status
  <1>e. ASSUME NEW u \in Transfer, LegOk(u, status, debitLeg, posted, accounts, rail, sent),
               status'[u] = status[u], debitLeg'[u] = debitLeg[u],
               \A leg \in Leg : posted'[u][leg] = posted[u][leg],
               accounts' = accounts, rail' = rail, RefOf[u] \in sent' => RefOf[u] \in sent
        PROVE  LegOk(u, status', debitLeg', posted', accounts', rail', sent')
    BY <1>e DEF LegOk, Leg
  <1>f. status' = status => Moved(status, status')
    BY DEF Moved
  <1>g. UNCHANGED ledgerVars => Kept(posted, posted', accounts, accounts')
    BY DEF Kept, ledgerVars
  <1>1. ASSUME NEW h \in Handler, NEW t \in Transfer, Create(h, t) PROVE MoneyInv'
    <2>1. /\ status[t] = "none" /\ status'[t] = "pending"
          /\ \A u \in Transfer : u # t => status'[u] = status[u]
          /\ posted' = posted /\ accounts' = accounts /\ rail' = rail /\ sent' = sent
          /\ debitLeg' = debitLeg
      BY <1>0, <1>1 DEF Create, CreatePending, TypeOK, ledgerVars, railVars, InsertTransfer
    <2>2. LegOk(t, status', debitLeg', posted', accounts', rail', sent')
      BY <1>b, <1>d, <2>1 DEF LegOk, Leg
    <2>3. LegInv'
      BY <1>b, <1>e, <2>1, <2>2 DEF LegInv
    <2>4. Moved(status, status')
      BY <2>1 DEF Moved, Status
    <2> DEFINE a == [Idle EXCEPT !.pc = "load", !.t = t, !.evt = "debit_requested"]
    <2>5. a \in Activity /\ a.pc = "load"
      BY DEF Idle, Activity, Step, Event
    <2>6. Works(h, status', posted', accounts')
      BY <1>c, <1>1, <2>5, IdleWorks DEF Create, CreatePending, InsertTransfer
    <2> QED
      BY <1>0, <1>1, <1>c, <1>g, <2>1, <2>3, <2>4, <2>6, MoneyFrame DEF Create, CreatePending, InsertTransfer
  <1>2. ASSUME NEW h \in Handler, NEW r \in Ref, RailCallback(h, r) PROVE MoneyInv'
    <2> DEFINE t == latest[r]
    <2>1. t \in Transfer /\ RefOf[t] = r
      BY <1>0, <1>2 DEF RailCallback, TypeOK, LatestInv, GetTransferByReference
    <2>2. status[t] \in Reached("debited")
      BY <1>b, <1>2, <2>1 DEF RailCallback, LegOk, GetTransferByReference
    <2> DEFINE a == [Idle EXCEPT !.pc = "postSettle", !.t = t, !.to = "none"]
               b == [Idle EXCEPT !.pc = "mark", !.t = t, !.to = "settled"]
               c == [Idle EXCEPT !.pc = "mark", !.t = t, !.to = "reversal_pending"]
    <2>3. a \in Activity /\ a.pc = "postSettle" /\ a.t = t
      BY <2>1 DEF Idle, Activity, Step
    <2>4. b \in Activity /\ b.pc = "mark" /\ b.t = t /\ b.to = "settled"
      BY <2>1 DEF Idle, Activity, Step, Status
    <2>5. c \in Activity /\ c.pc = "mark" /\ c.t = t /\ c.to = "reversal_pending"
      BY <2>1 DEF Idle, Activity, Step, Status
    <2>6. /\ \/ rail[r] = "success" /\ act' = [act EXCEPT ![h] = a]
             \/ isTerminalStatus(status[t]) /\ act' = [act EXCEPT ![h] = b]
             \/ rail[r] = "declined" /\ act' = [act EXCEPT ![h] = c]
          /\ UNCHANGED <<rowVars, ledgerVars, railVars>>
      BY <1>2 DEF RailCallback, GetTransferByReference
    <2> HIDE DEF a, b, c, t
    <2>7. Works(h, status, posted, accounts)
      BY <2>1, <2>2, <2>3, <2>4, <2>5, <2>6 DEF Works, WorkOk
    <2> QED
      BY <1>0, <1>c, <2>6, <2>7, MoneyQuiet
  <1>3. ASSUME NEW h \in Handler, NEW r \in Ref, CorrectiveReversal(h, r) PROVE MoneyInv'
    <2>1. latest[r] \in Transfer
      BY <1>0, <1>3 DEF CorrectiveReversal, TypeOK, GetTransferByReference
    <2> DEFINE a == [Idle EXCEPT !.pc = "requeue", !.t = latest[r]]
    <2>2. a \in Activity /\ a.pc = "requeue"
      BY <2>1 DEF Idle, Activity, Step
    <2>3. Works(h, status, posted, accounts)
      BY <1>3, <1>c, <2>2, IdleWorks DEF CorrectiveReversal, GetTransferByReference
    <2> QED
      BY <1>0, <1>3, <1>c, <2>3, MoneyQuiet DEF CorrectiveReversal, GetTransferByReference
  <1>4. ASSUME NEW h \in Handler, Requeue(h) PROVE MoneyInv'
    BY <1>0, <1>4, <1>c, FinishWorks, MoneyQuiet DEF Requeue
  <1>5. ASSUME NEW p \in Poller, NEW e \in DOMAIN outbox, Claim(p, e) PROVE MoneyInv'
    <2>1. outbox[e] \in Row /\ e \in Nat
      BY <1>0 DEF TypeOK
    <2> DEFINE a == [Idle EXCEPT !.pc = "load", !.t = outbox[e].t, !.evt = outbox[e].type,
                                 !.row = e, !.att = outbox[e].attempts]
    <2>2. a \in Activity /\ a.pc = "load"
      BY <2>1 DEF Idle, Activity, Step, Row
    <2>3. Works(p, status, posted, accounts)
      BY <1>5, <1>c, <2>2, IdleWorks DEF Claim
    <2> QED
      BY <1>0, <1>5, <1>c, <2>3, MoneyQuiet DEF Claim
  <1>6. ASSUME NEW p \in Poller, MarkPublished(p) PROVE MoneyInv'
    BY <1>0, <1>6, <1>c, FinishWorks, MoneyQuiet DEF MarkPublished
  <1>7. ASSUME NEW p \in Poller, Fail(p) PROVE MoneyInv'
    BY <1>0, <1>7, <1>c, FinishWorks, MoneyQuiet DEF Fail
  <1>8. ASSUME NEW p \in Proc, Load(p) PROVE MoneyInv'
    <2>1. act[p].evt \in Event
      BY <1>0, <1>8 DEF Load, BusyInv
    <2>2. FirstStep(act[p].evt) \in Step \ {"mark", "postSettle"}
      BY <2>1 DEF FirstStep, Event, Step
    <2>3. FirstStep(act[p].evt) = "postReversal" => act[p].evt = "reversal"
      BY <2>1 DEF FirstStep, Event
    <2>4. \/ Goto(p, FirstStep(act[p].evt)) /\ eventForStatus(status[act[p].t]) = act[p].evt
          \/ Return(p, TRUE)
          \/ Return(p, FALSE)
      BY <1>8 DEF Load
    <2>5. ASSUME eventForStatus(status[act[p].t]) = act[p].evt, act[p].evt = "reversal"
          PROVE  status[act[p].t] \in Reached("reversal")
      BY <2>1, <2>5, StatusFacts
    <2>6. Works(p, status, posted, accounts)
      BY <1>a, <2>2, <2>3, <2>4, <2>5, GotoWorks, ReturnWorks
    <2> QED
      BY <1>0, <1>8, <2>6, MoneyQuiet DEF Load
  <1>9. ASSUME NEW p \in Proc, PostDebitLeg(p) PROVE MoneyInv'
    <2> DEFINE t == act[p].t
    <2>1. /\ t \in Transfer /\ act[p].evt = "debit_requested" /\ status[t] # "none"
      <3>1. act[p].evt = "debit_requested" /\ act[p].evt # NoEvent
        BY <1>a, <1>9 DEF PostDebitLeg, ActOk, NoEvent
      <3>2. t \in Transfer /\ status[t] \in Reached("debit_requested")
        BY <1>a, <3>1 DEF ActOk
      <3> QED
        BY <3>1, <3>2 DEF Reached, Status
    <2>2. /\ status' = status /\ debitLeg' = debitLeg /\ accounts' = accounts
          /\ rail' = rail /\ sent' = sent
      BY <1>9 DEF PostDebitLeg, rowVars, railVars
    <2>3. CASE SourceOf[t] \in accounts
      <3>1. PostLeg(t, "debit") /\ (GotoMark(p, "debited") \/ Return(p, FALSE))
        BY <1>9, <2>3 DEF PostDebitLeg, Replied
      <3>2. /\ posted'[t]["debit"] = 1
            /\ \A u \in Transfer, l \in Leg : u # t \/ l # "debit" => posted'[u][l] = posted[u][l]
            /\ \A u \in Transfer, l \in Leg : posted[u][l] = 1 => posted'[u][l] = 1
        BY <1>0, <2>1, <3>1, PostLegEffect DEF Leg
      <3>3. LegOk(t, status', debitLeg', posted', accounts', rail', sent')
        BY <1>b, <1>d, <2>1, <2>2, <2>3, <3>2 DEF LegOk, Leg
      <3>4. \A u \in Transfer : u # t => LegOk(u, status', debitLeg', posted', accounts', rail', sent')
        BY <1>b, <1>e, <2>2, <3>2
      <3>5. LegInv'
        BY <3>3, <3>4 DEF LegInv
      <3>6. Works(p, status', posted', accounts')
        BY <1>a, <3>1, <3>2, MarkWorks, ReturnWorks DEF Status
      <3>7. Kept(posted, posted', accounts, accounts')
        BY <2>2, <3>2 DEF Kept
      <3> QED
        BY <1>0, <1>f, <2>2, <3>5, <3>6, <3>7, MoneyFrame
    <2>4. CASE SourceOf[t] \notin accounts
      <3>1. GotoMark(p, "failed") /\ posted' = posted
        BY <1>9, <2>4 DEF PostDebitLeg
      <3>2. Works(p, status, posted, accounts)
        BY <1>a, <2>4, <3>1, MarkWorks DEF Status
      <3> QED
        BY <1>0, <1>9, <2>2, <3>1, <3>2, MoneyQuiet DEF PostDebitLeg, ledgerVars
    <2> QED
      BY <2>3, <2>4
  <1>h. ASSUME NEW p \in Proc, OnVerdict(p, rail[RefOf[act[p].t]]),
               status[act[p].t] \in Reached("debited")
        PROVE  Works(p, status, posted, accounts)
    BY <1>a, <1>h, GotoWorks, MarkWorks DEF OnVerdict, Step, Status
  <1>10. ASSUME NEW p \in Proc, Send(p) PROVE MoneyInv'
    <2> DEFINE t == act[p].t
    <2>1. t \in Transfer /\ status[t] \in Reached("debited")
      <3>1. act[p].evt = "debited" /\ act[p].evt # NoEvent
        BY <1>a, <1>10 DEF Send, ActOk, NoEvent, SendToRail
      <3> QED
        BY <1>a, <3>1 DEF ActOk
    <2>2. /\ status' = status /\ debitLeg' = debitLeg /\ accounts' = accounts
          /\ rail' = rail /\ posted' = posted /\ sent' \subseteq sent \cup {RefOf[t]}
      BY <1>10 DEF Send, rowVars, ledgerVars, SendToRail
    <2>3. OnVerdict(p, rail[RefOf[act[p].t]]) \/ GotoMark(p, "in_doubt") \/ Return(p, FALSE)
      BY <1>10 DEF Send, SendToRail
    <2>4. LegOk(t, status', debitLeg', posted', accounts', rail', sent')
      BY <1>b, <2>1, <2>2 DEF LegOk
    <2>5. \A u \in Transfer : u # t => RefOf[u] # RefOf[t]
      BY <2>1 DEF UniqueRefs
    <2>6. \A u \in Transfer : u # t => LegOk(u, status', debitLeg', posted', accounts', rail', sent')
      BY <1>b, <1>e, <2>2, <2>5
    <2>7. LegInv'
      BY <2>4, <2>6 DEF LegInv
    <2>8. Works(p, status', posted', accounts')
      BY <1>a, <1>h, <2>1, <2>2, <2>3, MarkWorks, ReturnWorks DEF Status
    <2> QED
      BY <1>0, <1>f, <1>g, <2>2, <2>7, <2>8, MoneyFrame DEF ledgerVars
  <1>11. ASSUME NEW p \in Proc, QueryStatus(p) PROVE MoneyInv'
    <2>1. status[act[p].t] \in Reached("debited")
      <3>1. act[p].evt = "in_doubt" /\ act[p].evt # NoEvent
        BY <1>a, <1>11 DEF QueryStatus, ActOk, NoEvent
      <3> QED
        BY <1>a, <1>d, <3>1 DEF ActOk
    <2>2. OnVerdict(p, rail[RefOf[act[p].t]]) \/ GotoMark(p, "manual_review")
      BY <1>11 DEF QueryStatus
    <2>3. Works(p, status, posted, accounts)
      BY <1>a, <1>h, <2>1, <2>2, MarkWorks DEF Status
    <2> QED
      BY <1>0, <1>11, <2>3, MoneyQuiet DEF QueryStatus
  <1>12. ASSUME NEW p \in Proc, PostSettlementLeg(p) PROVE MoneyInv'
    <2> DEFINE t == act[p].t
    <2>1. /\ t \in Transfer /\ status[t] \in Reached("debited") /\ rail[RefOf[t]] = "success"
      BY <1>0, <1>a, <1>12 DEF PostSettlementLeg, BusyInv, Handling, WorkOk
    <2>2. /\ status' = status /\ debitLeg' = debitLeg /\ accounts' = accounts
          /\ rail' = rail /\ sent' = sent
      BY <1>12 DEF PostSettlementLeg, rowVars, railVars
    <2>3. CASE DestOf[t] \in accounts
      <3>1. PostLeg(t, "settle") /\ (GotoMark(p, "settled") \/ Return(p, FALSE))
        BY <1>12, <2>3 DEF PostSettlementLeg, Replied
      <3>2. /\ posted'[t]["settle"] = 1
            /\ \A u \in Transfer, l \in Leg : u # t \/ l # "settle" => posted'[u][l] = posted[u][l]
            /\ \A u \in Transfer, l \in Leg : posted[u][l] = 1 => posted'[u][l] = 1
        BY <1>0, <2>1, <3>1, PostLegEffect DEF Leg
      <3>3. LegOk(t, status', debitLeg', posted', accounts', rail', sent')
        BY <1>b, <1>d, <2>1, <2>2, <3>2 DEF LegOk, Leg
      <3>4. \A u \in Transfer : u # t => LegOk(u, status', debitLeg', posted', accounts', rail', sent')
        BY <1>b, <1>e, <2>2, <3>2
      <3>5. LegInv'
        BY <3>3, <3>4 DEF LegInv
      <3>6. Works(p, status', posted', accounts')
        BY <1>a, <3>1, <3>2, MarkWorks, ReturnWorks DEF Status
      <3>7. Kept(posted, posted', accounts, accounts')
        BY <2>2, <3>2 DEF Kept
      <3> QED
        BY <1>0, <1>f, <2>2, <3>5, <3>6, <3>7, MoneyFrame
    <2>4. CASE DestOf[t] \notin accounts
      <3>1. Return(p, FALSE) /\ posted' = posted
        BY <1>12, <2>4 DEF PostSettlementLeg
      <3>2. Works(p, status, posted, accounts)
        BY <1>a, <3>1, ReturnWorks
      <3> QED
        BY <1>0, <1>12, <2>2, <3>1, <3>2, MoneyQuiet DEF PostSettlementLeg, ledgerVars
    <2> QED
      BY <2>3, <2>4
  <1>13. ASSUME NEW p \in Proc, PostReversal(p) PROVE MoneyInv'
    <2> DEFINE t == act[p].t
    <2>1. /\ t \in Transfer /\ status[t] \in Reached("reversal")
      BY <1>0, <1>a, <1>13 DEF PostReversal, BusyInv, Handling, WorkOk
    <2>2. /\ status' = status /\ debitLeg' = debitLeg /\ accounts' = accounts
          /\ rail' = rail /\ sent' = sent
      BY <1>13 DEF PostReversal, rowVars, railVars
    <2>3. PostLeg(t, "reversal") /\ (GotoMark(p, "reversed") \/ Return(p, FALSE))
      BY <1>13 DEF PostReversal, Replied
    <2>4. /\ posted'[t]["reversal"] = 1
          /\ \A u \in Transfer, l \in Leg : u # t \/ l # "reversal" => posted'[u][l] = posted[u][l]
          /\ \A u \in Transfer, l \in Leg : posted[u][l] = 1 => posted'[u][l] = 1
      BY <1>0, <2>1, <2>3, PostLegEffect DEF Leg
    <2>5. LegOk(t, status', debitLeg', posted', accounts', rail', sent')
      BY <1>b, <1>d, <2>1, <2>2, <2>4 DEF LegOk, Leg
    <2>6. \A u \in Transfer : u # t => LegOk(u, status', debitLeg', posted', accounts', rail', sent')
      BY <1>b, <1>e, <2>2, <2>4
    <2>7. LegInv'
      BY <2>5, <2>6 DEF LegInv
    <2>8. Works(p, status', posted', accounts')
      BY <1>a, <2>3, <2>4, MarkWorks, ReturnWorks DEF Status
    <2>9. Kept(posted, posted', accounts, accounts')
      BY <2>2, <2>4 DEF Kept
    <2> QED
      BY <1>0, <1>f, <2>2, <2>7, <2>8, <2>9, MoneyFrame
  <1>14. ASSUME NEW p \in Proc, Advance(p) PROVE MoneyInv'
    <2> DEFINE t == act[p].t
               to == act[p].to
    <2>1. /\ t \in Transfer
          /\ posted' = posted /\ accounts' = accounts /\ rail' = rail /\ sent' = sent
          /\ Return(p, TRUE) \/ Return(p, FALSE)
      BY <1>0, <1>14 DEF Advance, BusyInv, Handling, ledgerVars, railVars, Replied, SetTransferStatus, SetDebitLeg
    <2>2. Works(p, status', posted', accounts')
      BY <1>a, <2>1, ReturnWorks
    <2>3. CASE canTransitionStatus(status[t], to)
      <3>1. /\ status'[t] = to /\ debitLeg'[t] = (debitLeg[t] \/ to = "debited")
            /\ \A u \in Transfer : u # t => status'[u] = status[u] /\ debitLeg'[u] = debitLeg[u]
        BY <1>0, <1>14, <2>1, <2>3 DEF Advance, TypeOK, SetTransferStatus, SetDebitLeg
      <3>2. Moved(status, status')
        BY <2>3, <3>1 DEF Moved
      <3>3. /\ to = "debited" => posted[t]["debit"] = 1
            /\ to = "failed" => SourceOf[t] \notin accounts
            /\ to = "settled" => posted[t]["settle"] = 1
            /\ to = "reversal_pending" => rail[RefOf[t]] = "declined"
            /\ to = "reversed" => posted[t]["reversal"] = 1
        BY <1>a, <1>14, <2>3, TerminalFinal DEF Advance, WorkOk, SetTransferStatus, SetDebitLeg
      <3>4. LegOk(t, status', debitLeg', posted', accounts', rail', sent')
        <4> HIDE DEF t, to
        <4>1. LegOk(t, status, debitLeg, posted, accounts, rail, sent)
          BY <1>b, <2>1
        <4>2. \/ status[t] = "pending" /\ to \in {"debited", "failed"}
              \/ status[t] = "debited" /\ to \in {"settled", "in_doubt", "reversal_pending"}
              \/ status[t] = "in_doubt" /\ to \in {"settled", "reversal_pending", "manual_review"}
              \/ status[t] = "reversal_pending" /\ to = "reversed"
          BY <2>3, Edges
        <4> QED
          BY <1>d, <2>1, <3>1, <3>3, <4>1, <4>2 DEF LegOk, Leg
      <3>5. LegInv'
        BY <1>b, <1>e, <2>1, <3>1, <3>4 DEF LegInv
      <3> QED
        BY <1>0, <1>g, <2>1, <2>2, <3>2, <3>5, MoneyFrame DEF ledgerVars
    <2>4. CASE ~canTransitionStatus(status[t], to)
      <3>1. status' = status /\ debitLeg' = debitLeg
        BY <1>14, <2>4 DEF Advance, SetTransferStatus, SetDebitLeg
      <3>2. LegInv'
        BY <1>b, <1>e, <2>1, <3>1 DEF LegInv
      <3> QED
        BY <1>0, <1>f, <1>g, <2>1, <2>2, <3>1, <3>2, MoneyFrame DEF ledgerVars
    <2> QED
      BY <2>3, <2>4
  <1>15. ASSUME NEW p \in Proc, Fault(p) PROVE MoneyInv'
    BY <1>0, <1>a, <1>15, FinishWorks, ReturnWorks, MoneyQuiet DEF Fault
  <1>16. ASSUME NEW p \in Proc, Crash(p) PROVE MoneyInv'
    <2>1. /\ Idle \in Activity /\ Idle.pc = "idle"
          /\ [Idle EXCEPT !.pc = "down"] \in Activity /\ [Idle EXCEPT !.pc = "down"].pc = "down"
      BY DEF Idle, Activity, Step
    <2>2. Works(p, status, posted, accounts)
      BY <1>16, <2>1, IdleWorks DEF Crash
    <2> QED
      BY <1>0, <1>16, <2>2, MoneyQuiet DEF Crash
  <1>17. ASSUME NEW p \in Poller, Restart(p) PROVE MoneyInv'
    <2> DEFINE todo == {<<t, eventForStatus(status[t])>> : t \in Stuck}
               a == [Idle EXCEPT !.pc = "recover", !.todo = todo]
    <2>1. todo \in SUBSET (Transfer \X Event)
      BY EventOfStatus DEF Stuck
    <2>2. a \in Activity /\ a.pc = "recover"
      BY <2>1 DEF Idle, Activity, Step
    <2>3. Works(p, status, posted, accounts)
      BY <1>17, <1>c, <2>2, IdleWorks, FinishWorks DEF Restart
    <2> QED
      BY <1>0, <1>17, <1>c, <2>3, MoneyQuiet DEF Restart
  <1>18. ASSUME NEW p \in Poller, Recover(p) PROVE MoneyInv'
    <2>1. PICK x \in act[p].todo : act' = [act EXCEPT ![p].todo = @ \ {x}]
      BY <1>18 DEF Recover
    <2> DEFINE a == [act[p] EXCEPT !.todo = act[p].todo \ {x}]
    <2>2. a \in Activity /\ a.pc = "recover"
      BY <1>a, <1>c, <1>18 DEF Activity, Recover
    <2>3. act' = [act EXCEPT ![p] = a]
      BY <2>1
    <2>4. Works(p, status, posted, accounts)
      BY <1>c, <2>2, <2>3, IdleWorks
    <2> QED
      BY <1>0, <1>18, <1>c, <2>4, MoneyQuiet DEF Recover
  <1>19. ASSUME NEW p \in Poller, Recovered(p) PROVE MoneyInv'
    BY <1>0, <1>19, <1>c, FinishWorks, MoneyQuiet DEF Recovered
  <1>20. ASSUME NEW b \in Account, OpenAccount(b) PROVE MoneyInv'
    <2>1. /\ b \in OpenableAccounts /\ accounts' = accounts \cup {b}
          /\ status' = status /\ debitLeg' = debitLeg /\ posted' = posted
          /\ rail' = rail /\ sent' = sent /\ act' = act
      BY <1>20 DEF OpenAccount, rowVars, railVars
    <2>2. \A t \in Transfer : SourceOf[t] \notin accounts => SourceOf[t] \notin accounts'
      BY <2>1 DEF FixedSources
    <2>3. LegInv'
      BY <1>b, <2>1, <2>2 DEF LegInv, LegOk
    <2>4. Moved(status, status') /\ Kept(posted, posted', accounts, accounts')
      BY <1>f, <2>1, <2>2 DEF Kept
    <2>5. \A q \in Proc : WorkOk(act[q], status', posted', accounts', rail)
      BY <1>0, <1>a, <2>4, WorkFrame DEF BusyInv
    <2>6. WorkInv'
      BY <2>1, <2>5 DEF WorkInv
    <2> QED
      BY <1>0, <2>3, <2>6 DEF MoneyInv
  <1>21. CASE UNCHANGED vars
    <2>1. LegInv' /\ WorkInv'
      BY <1>0, <1>21 DEF vars, LegInv, WorkInv
    <2> QED
      BY <1>0, <2>1 DEF MoneyInv
  <1> QED
    BY <1>1, <1>2, <1>3, <1>4, <1>5, <1>6, <1>7, <1>8, <1>9, <1>10, <1>11, <1>12, <1>13,
       <1>14, <1>15, <1>16, <1>17, <1>18, <1>19, <1>20, <1>21
    DEF Next, Drive, Poll, Request

(* The initial state satisfies the inductive invariant of the ledger       *)
(* properties.                                                             *)
LEMMA MoneyInit == Init => MoneyInv
  <1> SUFFICES ASSUME Init PROVE MoneyInv
    OBVIOUS
  <1>1. DeliveryInv
    BY DeliveryInit
  <1>2. LegInv
    BY DEF Init, LegInv, LegOk, Leg, Reached, Status
  <1>3. WorkInv
    BY DEF Init, WorkInv, WorkOk, Idle
  <1> QED
    BY <1>1, <1>2, <1>3 DEF MoneyInv

(* What MoneyInv says of a state.                                          *)
LEMMA MoneyMeaning ==
    ASSUME MoneyInv
    PROVE  /\ OutcomeMatchesLedger /\ SuspenseNeverOverdrawn
           /\ FollowsRail /\ ReversalHasParent
  <1>1. ASSUME NEW t \in Transfer
        PROVE  /\ LegOk(t, status, debitLeg, posted, accounts, rail, sent)
               /\ posted[t] \in [Leg -> Nat]
    BY DEF MoneyInv, LegInv, DeliveryInv, TypeInv, TypeOK
  <1>2. ASSUME NEW t \in Transfer, NEW d, NEW s, NEW r, posted[t]["debit"] = d,
               posted[t]["settle"] = s, posted[t]["reversal"] = r
        PROVE  posted[t] = Legs(d, s, r)
    <2>1. posted[t] \in [{"debit", "settle", "reversal"} -> Nat]
      BY <1>1 DEF Leg
    <2> QED
      BY <1>2, <2>1 DEF Legs
  <1>3. ReversalHasParent /\ SuspenseNeverOverdrawn /\ FollowsRail
    BY <1>1 DEF ReversalHasParent, SuspenseNeverOverdrawn, FollowsRail, LegOk, Leg, Reached, Status
  <1>4. ASSUME NEW t \in Transfer
        PROVE  /\ posted[t]["debit"] \in {0, 1} /\ posted[t]["settle"] \in {0, 1}
               /\ posted[t]["reversal"] \in {0, 1}
               /\ status[t] = "settled" =>
                     posted[t]["debit"] = 1 /\ posted[t]["settle"] = 1 /\ posted[t]["reversal"] = 0
               /\ status[t] = "reversed" =>
                     posted[t]["debit"] = 1 /\ posted[t]["settle"] = 0 /\ posted[t]["reversal"] = 1
               /\ status[t] = "failed" =>
                     posted[t]["debit"] = 0 /\ posted[t]["settle"] = 0 /\ posted[t]["reversal"] = 0
               /\ status[t] = "manual_review" => posted[t]["debit"] = 1 /\ posted[t]["reversal"] = 0
    BY <1>1 DEF LegOk, Leg, Reached, Status
  <1>5. OutcomeMatchesLedger
    BY <1>2, <1>4 DEF OutcomeMatchesLedger
  <1> QED
    BY <1>3, <1>5

(* Statuses, legs, verdicts and what the running handlers know always      *)
(* agree (driver.go handlers, store.go advance).                           *)
THEOREM MoneyAgrees ==
    ASSUME UniqueRefs, FixedSources
    PROVE  Spec => []MoneyInv
  <1>1. MoneyInv /\ [Next]_vars => MoneyInv'
    BY MoneyStep
  <1> QED
    BY <1>1, MoneyInit, PTL DEF Spec

(* The outcome a transfer reports is what the ledger did, and every        *)
(* reversal has its parent (driver.go handlers, store.go advance).         *)
THEOREM MoneyCorrect ==
    ASSUME UniqueRefs, FixedSources
    PROVE  Spec => [](OutcomeMatchesLedger /\ ReversalHasParent)
  <1>1. MoneyInv => OutcomeMatchesLedger /\ ReversalHasParent
    BY MoneyMeaning
  <1> QED
    BY <1>1, MoneyAgrees, PTL

(* Money leaves suspense at most once per transfer and never before the    *)
(* debit, however often legs are posted again (ledgerclient.go).           *)
THEOREM SuspenseSafe ==
    ASSUME UniqueRefs, FixedSources
    PROVE  Spec => []SuspenseNeverOverdrawn
  <1>1. MoneyInv => SuspenseNeverOverdrawn
    BY MoneyMeaning
  <1> QED
    BY <1>1, MoneyAgrees, PTL

(* No leg goes against the rail's verdict, whatever answers were lost,     *)
(* late or repeated (driver.go handleDebited, handleInDoubt).              *)
THEOREM RailFollowed ==
    ASSUME UniqueRefs, FixedSources
    PROVE  Spec => []FollowsRail
  <1>1. MoneyInv => FollowsRail
    BY MoneyMeaning
  <1> QED
    BY <1>1, MoneyAgrees, PTL
-----------------------------------------------------------------------------
(* Posting a leg that is already there changes nothing.                    *)
LEMMA PostLegAgain ==
    ASSUME TypeOK, NEW t \in Transfer, NEW leg \in Leg, posted[t][leg] = 1, PostLeg(t, leg)
    PROVE  posted' = posted
  <1>1. posted \in [Transfer -> [Leg -> Nat]]
    BY DEF TypeOK
  <1>2. posted' = [posted EXCEPT ![t] = [posted[t] EXCEPT ![leg] = 1]]
    BY <1>1 DEF PostLeg
  <1>3. [posted[t] EXCEPT ![leg] = 1] = posted[t]
    BY <1>1
  <1> QED
    BY <1>1, <1>2, <1>3

(* Only the three handlers' posting steps change the ledger, and they      *)
(* change no status; only Create and Advance change one.                   *)
LEMMA MoneyMoves ==
    ASSUME [Next]_vars
    PROVE  /\ rail' = rail
           /\ \/ /\ \E p \in Proc : PostDebitLeg(p) \/ PostSettlementLeg(p) \/ PostReversal(p)
                 /\ UNCHANGED status
              \/ /\ \/ \E p \in Proc : Advance(p)
                    \/ \E h \in Handler, t \in Transfer : Create(h, t)
                 /\ UNCHANGED posted
              \/ UNCHANGED <<status, posted>>
  <1>1. ASSUME NEW p \in Proc,
               Load(p) \/ Send(p) \/ QueryStatus(p) \/ Fault(p) \/ Crash(p)
        PROVE  UNCHANGED <<status, posted, rail>>
    BY <1>1 DEF Load, Send, QueryStatus, Fault, Crash, rowVars, ledgerVars, railVars
  <1>2. ASSUME NEW p \in Proc, Advance(p) PROVE UNCHANGED <<posted, rail>>
    BY <1>2 DEF Advance, ledgerVars, railVars
  <1>3. ASSUME NEW p \in Proc, PostDebitLeg(p) \/ PostSettlementLeg(p) \/ PostReversal(p)
        PROVE  UNCHANGED <<status, rail>>
    BY <1>3 DEF PostDebitLeg, PostSettlementLeg, PostReversal, rowVars, railVars
  <1>4. ASSUME NEW p \in Poller, Poll(p) PROVE UNCHANGED <<status, posted, rail>>
    BY <1>4 DEF Poll, Claim, MarkPublished, Fail, Restart, Recover, Recovered, rowVars,
                ledgerVars, railVars
  <1>5. ASSUME NEW h \in Handler, NEW t \in Transfer, Create(h, t)
        PROVE  UNCHANGED <<posted, rail>>
    BY <1>5 DEF Create, ledgerVars, railVars
  <1>6. ASSUME NEW h \in Handler,
               Requeue(h) \/ \E r \in Ref : RailCallback(h, r) \/ CorrectiveReversal(h, r)
        PROVE  UNCHANGED <<status, posted, rail>>
    BY <1>6 DEF RailCallback, CorrectiveReversal, Requeue, rowVars, ledgerVars, railVars
  <1>7. ASSUME NEW a \in Account, OpenAccount(a) PROVE UNCHANGED <<status, posted, rail>>
    BY <1>7 DEF OpenAccount, rowVars, railVars
  <1>8. CASE UNCHANGED vars
    BY <1>8 DEF vars
  <1> QED
    BY <1>1, <1>2, <1>3, <1>4, <1>5, <1>6, <1>7, <1>8 DEF Next, Drive, Request

(* A handler that is late for an outcome finds its leg posted, or is       *)
(* stopped by the account it needs.                                        *)
LEMMA QuietAfterOutcome ==
    ASSUME MoneyInv, [Next]_vars, NEW u \in Transfer,
           status[u] \in {"settled", "reversed", "failed"}
    PROVE  posted'[u] = posted[u]
  <1>0. TypeOK /\ BusyInv /\ ActInv /\ LegInv /\ WorkInv
    BY DEF MoneyInv, DeliveryInv, TypeInv
  <1>a. LegOk(u, status, debitLeg, posted, accounts, rail, sent)
    BY <1>0 DEF LegInv
  <1>b. ASSUME NEW p \in Proc, NEW leg \in Leg, act[p].t \in Transfer,
               PostLeg(act[p].t, leg), act[p].t = u => posted[u][leg] = 1
        PROVE  posted'[u] = posted[u]
    <2>1. CASE act[p].t = u
      BY <1>0, <1>b, <2>1, PostLegAgain
    <2>2. CASE act[p].t # u
      BY <1>0, <1>b, <2>2 DEF PostLeg, TypeOK
    <2> QED
      BY <2>1, <2>2
  <1>1. ASSUME NEW p \in Proc, PostDebitLeg(p) PROVE posted'[u] = posted[u]
    <2>1. act[p].t \in Transfer
      BY <1>0, <1>1 DEF PostDebitLeg, BusyInv, Handling
    <2>2. posted' = posted \/ (PostLeg(act[p].t, "debit") /\ SourceOf[act[p].t] \in accounts)
      BY <1>1 DEF PostDebitLeg
    <2>3. SourceOf[u] \in accounts => posted[u]["debit"] = 1
      BY <1>a DEF LegOk, Reached, Status
    <2> QED
      BY <1>b, <2>1, <2>2, <2>3 DEF Leg
  <1>2. ASSUME NEW p \in Proc, PostSettlementLeg(p) PROVE posted'[u] = posted[u]
    <2>1. act[p].t \in Transfer
      BY <1>0, <1>2 DEF PostSettlementLeg, BusyInv, Handling
    <2>2. posted' = posted \/ PostLeg(act[p].t, "settle")
      BY <1>2 DEF PostSettlementLeg
    <2>3. act[p].t = u => status[u] \in Reached("debited") /\ rail[RefOf[u]] = "success"
      BY <1>0, <1>2 DEF PostSettlementLeg, WorkInv, WorkOk
    <2>4. act[p].t = u => posted[u]["settle"] = 1
      BY <1>a, <2>3 DEF LegOk, Reached, Status
    <2> QED
      BY <1>b, <2>1, <2>2, <2>4 DEF Leg
  <1>3. ASSUME NEW p \in Proc, PostReversal(p) PROVE posted'[u] = posted[u]
    <2>1. act[p].t \in Transfer
      BY <1>0, <1>3 DEF PostReversal, BusyInv, Handling
    <2>2. PostLeg(act[p].t, "reversal")
      BY <1>3 DEF PostReversal
    <2>3. act[p].t = u => status[u] \in Reached("reversal")
      BY <1>0, <1>3 DEF PostReversal, WorkInv, WorkOk
    <2>4. act[p].t = u => posted[u]["reversal"] = 1
      BY <1>a, <2>3 DEF LegOk, Reached
    <2> QED
      BY <1>b, <2>1, <2>2, <2>4 DEF Leg
  <1>4. CASE UNCHANGED posted
    BY <1>4
  <1>5. \/ \E p \in Proc : PostDebitLeg(p) \/ PostSettlementLeg(p) \/ PostReversal(p)
        \/ UNCHANGED posted
    BY MoneyMoves
  <1> QED
    BY <1>1, <1>2, <1>3, <1>4, <1>5

(* Once a transfer is settled, reversed or failed its ledger legs never    *)
(* change again, however late a handler runs (driver.go, ledgerclient.go). *)
THEOREM QuietLedger ==
    ASSUME UniqueRefs, FixedSources
    PROVE  Spec => LedgerQuietAfterOutcome
  <1>1. MoneyInv /\ [Next]_vars => MoneyInv'
    BY MoneyStep
  <1>2. MoneyInv /\ [Next]_vars =>
          [\A t \in Transfer :
             status[t] \in {"settled", "reversed", "failed"} => posted'[t] = posted[t]]_vars
    BY QuietAfterOutcome
  <1> QED
    BY <1>1, <1>2, MoneyInit, PTL DEF Spec, LedgerQuietAfterOutcome
-----------------------------------------------------------------------------
(* Where the money of a transfer is, as MoneyInv knows it.                 *)
LEMMA WhereMoneyIs ==
    ASSUME MoneyInv, NEW t \in Transfer
    PROVE  /\ posted[t]["debit"] = 0 <=> MoneyOf(t) = "source"
           /\ posted[t]["settle"] = 1 <=> MoneyOf(t) = "destination"
           /\ posted[t]["reversal"] = 1 <=> MoneyOf(t) = "refunded"
           /\ (posted[t]["debit"] = 1 /\ posted[t]["settle"] = 0 /\ posted[t]["reversal"] = 0)
                 <=> MoneyOf(t) = "suspense"
           /\ \A leg \in Leg : posted[t][leg] \in {0, 1}
  <1>1. LegOk(t, status, debitLeg, posted, accounts, rail, sent)
    BY DEF MoneyInv, LegInv
  <1> QED
    BY <1>1 DEF LegOk, MoneyOf, Leg

(* Where the money is depends on the legs only.                            *)
LEMMA SameMoney ==
    ASSUME NEW t \in Transfer, posted'[t] = posted[t]
    PROVE  MoneyOf(t)' = MoneyOf(t)
  BY DEF MoneyOf

(* What is reported depends on the status only.                            *)
LEMMA SameReport ==
    ASSUME NEW t \in Transfer, status'[t] = status[t]
    PROVE  ReportOf(t)' = ReportOf(t)
  BY DEF ReportOf

(* A step that moves the money of one transfer as TransferSpec allows.     *)
LEMMA PromiseMoves ==
    ASSUME NEW t \in Transfer, rail' = rail, status' = status,
           \A u \in Transfer : u # t => posted'[u] = posted[u],
           \/ ReportOf(t) = "open" /\ MoneyOf(t) = "source" /\ MoneyOf(t)' = "suspense"
           \/ /\ ReportOf(t) \in {"open", "review"} /\ MoneyOf(t) = "suspense"
              /\ rail[RefOf[t]] = "success" /\ MoneyOf(t)' = "destination"
           \/ /\ ReportOf(t) = "open" /\ MoneyOf(t) = "suspense"
              /\ rail[RefOf[t]] = "declined" /\ MoneyOf(t)' = "refunded"
    PROVE  Promise!Next
  <1> DEFINE m == [u \in Transfer |-> MoneyOf(u)]
             r == [u \in Transfer |-> ReportOf(u)]
  <1>1. r' = r
    BY SameReport
  <1>2. m' = [m EXCEPT ![t] = MoneyOf(t)']
    <2>1. \A u \in Transfer : u # t => MoneyOf(u)' = MoneyOf(u)
      BY SameMoney
    <2> QED
      BY <2>1
  <1>3. m[t] = MoneyOf(t) /\ r[t] = ReportOf(t)
    OBVIOUS
  <1>4. Promise!Hold(t) \/ Promise!Pay(t) \/ Promise!Refund(t)
    BY <1>1, <1>2, <1>3 DEF Promise!Hold, Promise!Pay, Promise!Refund
  <1>5. [u \in Transfer |-> rail[RefOf[u]]]' = [u \in Transfer |-> rail[RefOf[u]]]
    OBVIOUS
  <1> QED
    BY <1>4, <1>5 DEF Promise!Next

(* A step that changes the report on one transfer as TransferSpec allows.  *)
LEMMA PromiseReports ==
    ASSUME NEW t \in Transfer, rail' = rail, posted' = posted,
           \A u \in Transfer : u # t => status'[u] = status[u],
           \/ ReportOf(t) = "none" /\ ReportOf(t)' = "open"
           \/ ReportOf(t) = "open" /\ ReportOf(t)' \in Promise!TrueReports(MoneyOf(t))
    PROVE  Promise!Next
  <1> DEFINE m == [u \in Transfer |-> MoneyOf(u)]
             r == [u \in Transfer |-> ReportOf(u)]
  <1>1. m' = m
    BY SameMoney
  <1>2. r' = [r EXCEPT ![t] = ReportOf(t)']
    <2>1. \A u \in Transfer : u # t => ReportOf(u)' = ReportOf(u)
      BY SameReport
    <2> QED
      BY <2>1
  <1>3. m[t] = MoneyOf(t) /\ r[t] = ReportOf(t)
    OBVIOUS
  <1>4. Promise!Accept(t) \/ Promise!Report(t)
    BY <1>1, <1>2, <1>3 DEF Promise!Accept, Promise!Report
  <1>5. [u \in Transfer |-> rail[RefOf[u]]]' = [u \in Transfer |-> rail[RefOf[u]]]
    OBVIOUS
  <1> QED
    BY <1>4, <1>5 DEF Promise!Next

(* A step that changes neither legs nor statuses is a stutter.             *)
LEMMA PromiseStutters ==
    ASSUME rail' = rail, posted' = posted,
           \A u \in Transfer : ReportOf(u)' = ReportOf(u)
    PROVE  UNCHANGED Promise!vars
  <1>1. \A u \in Transfer : MoneyOf(u)' = MoneyOf(u)
    BY SameMoney
  <1> QED
    BY <1>1 DEF Promise!vars

(* Every step of the switch is a step of TransferSpec or a stutter: a      *)
(* posted leg is Hold, Pay or Refund, an advance to a terminal status is   *)
(* Report, a request is Accept, and a leg posted again is nothing.         *)
LEMMA PromiseStep ==
    ASSUME MoneyInv, MoneyInv', [Next]_vars
    PROVE  [Promise!Next]_(Promise!vars)
  <1>0. TypeOK /\ BusyInv /\ ActInv /\ LegInv /\ WorkInv
    BY DEF MoneyInv, DeliveryInv, TypeInv
  <1>a. rail' = rail
    BY MoneyMoves
  <1>b. ASSUME NEW p \in Proc, NEW leg \in Leg, act[p].t \in Transfer, PostLeg(act[p].t, leg)
        PROVE  /\ \A u \in Transfer : u # act[p].t => posted'[u] = posted[u]
               /\ posted'[act[p].t][leg] = 1
               /\ \A l \in Leg : l # leg => posted'[act[p].t][l] = posted[act[p].t][l]
               /\ posted[act[p].t][leg] = 1 => posted' = posted
    <2>1. \A u \in Transfer : u # act[p].t => posted'[u] = posted[u]
      BY <1>0, <1>b DEF PostLeg, TypeOK
    <2> QED
      BY <1>0, <1>b, <2>1, PostLegEffect, PostLegAgain
  <1>c. ASSUME posted' = posted, status' = status PROVE UNCHANGED Promise!vars
    BY <1>a, <1>c, SameReport, PromiseStutters
  <1>1. ASSUME NEW p \in Proc, PostDebitLeg(p), status' = status
        PROVE  [Promise!Next]_(Promise!vars)
    <2>1. PICK t \in Transfer : t = act[p].t /\ status[t] \in Reached("debit_requested")
      <3>1. act[p].evt = "debit_requested" /\ act[p].evt # NoEvent
        BY <1>0, <1>1 DEF PostDebitLeg, ActInv, ActOk, NoEvent
      <3> QED
        BY <1>0, <3>1 DEF ActInv, ActOk
    <2>2. CASE posted' = posted
      BY <1>1, <1>c, <2>2
    <2>3. CASE posted' # posted
      <3>1. SourceOf[t] \in accounts /\ PostLeg(t, "debit")
        BY <1>1, <2>1, <2>3 DEF PostDebitLeg
      <3>2. /\ posted[t]["debit"] = 0 /\ posted'[t]["debit"] = 1
            /\ posted'[t]["settle"] = posted[t]["settle"]
            /\ posted'[t]["reversal"] = posted[t]["reversal"]
            /\ \A u \in Transfer : u # t => posted'[u] = posted[u]
        BY <1>b, <2>1, <2>3, <3>1, WhereMoneyIs DEF Leg
      <3>3. LegOk(t, status, debitLeg, posted, accounts, rail, sent)
        BY <1>0, <2>1 DEF LegInv
      <3>4. status[t] = "pending" /\ posted[t]["settle"] = 0 /\ posted[t]["reversal"] = 0
        BY <2>1, <3>1, <3>2, <3>3 DEF LegOk, Reached, Status, Leg
      <3>5. ReportOf(t) = "open"
        BY <3>4 DEF ReportOf
      <3>6. MoneyOf(t) = "source" /\ MoneyOf(t)' = "suspense"
        BY <3>2, <3>4 DEF MoneyOf
      <3> QED
        BY <1>1, <1>a, <2>1, <3>2, <3>5, <3>6, PromiseMoves
    <2> QED
      BY <2>2, <2>3
  <1>2. ASSUME NEW p \in Proc, PostSettlementLeg(p), status' = status
        PROVE  [Promise!Next]_(Promise!vars)
    <2>1. PICK t \in Transfer :
              /\ t = act[p].t
              /\ status[t] \in Reached("debited") /\ rail[RefOf[t]] = "success"
      BY <1>0, <1>2 DEF PostSettlementLeg, BusyInv, Handling, WorkInv, WorkOk
    <2>2. CASE posted' = posted
      BY <1>2, <1>c, <2>2
    <2>3. CASE posted' # posted
      <3>1. PostLeg(t, "settle")
        BY <1>2, <2>1, <2>3 DEF PostSettlementLeg
      <3>2. /\ posted[t]["settle"] = 0 /\ posted'[t]["settle"] = 1
            /\ posted'[t]["debit"] = posted[t]["debit"]
            /\ posted'[t]["reversal"] = posted[t]["reversal"]
            /\ \A u \in Transfer : u # t => posted'[u] = posted[u]
        BY <1>b, <2>1, <2>3, <3>1, WhereMoneyIs DEF Leg
      <3>3. LegOk(t, status, debitLeg, posted, accounts, rail, sent)
        BY <1>0, <2>1 DEF LegInv
      <3>4. /\ status[t] \in {"debited", "in_doubt", "manual_review"}
            /\ posted[t]["debit"] = 1 /\ posted[t]["reversal"] = 0
        BY <2>1, <3>2, <3>3 DEF LegOk, Reached, Status, Leg
      <3>5. ReportOf(t) \in {"open", "review"}
        BY <3>4 DEF ReportOf
      <3>6. MoneyOf(t) = "suspense" /\ MoneyOf(t)' = "destination"
        BY <3>2, <3>4 DEF MoneyOf
      <3> QED
        BY <1>2, <1>a, <2>1, <3>2, <3>5, <3>6, PromiseMoves
    <2> QED
      BY <2>2, <2>3
  <1>3. ASSUME NEW p \in Proc, PostReversal(p), status' = status
        PROVE  [Promise!Next]_(Promise!vars)
    <2>1. PICK t \in Transfer : t = act[p].t /\ status[t] \in Reached("reversal")
      BY <1>0, <1>3 DEF PostReversal, BusyInv, Handling, WorkInv, WorkOk
    <2>2. CASE posted' = posted
      BY <1>3, <1>c, <2>2
    <2>3. CASE posted' # posted
      <3>1. PostLeg(t, "reversal")
        BY <1>3, <2>1 DEF PostReversal
      <3>2. /\ posted[t]["reversal"] = 0 /\ posted'[t]["reversal"] = 1
            /\ posted'[t]["debit"] = posted[t]["debit"]
            /\ posted'[t]["settle"] = posted[t]["settle"]
            /\ \A u \in Transfer : u # t => posted'[u] = posted[u]
        BY <1>b, <2>1, <2>3, <3>1, WhereMoneyIs DEF Leg
      <3>3. LegOk(t, status, debitLeg, posted, accounts, rail, sent)
        BY <1>0, <2>1 DEF LegInv
      <3>4. /\ status[t] = "reversal_pending" /\ rail[RefOf[t]] = "declined"
            /\ posted[t]["debit"] = 1 /\ posted[t]["settle"] = 0
        BY <2>1, <3>2, <3>3 DEF LegOk, Reached, Status, Leg
      <3>5. ReportOf(t) = "open"
        BY <3>4 DEF ReportOf
      <3>6. MoneyOf(t) = "suspense" /\ MoneyOf(t)' = "refunded"
        BY <3>2, <3>4 DEF MoneyOf
      <3> QED
        BY <1>3, <1>a, <2>1, <3>2, <3>4, <3>5, <3>6, PromiseMoves
    <2> QED
      BY <2>2, <2>3
  <1>4. ASSUME NEW p \in Proc, Advance(p), posted' = posted
        PROVE  [Promise!Next]_(Promise!vars)
    <2>1. PICK t \in Transfer, to \in Status : t = act[p].t /\ to = act[p].to
      BY <1>0, <1>4 DEF Advance, BusyInv, Handling
    <2>2. CASE ~canTransitionStatus(status[t], to)
      BY <1>4, <1>c, <2>1, <2>2 DEF Advance
    <2>3. CASE canTransitionStatus(status[t], to)
      <3>1. status'[t] = to /\ \A u \in Transfer : u # t => status'[u] = status[u]
        BY <1>0, <1>4, <2>1, <2>3 DEF Advance, TypeOK, SetTransferStatus
      <3>2. \/ status[t] = "pending" /\ to \in {"debited", "failed"}
            \/ status[t] = "debited" /\ to \in {"settled", "in_doubt", "reversal_pending"}
            \/ status[t] = "in_doubt" /\ to \in {"settled", "reversal_pending", "manual_review"}
            \/ status[t] = "reversal_pending" /\ to = "reversed"
        BY <2>3, Edges
      <3>3. LegOk(t, status, debitLeg, posted, accounts, rail, sent)
        BY <1>0, <2>1 DEF LegInv
      <3>4. LegOk(t, status', debitLeg', posted', accounts', rail', sent')
        BY <2>1 DEF MoneyInv, LegInv
      <3>5. ReportOf(t) = "open"
        BY <3>2 DEF ReportOf
      <3>6. CASE to \in {"debited", "in_doubt", "reversal_pending"}
        <4>1. ReportOf(t)' = "open"
          BY <3>1, <3>6 DEF ReportOf
        <4>2. \A u \in Transfer : ReportOf(u)' = ReportOf(u)
          BY <3>1, <3>5, <4>1, SameReport
        <4> QED
          BY <1>4, <1>a, <4>2, PromiseStutters
      <3>7. CASE to \in {"settled", "reversed", "failed", "manual_review"}
        <4>1. /\ to = "manual_review" => ReportOf(t)' = "review"
              /\ to # "manual_review" => ReportOf(t)' = to
          BY <3>1, <3>7 DEF ReportOf
        <4>2. /\ to = "failed" => posted[t]["debit"] = 0
              /\ to = "settled" => posted[t]["settle"] = 1
              /\ to = "reversed" => posted[t]["reversal"] = 1
              /\ to = "manual_review" => posted[t]["debit"] = 1 /\ posted[t]["reversal"] = 0
          BY <1>4, <3>1, <3>2, <3>3, <3>4 DEF LegOk, Reached, Status, Leg
        <4>3. /\ to = "failed" => MoneyOf(t) = "source"
              /\ to = "settled" => MoneyOf(t) = "destination"
              /\ to = "reversed" => MoneyOf(t) = "refunded"
              /\ to = "manual_review" => MoneyOf(t) \in {"suspense", "destination"}
          BY <2>1, <4>2, WhereMoneyIs DEF Leg
        <4>4. ReportOf(t)' \in Promise!TrueReports(MoneyOf(t))
          BY <3>7, <4>1, <4>3 DEF Promise!TrueReports
        <4> QED
          BY <1>4, <1>a, <2>1, <3>1, <3>5, <4>4, PromiseReports
      <3> QED
        BY <3>2, <3>6, <3>7
    <2> QED
      BY <2>2, <2>3
  <1>5. ASSUME NEW h \in Handler, NEW t \in Transfer, Create(h, t), posted' = posted
        PROVE  [Promise!Next]_(Promise!vars)
    <2>1. /\ status[t] = "none" /\ status'[t] = "pending"
          /\ \A u \in Transfer : u # t => status'[u] = status[u]
      BY <1>0, <1>5 DEF Create, CreatePending, InsertTransfer, TypeOK
    <2>2. ReportOf(t) = "none" /\ ReportOf(t)' = "open"
      BY <2>1 DEF ReportOf
    <2> QED
      BY <1>5, <1>a, <2>1, <2>2, PromiseReports
  <1> QED
    BY <1>1, <1>2, <1>3, <1>4, <1>5, <1>c, MoneyMoves

(* The switch implements TransferSpec: whatever the pollers, the request   *)
(* goroutines and the faults do, money and reports move only as promised   *)
(* (driver.go, store.go, ledgerclient.go).                                 *)
THEOREM PromiseKept ==
    ASSUME UniqueRefs, FixedSources
    PROVE  Spec => KeepsPromise
  <1>1. Init => Promise!Init
    <2> SUFFICES ASSUME Init PROVE Promise!Init
      OBVIOUS
    <2>1. \A t \in Transfer : MoneyOf(t) = "source" /\ ReportOf(t) = "none"
      BY DEF Init, MoneyOf, ReportOf, Leg
    <2>2. \A t \in Transfer : rail[RefOf[t]] \in {"success", "declined"}
      BY SwitchAssumption DEF Init
    <2> QED
      BY <2>1, <2>2 DEF Promise!Init
  <1>2. MoneyInv /\ MoneyInv' /\ [Next]_vars => [Promise!Next]_(Promise!vars)
    BY PromiseStep
  <1> QED
    BY <1>1, <1>2, MoneyAgrees, PTL DEF Spec, KeepsPromise, Promise!Spec
=============================================================================

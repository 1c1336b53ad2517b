---------------------------- MODULE TransferSpec ----------------------------
(***************************************************************************)
(* What the switch promises the owner of a transfer, without outbox,       *)
(* pollers, retries or crashes: where the money is, and what the switch    *)
(* reports (GET /transfers/{id}).  Money moves at most twice, in the right *)
(* order, in the direction the rail decided, and a report once made is     *)
(* final and true.                                                         *)
(***************************************************************************)
CONSTANT Transfer

VARIABLES
    money,      \* "source", "suspense", "destination" or "refunded"
    report,     \* "none" before the request, "open" while it is in progress
    verdict     \* the rail's decision, made once and never changed

vars == <<money, report, verdict>>

Init ==
    /\ money = [t \in Transfer |-> "source"]
    /\ report = [t \in Transfer |-> "none"]
    /\ verdict \in [Transfer -> {"success", "declined"}]

Accept(t) ==
    /\ report[t] = "none"
    /\ report' = [report EXCEPT ![t] = "open"]
    /\ UNCHANGED money

(* The source is debited only while the transfer is in progress.           *)
Hold(t) ==
    /\ report[t] = "open" /\ money[t] = "source"
    /\ money' = [money EXCEPT ![t] = "suspense"]
    /\ UNCHANGED report

(* The destination is credited from money held, if the rail settled; this  *)
(* may come after the transfer was handed to an operator.                  *)
Pay(t) ==
    /\ report[t] \in {"open", "review"} /\ money[t] = "suspense"
    /\ verdict[t] = "success"
    /\ money' = [money EXCEPT ![t] = "destination"]
    /\ UNCHANGED report

Refund(t) ==
    /\ report[t] = "open" /\ money[t] = "suspense"
    /\ verdict[t] = "declined"
    /\ money' = [money EXCEPT ![t] = "refunded"]
    /\ UNCHANGED report

(* The reports that are true of a transfer whose money is at m.            *)
TrueReports(m) ==
    CASE m = "source"      -> {"failed"}
      [] m = "suspense"    -> {"review"}
      [] m = "destination" -> {"settled", "review"}
      [] m = "refunded"    -> {"reversed"}

Report(t) ==
    /\ report[t] = "open"
    /\ \E s \in TrueReports(money[t]) : report' = [report EXCEPT ![t] = s]
    /\ UNCHANGED money

Next ==
    /\ \E t \in Transfer : Accept(t) \/ Hold(t) \/ Pay(t) \/ Refund(t) \/ Report(t)
    /\ UNCHANGED verdict

Spec == Init /\ [][Next]_vars
=============================================================================

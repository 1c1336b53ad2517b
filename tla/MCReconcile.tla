---------------------------- MODULE MCReconcile ----------------------------
(* A finite instance of Reconcile for TLC.                                 *)
EXTENDS Reconcile

CONSTANTS a, b

Rec(r, type, status, n, at) ==
    [ref |-> r, type |-> type, status |-> status, amount |-> n, at |-> at]

Good(r) == Rec(r, "transfer", "settled", 1, 2)
Lost(r) == Rec(r, "transfer", "timed_out", 1, 2)
Back(r) == Rec(r, "reversal", "settled", 1, 2)

(* Two transfers in either order; one of two has been reversed; a          *)
(* reference with two entries, the last of which is owed, like another.    *)
Exports == {<<Good(1), Lost(2)>>, <<Lost(2), Good(1)>>, <<Lost(1), Lost(2), Back(1)>>,
            <<Good(1), Lost(1), Lost(2)>>}

Paid(r, n, at, token) == [ref |-> r, amount |-> n, token |-> token, at |-> at, defect |-> "none"]
Broken(row, d) == [row EXCEPT !.defect = d]
NIBSS(rows) == [format |-> "nibss", header |-> "exact", rows |-> rows]
CSV(rows) == [format |-> "csv", header |-> "other order", rows |-> rows]

(* Nothing; agreement and a duplicate that differs, in both formats; too   *)
(* late, and a reference nobody knows without a time, in either order; a   *)
(* good row before one whose status, amount or date is not one; a header   *)
(* a NIBSS file must not have; a date beyond the reach of a Duration.      *)
Settlements ==
    {NIBSS(<<>>),
     NIBSS(<<Paid(1, 1, 3, "00"), Paid(1, 2, 2, "SUCCESS")>>),
     CSV(<<Paid(1, 1, 3, ""), Broken(Paid(1, 2, 2, "SETTLED"), "columns")>>),
     CSV(<<Paid(2, 1, 9, "09"), Paid(3, 1, 0, "")>>),
     CSV(<<Paid(3, 1, 0, ""), Paid(2, 1, 9, "09")>>),
     NIBSS(<<Paid(1, 1, 3, "00"), Paid(2, 1, 2, "?")>>),
     CSV(<<Paid(1, 1, 3, "00"), Broken(Paid(2, 1, 2, ""), "amount")>>),
     NIBSS(<<Paid(1, 1, 3, "00"), Paid(2, 1, 0, "00")>>),
     [NIBSS(<<>>) EXCEPT !.header = "other order"],
     CSV(<<Paid(2, 1, 12, "")>>)}

Files == [internal: Exports, external: Settlements]
=============================================================================

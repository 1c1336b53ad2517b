------------------------------ MODULE Adapters ------------------------------
(***************************************************************************)
(* The readers of external settlement files (internal/reconcile/adapters): *)
(* how a row of a NIBSS or of a generic CSV file becomes a canonical       *)
(* record, and which files and rows are refused.                           *)
(*                                                                         *)
(* Names of accounts are left out.  A time of 0 is an empty field, and the *)
(* zero time of a record.  A result that may be absent is a sequence of at *)
(* most one element.                                                       *)
(***************************************************************************)
EXTENDS Integers, Sequences

Status == {"pending", "debited", "settled", "failed", "timed_out", "reversed",
           "in_doubt", "reversal_pending", "manual_review"}

(* The spellings of a status, in upper case.                               *)
statusTokens ==
    [settled   |-> {"00", "SUCCESS", "SUCCESSFUL", "SETTLED", "COMPLETED"},
     pending   |-> {"01", "PENDING"},
     failed    |-> {"09", "91", "FAILED", "DECLINED"},
     reversed  |-> {"REVERSED"},
     timed_out |-> {"TIMEOUT", "TIMED_OUT"}]

(* Without a token the row is settled money; an unknown one is an error.   *)
parseStatus(token) ==
    IF token = "" THEN <<"settled">>
    ELSE IF \E s \in DOMAIN statusTokens : token \in statusTokens[s]
           THEN <<CHOOSE s \in DOMAIN statusTokens : token \in statusTokens[s]>>
           ELSE <<>>

(* A row as it stands in the file.  Its defect: another number of columns  *)
(* than the header, an amount that is not a number, a date that is not a   *)
(* time.                                                                   *)
Raw(Ref) == [ref: Ref, amount: Int, token: STRING, at: Nat,
             defect: {"none", "columns", "amount", "date"}]

Transfer(raw) ==
    [ref |-> raw.ref, type |-> "transfer", status |-> parseStatus(raw.token)[1],
     amount |-> raw.amount, at |-> raw.at]

(* Next of NIBSSReader: every column must be there, the date too.          *)
nibssNext(raw) ==
    IF raw.defect = "none" /\ raw.at # 0 /\ parseStatus(raw.token) # <<>>
      THEN <<Transfer(raw)>> ELSE <<>>

(* Next of CSVReader: extra and missing columns are tolerated.             *)
csvNext(raw) ==
    IF raw.defect \in {"none", "columns"} /\ parseStatus(raw.token) # <<>>
      THEN <<Transfer(raw)>> ELSE <<>>

(* A file: its format, whether its header is the expected one, has the     *)
(* columns in another order, or lacks a required one, and its rows.        *)
File(Ref) == [format: {"nibss", "csv"}, header: {"exact", "other order", "incomplete"},
              rows: Seq(Raw(Ref))]

(* checkHeader compares names and order; a CSV file needs two of the names.*)
NewNIBSSReader(f) == f.header = "exact"
NewCSVReader(f) == f.header # "incomplete"

Opens(f) == IF f.format = "nibss" THEN NewNIBSSReader(f) ELSE NewCSVReader(f)

NextRecord(f, k) == IF f.format = "nibss" THEN nibssNext(f.rows[k]) ELSE csvNext(f.rows[k])

(* A file that can be read to its end, and its records.                    *)
Readable(f) == Opens(f) /\ \A k \in DOMAIN f.rows : NextRecord(f, k) # <<>>

Parsed(f) == IF Readable(f) THEN [k \in DOMAIN f.rows |-> NextRecord(f, k)[1]] ELSE <<>>
=============================================================================

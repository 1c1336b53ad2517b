------------------------------- MODULE Export -------------------------------
(***************************************************************************)
(* The ledger's export of a window of transactions (internal/ledger:       *)
(* ExportTransactions), while posts and the switch's lifecycle rows are    *)
(* being written to the same table.  initiated_at is the start of the      *)
(* writing transaction, so a row can appear in a window that was exported  *)
(* before.  The export reads the window in one statement and the entries   *)
(* of every row in a statement of their own.                               *)
(***************************************************************************)
EXTENDS Integers, Sequences, FiniteSets, FiniteSetsExt, SequencesExt

CONSTANTS
    Leg,         \* journal transactions, posted by the ledger
    Lifecycle,   \* transfers of the switch: no entries, a number in the metadata
    Lines,       \* [Leg -> sets of [account, debit, amount]]
    MaxInt,      \* the largest amount_minor: 2^63 - 1 in the code
    MaxTime,     \* bound: the clock
    MaxExports   \* bound: exports that are asked for

Tx == Leg \cup Lifecycle

ASSUME ExportAssumption ==
    /\ Leg \cap Lifecycle = {}
    /\ \A l \in Leg : /\ IsFiniteSet(Lines[l])
                      /\ \A x \in Lines[l] : x.debit \in BOOLEAN /\ x.amount \in 1 .. MaxInt
    /\ MaxInt \in Nat \ {0} /\ MaxTime \in Nat /\ MaxExports \in Nat

VARIABLES
    now,        \* the database's clock
    start,      \* initiated_at; -1 before the writing transaction begins
    stage,      \* the writing transaction: none, open, committed or aborted
    entries,    \* the lines of a leg in the order of their random ids
    job,        \* the export under way
    answers     \* the exports so far, oldest first

writeVars == <<now, start, stage, entries>>
vars == <<now, start, stage, entries, job, answers>>

Idle == [pc |-> "idle"]
Committed(t) == stage[t] = "committed"
-----------------------------------------------------------------------------
(* Writers.                                                                *)

Begin(t) ==
    /\ stage[t] = "none"
    /\ stage' = [stage EXCEPT ![t] = "open"]
    /\ start' = [start EXCEPT ![t] = now]
    /\ UNCHANGED <<now, entries, job, answers>>

(* The header and all of its lines appear together.                        *)
Commit(t) ==
    /\ stage[t] = "open"
    /\ stage' = [stage EXCEPT ![t] = "committed"]
    /\ IF t \in Leg THEN \E s \in SetToSeqs(Lines[t]) : entries' = [entries EXCEPT ![t] = s]
                    ELSE UNCHANGED entries
    /\ UNCHANGED <<now, start, job, answers>>

Abort(t) ==
    /\ stage[t] = "open"
    /\ stage' = [stage EXCEPT ![t] = "aborted"]
    /\ UNCHANGED <<now, start, entries, job, answers>>

Tick ==
    /\ now < MaxTime
    /\ now' = now + 1
    /\ UNCHANGED <<start, stage, entries, job, answers>>
-----------------------------------------------------------------------------
(* The export.                                                             *)

InWindow(t, from, to) == start[t] >= from /\ start[t] < to

(* Nothing that belongs to the window is still to come.                    *)
Quiet(from, to) ==
    to <= now /\ \A t \in Tx : stage[t] = "open" => ~InWindow(t, from, to)

ListTransactionsByWindow(from, to) ==
    /\ job.pc = "idle"
    /\ Len(answers) < MaxExports
    /\ job' = [pc |-> "read", from |-> from, to |-> to, quiet |-> Quiet(from, to), records |-> {},
               todo |-> {t \in Tx : Committed(t) /\ InWindow(t, from, to)}]
    /\ UNCHANGED <<writeVars, answers>>

(* The lines of a transaction, in one order whenever they are listed.      *)
ListEntriesByTransaction(t) == IF t \in Leg THEN entries[t] ELSE <<>>

(* int64 arithmetic wraps around: once at the end is as good as at every   *)
(* addition.                                                               *)
Int64 == -(MaxInt + 1) .. MaxInt
Wrap(n) == ((n + MaxInt + 1) % (2 * (MaxInt + 1))) - (MaxInt + 1)

(* The amount is the sum of the debits; the first account that is debited  *)
(* is the destination, the first that is credited the source.              *)
Debits(s) == SelectSeq(s, LAMBDA x : x.debit)
Credits(s) == SelectSeq(s, LAMBDA x : ~x.debit)
Added(s) == FoldLeft(LAMBDA sum, x : IF x.debit THEN sum + x.amount ELSE sum, 0, s)
DebitTotal(s) == Wrap(Added(s))
FirstAccount(s) == IF s = <<>> THEN "" ELSE s[1].account

(* Mutants: the debits are added up until the first credit; the entries    *)
(* come in whatever order the query finds them.                            *)
RecordOfPrefix(t) ==
    LET s == ListEntriesByTransaction(t)
        d == Debits(s)
    IN  [tx |-> t, amount |-> IF d = <<>> THEN 0 ELSE d[1].amount,
         source |-> FirstAccount(Credits(s)), destination |-> FirstAccount(d)]

RecordUnordered(t) ==
    LET s == IF Len(answers) > 0 THEN Reverse(entries[t]) ELSE entries[t]
    IN  [tx |-> t, amount |-> DebitTotal(s),
         source |-> FirstAccount(Credits(s)), destination |-> FirstAccount(Debits(s))]

RecordOf(t) ==
    LET s == ListEntriesByTransaction(t)
    IN  [tx |-> t, amount |-> DebitTotal(s),
         source |-> FirstAccount(Credits(s)), destination |-> FirstAccount(Debits(s))]

Answer(ok, records) ==
    /\ answers' = Append(answers, [from |-> job.from, to |-> job.to, quiet |-> job.quiet,
                                   ok |-> ok, records |-> records])
    /\ job' = Idle

(* unmarshalMetadata: the metadata of a leg is a map of strings, that of a *)
(* lifecycle row is not.                                                   *)
Decodes(t) == t \in Leg

(* One row of the window; the export fails as a whole.                     *)
ReadRow(t) ==
    /\ job.pc = "read" /\ t \in job.todo
    /\ IF Decodes(t)
         THEN /\ job' = [job EXCEPT !.todo = @ \ {t}, !.records = @ \cup {RecordOf(t)}]
              /\ UNCHANGED answers
         ELSE Answer(FALSE, {})
    /\ UNCHANGED writeVars

SendRecords ==
    /\ job.pc = "read" /\ job.todo = {}
    /\ Answer(TRUE, job.records)
    /\ UNCHANGED writeVars

(* A statement fails, or the client goes away.                             *)
ExportBreaks ==
    /\ job.pc = "read"
    /\ job' = Idle
    /\ UNCHANGED <<writeVars, answers>>
-----------------------------------------------------------------------------
Init ==
    /\ now = 0
    /\ start = [t \in Tx |-> -1]
    /\ stage = [t \in Tx |-> "none"]
    /\ entries = [t \in Leg |-> <<>>]
    /\ job = Idle
    /\ answers = <<>>

Next ==
    \/ Tick
    \/ \E t \in Tx : Begin(t) \/ Commit(t) \/ Abort(t)
    \/ \E from \in 0 .. MaxTime : \E to \in from + 1 .. MaxTime + 1 : ListTransactionsByWindow(from, to)
    \/ \E t \in Tx : ReadRow(t)
    \/ SendRecords \/ ExportBreaks

Spec == Init /\ [][Next]_vars
-----------------------------------------------------------------------------
(* The money a leg moves: the sum of the debits among its lines.           *)
Moved(t) == MapThenSumSet(LAMBDA x : x.amount, {x \in Lines[t] : x.debit})

(* An answered export of a window to which nothing can be added holds one  *)
(* record for each of its transactions, with the money that was moved if   *)
(* an int64 can say how much, although the rows are read one by one while  *)
(* others write (query.go: ExportTransactions).                            *)
SettledWindowIsComplete ==
    \A i \in DOMAIN answers :
        LET a == answers[i]
        IN  a.ok /\ a.quiet =>
              \A t \in Tx :
                LET mine == {r \in a.records : r.tx = t}
                IN  IF Committed(t) /\ start[t] \in a.from .. a.to - 1
                      THEN /\ Cardinality(mine) = 1
                           /\ Moved(t) \in Int64 => \A r \in mine : r.amount = Moved(t)
                      ELSE mine = {}

(* Exporting a window again returns the records it had, unchanged, and     *)
(* adds some only if a transaction of the window was still being written   *)
(* the first time: the input of a reconciliation can be produced again     *)
(* (entries.sql.go: the order of the lines is fixed when they are written).*)
LaterExportAgrees ==
    \A i, j \in DOMAIN answers :
        LET a == answers[i]
            b == answers[j]
        IN  i < j /\ a.from = b.from /\ a.to = b.to /\ a.ok /\ b.ok =>
              a.records \subseteq b.records /\ (a.quiet => a.records = b.records)

(* "ExportTransactions maps every transaction initiated in [from, to) to a *)
(* canonical.Record" (query.go:35): a window is either answered with a     *)
(* record of each of its transactions, or not at all for a fault that      *)
(* passes.                                                                 *)
MapsEveryTransaction ==
    \A i \in DOMAIN answers :
        LET a == answers[i]
        IN  a.quiet => \A t \in Tx : Committed(t) /\ InWindow(t, a.from, a.to) =>
                                      \E r \in a.records : r.tx = t
=============================================================================

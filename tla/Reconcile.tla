----------------------------- MODULE Reconcile -----------------------------
(***************************************************************************)
(* The reconcile command (cmd/reconcile, internal/reconcile): a job reads  *)
(* the internal ledger export, streams the external settlement file past   *)
(* an index of it, sorts and reports the exceptions, feeds the pending     *)
(* reversals back to the switch and records the run.  Several jobs may run *)
(* at once; a job that ended with an error is run again from the start.    *)
(*                                                                         *)
(* Names, currencies and the wording of the report are left out: a record  *)
(* is what the matcher looks at.  The fingerprint of the inputs identifies *)
(* them, so it is the pair of files itself.                                *)
(***************************************************************************)
EXTENDS Adapters, FiniteSets

CONSTANTS
    Job,        \* invocations of "reconcile run"
    Ref,        \* references, numbered in the order of their spelling
    Inputs,     \* the pairs of files a job may be given
    Window,     \* --tolerance-window
    MaxDuration,\* the largest time.Duration: 2^63 - 1 nanoseconds in the code
    Feeding,    \* jobs with --switch-addr
    Persisting, \* jobs without --no-persist
    MaxFaults   \* bound: failed calls, lost replies and deaths of a job

Type == {"transfer", "reversal", "fee"}

(* A canonical record: at is InitiatedAt, 0 the zero time; amount stands   *)
(* for amount and currency.                                                *)
Record == [ref: Ref, type: Type, status: Status, amount: Int, at: Nat]

ASSUME ReconcileAssumption ==
    /\ Ref \subseteq Nat
    /\ Inputs \subseteq [internal: Seq(Record), external: File(Ref)]
    /\ MaxDuration \in Nat /\ Window \in Int /\ Window <= MaxDuration
    /\ Feeding \subseteq Job /\ Persisting \subseteq Job
    /\ MaxFaults \in Nat

VARIABLES
    input,      \* the files of each job
    job,        \* what each job is doing
    called,     \* switch: the references it was asked to reverse, by job
    runs,       \* the completed rows of recon_runs with their exceptions
    faults

vars == <<input, job, called, runs, faults>>
-----------------------------------------------------------------------------
(* The five categories, in the order of their spelling.                    *)
Category == <<"amount_mismatch", "duplicate", "pending_reversal",
              "unmatched_external", "unmatched_internal">>

RankOf(c) == CHOOSE k \in DOMAIN Category : Category[k] = c

(* One gap.  A side that is absent is the empty sequence.                  *)
Gap(c, int, ext, delta) ==
    [category |-> c, ref |-> IF ext # <<>> THEN ext[1].ref ELSE int[1].ref,
     int |-> int, ext |-> ext, delta |-> delta]

(* The index: the last record of a reference that is not a reversal.       *)
Indexed(s) == {s[i].ref : i \in {k \in DOMAIN s : s[k].type # "reversal"}}

EntryOf(s, r) ==
    LET at == {k \in DOMAIN s : s[k].type # "reversal" /\ s[k].ref = r}
    IN  s[CHOOSE k \in at : \A l \in at : l <= k]

BuildIndex(s) == [r \in Indexed(s) |-> EntryOf(s, r)]

settledReversals(s) ==
    {s[i].ref : i \in {k \in DOMAIN s : /\ s[k].type = "reversal"
                                        /\ s[k].status \in {"settled", "reversed"}}}

(* time.Time.Sub stops at the ends of a Duration; the smallest Duration    *)
(* has no opposite and stays negative when it is negated.                  *)
MinDuration == -MaxDuration - 1

Sub(a, b) ==
    CASE a - b > MaxDuration -> MaxDuration
      [] a - b < MinDuration -> MinDuration
      [] OTHER -> a - b

Absolute(d) == IF d < 0 /\ d # MinDuration THEN -d ELSE d

withinWindow(a, b) == Window <= 0 \/ a = 0 \/ b = 0 \/ Absolute(Sub(a, b)) <= Window

Agree(int, ext) == int.amount = ext.amount /\ withinWindow(int.at, ext.at)

classifyUnmatchedInternal(rec, reversed) ==
    IF /\ rec.type = "transfer" /\ rec.status \in {"failed", "timed_out"}
       /\ rec.ref \notin reversed
      THEN "pending_reversal" ELSE "unmatched_internal"

(* The order of sortExceptions; what it leaves equal stays in place.       *)
Before(x, y) ==
    \/ RankOf(x.category) < RankOf(y.category)
    \/ x.category = y.category /\ x.ref < y.ref
    \/ x.category = y.category /\ x.ref = y.ref /\ x.delta < y.delta

(* Mutant: the exceptions are left in the order they were found.           *)
UnsortedExceptions(ex) == ex

sortExceptions(ex) ==
    LET PlaceOf(i) == 1 + Cardinality({k \in DOMAIN ex : \/ Before(ex[k], ex[i])
                                                         \/ k < i /\ ~Before(ex[i], ex[k])})
    IN  [n \in DOMAIN ex |-> ex[CHOOSE i \in DOMAIN ex : PlaceOf(i) = n]]
-----------------------------------------------------------------------------
(* A job: pos is the next external record, then the next exception to feed *)
(* back; seen and left are seenExternal and the unmatched index entries.   *)
Fresh == [pc |-> "idle", pos |-> 1, seen |-> {}, left |-> {}, matched |-> 0,
          exceptions |-> <<>>, failed |-> 0]

FaultBudget == faults < MaxFaults /\ faults' = faults + 1

(* Where a job goes after the report, and after the feedback.              *)
AfterFeedback(j) == IF j \in Persisting THEN "find" ELSE "done"
AfterReport(j) == IF j \in Feeding THEN "feedback" ELSE AfterFeedback(j)

Goto(j, pc) == job' = [job EXCEPT ![j] = [job[j] EXCEPT !.pc = pc]]

(* readInternal, openExternal and the first loop of Match.                 *)
Open(j) ==
    /\ job[j].pc = "idle"
    /\ IF Opens(input[j].external)
         THEN job' = [job EXCEPT ![j] = [Fresh EXCEPT !.pc = "match",
                                                     !.left = Indexed(input[j].internal)]]
         ELSE Goto(j, "error")
    /\ UNCHANGED <<input, called, runs, faults>>

(* One external record: the first of its reference is compared with the    *)
(* index, every further one is a duplicate.                                *)
Found(j, exs, hits, n) ==
    job' = [job EXCEPT ![j] =
              [job[j] EXCEPT !.pos = job[j].pos + 1,
                             !.seen = job[j].seen \cup hits,
                             !.left = job[j].left \ hits,
                             !.matched = job[j].matched + n,
                             !.exceptions = job[j].exceptions \o exs]]

(* The record the reader returns next; none at a malformed row.            *)
More(j) == job[j].pos <= Len(input[j].external.rows)
NextRow(j) == IF More(j) THEN NextRecord(input[j].external, job[j].pos) ELSE <<>>

(* Mutant: duplicates are not recognised.                                  *)
MatchNextAgain(j) ==
    /\ job[j].pc = "match" /\ NextRow(j) # <<>>
    /\ LET ext == NextRow(j)[1]
           index == BuildIndex(input[j].internal)
           r == ext.ref
       IN  \/ /\ r \notin DOMAIN index
              /\ Found(j, <<Gap("unmatched_external", <<>>, <<ext>>, 0)>>, {r}, 0)
           \/ /\ r \in DOMAIN index /\ ~Agree(index[r], ext)
              /\ Found(j, <<Gap("amount_mismatch", <<index[r]>>, <<ext>>,
                                ext.amount - index[r].amount)>>, {r}, 0)
           \/ /\ r \in DOMAIN index /\ Agree(index[r], ext)
              /\ Found(j, <<>>, {r}, 1)
    /\ UNCHANGED <<input, called, runs, faults>>

MatchNext(j) ==
    /\ job[j].pc = "match" /\ NextRow(j) # <<>>
    /\ LET ext == NextRow(j)[1]
           index == BuildIndex(input[j].internal)
           r == ext.ref
           new == r \notin job[j].seen
       IN  \/ /\ ~new
              /\ Found(j, <<Gap("duplicate", <<>>, <<ext>>, 0)>>, {}, 0)
           \/ /\ new /\ r \notin DOMAIN index
              /\ Found(j, <<Gap("unmatched_external", <<>>, <<ext>>, 0)>>, {r}, 0)
           \/ /\ new /\ r \in DOMAIN index /\ ~Agree(index[r], ext)
              /\ Found(j, <<Gap("amount_mismatch", <<index[r]>>, <<ext>>,
                                ext.amount - index[r].amount)>>, {r}, 0)
           \/ /\ new /\ r \in DOMAIN index /\ Agree(index[r], ext)
              /\ Found(j, <<>>, {r}, 1)
    /\ UNCHANGED <<input, called, runs, faults>>

(* Mutant: a malformed row is skipped.                                     *)
BadRowSkipped(j) ==
    /\ job[j].pc = "match" /\ More(j) /\ NextRow(j) = <<>>
    /\ job' = [job EXCEPT ![j] = [job[j] EXCEPT !.pos = job[j].pos + 1]]
    /\ UNCHANGED <<input, called, runs, faults>>

(* A malformed row ends the job, whatever it has matched before.           *)
BadRow(j) ==
    /\ job[j].pc = "match" /\ More(j) /\ NextRow(j) = <<>>
    /\ Goto(j, "error")
    /\ UNCHANGED <<input, called, runs, faults>>

(* The end of the external file.                                           *)
EndOfFile(j) ==
    /\ job[j].pc = "match" /\ ~More(j)
    /\ Goto(j, "leftover")
    /\ UNCHANGED <<input, called, runs, faults>>

(* The leftover entries, in the order of a Go map.                         *)
Leftover(j) ==
    /\ job[j].pc = "leftover"
    /\ \E r \in job[j].left :
         LET rec == EntryOf(input[j].internal, r)
             c == classifyUnmatchedInternal(rec, settledReversals(input[j].internal))
         IN  job' = [job EXCEPT ![j] =
                       [job[j] EXCEPT !.left = job[j].left \ {r},
                                      !.exceptions = Append(job[j].exceptions,
                                                            Gap(c, <<rec>>, <<>>, 0))]]
    /\ UNCHANGED <<input, called, runs, faults>>

(* The end of Match, and the report.                                       *)
Report(j) ==
    /\ job[j].pc = "leftover" /\ job[j].left = {}
    /\ job' = [job EXCEPT ![j] =
                 [job[j] EXCEPT !.pc = AfterReport(j), !.pos = 1,
                                !.exceptions = sortExceptions(job[j].exceptions)]]
    /\ UNCHANGED <<input, called, runs, faults>>

(* sendFeedback, one exception at a time: a call that fails, with or       *)
(* without its effect, is counted and does not stop the others.            *)
Feed(j) ==
    /\ job[j].pc = "feedback" /\ job[j].pos <= Len(job[j].exceptions)
    /\ LET e == job[j].exceptions[job[j].pos]
           Ask == called' = [called EXCEPT ![j] = called[j] \cup {e.ref}]
           Go(n) == job' = [job EXCEPT ![j] = [job[j] EXCEPT !.pos = job[j].pos + 1,
                                                             !.failed = job[j].failed + n]]
       IN  \/ e.category # "pending_reversal" /\ Go(0) /\ UNCHANGED <<called, faults>>
           \/ e.category = "pending_reversal" /\ Ask /\ Go(0) /\ UNCHANGED faults
           \/ e.category = "pending_reversal" /\ (Ask \/ UNCHANGED called) /\ Go(1) /\ FaultBudget
    /\ UNCHANGED <<input, runs>>

(* Mutant: failed calls are forgotten.                                     *)
EndFeedAnyway(j) ==
    /\ job[j].pc = "feedback" /\ job[j].pos > Len(job[j].exceptions)
    /\ Goto(j, AfterFeedback(j))
    /\ UNCHANGED <<input, called, runs, faults>>

(* Failed calls end the job before it persists anything.                   *)
EndFeed(j) ==
    /\ job[j].pc = "feedback" /\ job[j].pos > Len(job[j].exceptions)
    /\ Goto(j, IF job[j].failed > 0 THEN "error" ELSE AfterFeedback(j))
    /\ UNCHANGED <<input, called, runs, faults>>

FindCompletedRunByFingerprint(in) == {k \in DOMAIN runs : runs[k].input = in}

(* The row of a run with its exceptions.                                   *)
ReconRun(j) == [by |-> j, input |-> input[j], matched |-> job[j].matched,
                exceptions |-> job[j].exceptions]

(* Mutant: the lookup never finds anything.                                *)
FindNothing(j) ==
    /\ job[j].pc = "find"
    /\ Goto(j, "persist")
    /\ UNCHANGED <<input, called, runs, faults>>

(* FindByFingerprint: a completed run of the same inputs ends the job ...  *)
FindByFingerprint(j) ==
    /\ job[j].pc = "find"
    /\ Goto(j, IF FindCompletedRunByFingerprint(input[j]) # {} THEN "done" ELSE "persist")
    /\ UNCHANGED <<input, called, runs, faults>>

(* ... else the run and its exceptions are written in one transaction,     *)
(* whose reply arrives or is lost.                                         *)
Persist(j) ==
    /\ job[j].pc = "persist"
    /\ runs' = Append(runs, ReconRun(j))
    /\ \/ Goto(j, "done") /\ UNCHANGED faults
       \/ Goto(j, "error") /\ FaultBudget
    /\ UNCHANGED <<input, called>>

(* A file, the switch or the database fails, or the job dies.              *)
Fault(j) ==
    /\ job[j].pc \notin {"done", "error"}
    /\ FaultBudget
    /\ Goto(j, "error")
    /\ UNCHANGED <<input, called, runs>>

(* The operator runs a failed job again.                                   *)
Rerun(j) ==
    /\ job[j].pc = "error"
    /\ job' = [job EXCEPT ![j] = Fresh]
    /\ UNCHANGED <<input, called, runs, faults>>
-----------------------------------------------------------------------------
Init ==
    /\ input \in [Job -> Inputs]
    /\ job = [j \in Job |-> Fresh]
    /\ called = [j \in Job |-> {}]
    /\ runs = <<>>
    /\ faults = 0

Work(j) ==
    \/ Open(j) \/ MatchNext(j) \/ BadRow(j) \/ EndOfFile(j) \/ Leftover(j) \/ Report(j)
    \/ Feed(j) \/ EndFeed(j) \/ FindByFingerprint(j) \/ Persist(j)

Next == \E j \in Job : Work(j) \/ Fault(j) \/ Rerun(j)

Spec == Init /\ [][Next]_vars
-----------------------------------------------------------------------------
(* What a reconciliation of two files should say, without index or stream. *)
(* f is a pair of files with the external one as it was parsed.            *)
View(in) == [internal |-> in.internal, external |-> Parsed(in.external)]

(* What the files have on a reference: the entries of the ledger, whether  *)
(* one was refunded, and the rows of the settlement file, of which the     *)
(* first counts.                                                           *)
Entries(f, r) == {e \in {f.internal[k] : k \in DOMAIN f.internal} : e.ref = r /\ e.type # "reversal"}

Refunded(f, r) ==
    \E k \in DOMAIN f.internal : /\ f.internal[k].ref = r /\ f.internal[k].type = "reversal"
                                 /\ f.internal[k].status \in {"settled", "reversed"}

Rows(s, r) == {k \in DOMAIN s : s[k].ref = r}
FirstOf(s, r) == s[CHOOSE k \in Rows(s, r) : \A l \in Rows(s, r) : k <= l]

(* Times as they are; those a Duration can hold the difference of.         *)
Timed(a, b) == Window > 0 /\ a # 0 /\ b # 0
Near(a, b) == Timed(a, b) => a - b \in -Window .. Window
Measurable(a, b) == Timed(a, b) => a - b \in -MaxDuration .. MaxDuration

(* The transfer failed, the other side knows nothing of it, and no         *)
(* reversal has settled: the source is still owed its money.               *)
FailedTransfer(e) == e.type = "transfer" /\ e.status \in {"failed", "timed_out"}
Unsettled(f, r) == Rows(f.external, r) = {} /\ ~Refunded(f, r)

One(b) == IF b THEN 1 ELSE 0

(* How often a reference is in each category, when E holds its entry, or   *)
(* nothing if the ledger has none.                                         *)
Expected(f, r, E) ==
    LET rows == Rows(f.external, r)
        first == FirstOf(f.external, r)
    IN  [amount_mismatch    |-> One(rows # {} /\ \E e \in E : \/ e.amount # first.amount
                                                              \/ ~Near(e.at, first.at)),
         duplicate          |-> IF rows = {} THEN 0 ELSE Cardinality(rows) - 1,
         pending_reversal   |-> One(\E e \in E : FailedTransfer(e) /\ Unsettled(f, r)),
         unmatched_external |-> One(rows # {} /\ E = {}),
         unmatched_internal |-> One(rows = {} /\ \E e \in E : ~(FailedTransfer(e) /\ Unsettled(f, r)))]

(* If the ledger has several entries, one of them is the reference's.      *)
Choices(f, r) == IF Entries(f, r) = {} THEN {{}} ELSE {{e} : e \in Entries(f, r)}

Clear(f, r) ==
    \A e \in Entries(f, r) : Rows(f.external, r) # {} => Measurable(e.at, FirstOf(f.external, r).at)

(* The number of matches, and the gaps in order.                           *)
Right(f, n, ex) ==
    /\ n = Cardinality({r \in Ref : /\ Rows(f.external, r) # {}
                                    /\ \A k \in DOMAIN ex : ex[k].ref = r => ex[k].category = "duplicate"})
    /\ \A r \in Ref : Clear(f, r) =>
         \E E \in Choices(f, r) : \A c \in DOMAIN Expected(f, r, E) :
           Cardinality({k \in DOMAIN ex : ex[k].category = c /\ ex[k].ref = r}) = Expected(f, r, E)[c]
    /\ \A k, l \in DOMAIN ex : k < l =>
         \/ RankOf(ex[k].category) < RankOf(ex[l].category)
         \/ ex[k].category = ex[l].category /\ ex[k].ref <= ex[l].ref

Reported(j) == job[j].pc \in {"feedback", "find", "persist", "done"}

(* The report says what the two files say: every reference is matched or   *)
(* in exactly the categories it belongs to, as often as it should be, in   *)
(* order (matcher.go Match, adapters).  Of a reference that the ledger has *)
(* several entries of, it speaks for one; times that differ by more than a *)
(* Duration it may not tell apart.                                         *)
MatchIsRight ==
    \A j \in Job : Reported(j) => Right(View(input[j]), job[j].matched, job[j].exceptions)

(* Files with the same rows in another order; files in which no reference  *)
(* has two different rows.                                                 *)
SameRows(s, u) ==
    \A x \in {s[k] : k \in DOMAIN s} \cup {u[k] : k \in DOMAIN u} :
        Cardinality({k \in DOMAIN s : s[k] = x}) = Cardinality({k \in DOMAIN u : u[k] = x})

Unambiguous(f) ==
    /\ \A k, l \in DOMAIN f.external :
         f.external[k].ref = f.external[l].ref => f.external[k] = f.external[l]
    /\ \A k, l \in DOMAIN f.internal :
         /\ f.internal[k].ref = f.internal[l].ref
         /\ f.internal[k].type # "reversal" /\ f.internal[l].type # "reversal"
         => f.internal[k] = f.internal[l]

(* The same records give the same report, although the leftover entries    *)
(* come in the random order of a Go map and the settlements in either      *)
(* format; so do files whose rows are in another order, if no reference    *)
(* has two different rows (sortExceptions, AC-4).                          *)
SameReport ==
    \A i, j \in Job :
        /\ Reported(i) /\ Reported(j)
        /\ LET f == View(input[i])
               g == View(input[j])
           IN  \/ f = g
               \/ /\ SameRows(f.internal, g.internal) /\ SameRows(f.external, g.external)
                  /\ Unambiguous(f)
        => job[i].matched = job[j].matched /\ job[i].exceptions = job[j].exceptions

(* The source may be owed its money, by one entry of the ledger, or is, by *)
(* all of them.                                                            *)
MayBeOwed(f, r) == Unsettled(f, r) /\ \E e \in Entries(f, r) : FailedTransfer(e)
IsOwed(f, r) == MayBeOwed(f, r) /\ \A e \in Entries(f, r) : FailedTransfer(e)

(* The switch is asked to reverse only what may be owed; and a run that is *)
(* on record, by a job that feeds back, has fed back everything that is,   *)
(* whatever calls failed before (feedback.go sendFeedback, main.go         *)
(* runReconcile).                                                          *)
FeedbackBeforeRecord ==
    /\ \A j \in Job : \A r \in called[j] :
         Readable(input[j].external) /\ MayBeOwed(View(input[j]), r)
    /\ \A k \in DOMAIN runs :
         runs[k].by \in Feeding =>
            \A r \in Ref : IsOwed(View(runs[k].input), r) => r \in called[runs[k].by]

(* Inputs on record are not counted again by a job that starts later, also *)
(* if the job itself recorded them and never heard of it (main.go persist, *)
(* AC-4).  Two jobs that look at the same time may both record them.       *)
RerunAddsNothing ==
    \A j \in Job :
        []((job[j].pc = "idle" /\ \E k \in DOMAIN runs : runs[k].input = input[j])
             => [](job[j].pc # "persist"))

(* A settlement file with a malformed row, or the wrong header, has no     *)
(* effect, however much of it was matched before: it is not reported, not  *)
(* fed back and not recorded (matcher.go Match, main.go runReconcile).     *)
MalformedHasNoEffect ==
    \A j \in Job : ~Readable(input[j].external) =>
        /\ ~Reported(j) /\ called[j] = {}
        /\ \A k \in DOMAIN runs : runs[k].input # input[j]
=============================================================================

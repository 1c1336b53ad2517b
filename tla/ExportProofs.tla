---------------------------- MODULE ExportProofs ----------------------------
(***************************************************************************)
(* Proofs about module Export, for any legs, lifecycle rows, lines, clock  *)
(* and number of exports: what an answer says stays true while others      *)
(* write, and how the answers to one window relate to each other.          *)
(***************************************************************************)
EXTENDS Export, SequenceTheorems, FiniteSetTheorems, TLAPS

WriteTypes ==
    /\ now \in Int
    /\ start \in [Tx -> Int]
    /\ stage \in [Tx -> {"none", "open", "committed", "aborted"}]
    /\ DOMAIN entries = Leg

(* A committed transaction of a window, which nothing will change again.   *)
Exported(t, from, to) == t \in Tx /\ Committed(t) /\ InWindow(t, from, to)

(* A record is that of an exported leg.                                    *)
TrueRecords(R, from, to) ==
    \A r \in R : r.tx \in Leg /\ Exported(r.tx, from, to) /\ r = RecordOf(r.tx)

(* Nothing can be added to the window any more.                            *)
Closed(from, to) == to <= now /\ \A t \in Tx : InWindow(t, from, to) => stage[t] # "open"

AnswerOk(a) ==
    /\ a.from \in Int /\ a.to \in Int
    /\ a.ok => TrueRecords(a.records, a.from, a.to)
    /\ a.ok /\ a.quiet => /\ Closed(a.from, a.to)
                          /\ \A t \in Tx : Exported(t, a.from, a.to) => RecordOf(t) \in a.records

(* The export under way: what it has read and what it still will read, and *)
(* what the earlier answers oblige it to.                                  *)
JobOk ==
    /\ job.from \in Int /\ job.to \in Int
    /\ \A t \in job.todo : Exported(t, job.from, job.to)
    /\ TrueRecords(job.records, job.from, job.to)
    /\ job.quiet => /\ Closed(job.from, job.to)
                    /\ \A t \in Tx : Exported(t, job.from, job.to) =>
                         t \in job.todo \/ RecordOf(t) \in job.records

Follows(a) ==
    a.ok /\ a.from = job.from /\ a.to = job.to =>
        \A r \in a.records : r.tx \in job.todo \/ r \in job.records

IsSeq(s) == s \in Seq({s[i] : i \in DOMAIN s})

ExportInv ==
    /\ WriteTypes
    /\ IsSeq(answers)
    /\ \A i \in DOMAIN answers : AnswerOk(answers[i])
    /\ job = Idle \/ (job.pc = "read" /\ JobOk /\ \A i \in DOMAIN answers : Follows(answers[i]))
    /\ LaterExportAgrees
-----------------------------------------------------------------------------
(* An exported record names the transaction it was made of.                *)
LEMMA RecordTx == ASSUME NEW t PROVE RecordOf(t).tx = t
BY DEF RecordOf

(* Writing keeps what an export has seen: a committed transaction keeps    *)
(* its time and its lines, and a closed window stays closed.               *)
Keeps ==
    /\ WriteTypes'
    /\ \A t, from, to : Exported(t, from, to) => Exported(t, from, to)' /\ RecordOf(t)' = RecordOf(t)
    /\ \A from, to \in Int : Closed(from, to) =>
         Closed(from, to)' /\ \A t : Exported(t, from, to)' => Exported(t, from, to)

(* Every step of the writers, the commit of a transaction that began       *)
(* before the export and the clock included, keeps what an export has      *)
(* seen.                                                                   *)
LEMMA WritersKeep ==
  ASSUME WriteTypes, Tick \/ (\E t \in Tx : Begin(t) \/ Commit(t) \/ Abort(t))
  PROVE  Keeps
<1>. USE DEF Keeps
<1>1. CASE Tick
  <2>1. now' = now + 1 /\ start' = start /\ stage' = stage /\ entries' = entries
    BY <1>1 DEF Tick
  <2>2. \A t : RecordOf(t)' = RecordOf(t)
    BY <2>1 DEF RecordOf, ListEntriesByTransaction
  <2>3. \A t, from, to : Exported(t, from, to)' <=> Exported(t, from, to)
    BY <2>1 DEF Exported, Committed, InWindow
  <2>4. \A from, to \in Int : Closed(from, to) => Closed(from, to)'
    BY <2>1 DEF Closed, InWindow, WriteTypes
  <2>5. WriteTypes'
    BY <2>1 DEF WriteTypes
  <2>. QED BY <2>2, <2>3, <2>4, <2>5
<1>2. ASSUME NEW t \in Tx, Begin(t) PROVE Keeps
  <2>1. /\ stage[t] = "none" /\ stage' = [stage EXCEPT ![t] = "open"]
        /\ start' = [start EXCEPT ![t] = now] /\ now' = now /\ entries' = entries
    BY <1>2 DEF Begin
  <2>2. WriteTypes'
    BY <2>1 DEF WriteTypes
  <2>3. /\ stage'[t] = "open" /\ start'[t] = now
        /\ \A u \in Tx \ {t} : stage'[u] = stage[u] /\ start'[u] = start[u]
    BY <2>1 DEF WriteTypes
  <2>4. \A u : RecordOf(u)' = RecordOf(u)
    BY <2>1 DEF RecordOf, ListEntriesByTransaction
  <2>5. \A u, from, to : Exported(u, from, to)' <=> Exported(u, from, to)
    BY <2>1, <2>3 DEF Exported, Committed, InWindow
  <2>6. \A from, to \in Int : Closed(from, to) => Closed(from, to)'
    <3>. SUFFICES ASSUME NEW from \in Int, NEW to \in Int, Closed(from, to), NEW u \in Tx,
                         InWindow(u, from, to)'
                  PROVE  stage'[u] # "open"
      BY <2>1 DEF Closed
    <3>1. u # t
      BY <2>1, <2>3 DEF Closed, InWindow, WriteTypes
    <3>. QED BY <2>3, <3>1 DEF Closed, InWindow
  <2>. QED BY <2>2, <2>4, <2>5, <2>6
<1>3. ASSUME NEW t \in Tx, Commit(t) \/ Abort(t) PROVE Keeps
  <2>1. /\ stage[t] = "open" /\ start' = start /\ now' = now
        /\ stage' = [stage EXCEPT ![t] = "committed"] \/ stage' = [stage EXCEPT ![t] = "aborted"]
    BY <1>3 DEF Commit, Abort
  <2>2. entries' = entries \/ \E s : entries' = [entries EXCEPT ![t] = s]
    BY <1>3 DEF Commit, Abort
  <2>3. /\ stage'[t] # "open" /\ \A u \in Tx \ {t} : stage'[u] = stage[u]
        /\ \A u \in Leg \ {t} : entries'[u] = entries[u]
    BY <2>1, <2>2 DEF WriteTypes
  <2>4. WriteTypes'
    BY <2>1, <2>2 DEF WriteTypes
  <2>5. ASSUME NEW u, NEW from, NEW to, Exported(u, from, to)
        PROVE  Exported(u, from, to)' /\ RecordOf(u)' = RecordOf(u)
    <3>1. u \in Tx /\ u # t
      BY <2>1, <2>5 DEF Exported, Committed
    <3>2. ListEntriesByTransaction(u)' = ListEntriesByTransaction(u)
      BY <2>3, <3>1 DEF ListEntriesByTransaction
    <3>3. RecordOf(u)' = RecordOf(u)
      BY <3>2 DEF RecordOf
    <3>. QED BY <2>1, <2>3, <2>5, <3>1, <3>3 DEF Exported, Committed, InWindow
  <2>6. ASSUME NEW from \in Int, NEW to \in Int, Closed(from, to)
        PROVE  Closed(from, to)' /\ \A u : Exported(u, from, to)' => Exported(u, from, to)
    <3>1. ~InWindow(t, from, to)
      BY <2>1, <2>6 DEF Closed
    <3>2. \A u \in Tx : InWindow(u, from, to)' = InWindow(u, from, to)
      BY <2>1 DEF InWindow
    <3>3. \A u : Exported(u, from, to)' => Exported(u, from, to)
      BY <2>3, <3>1, <3>2 DEF Exported, Committed
    <3>4. Closed(from, to)'
      BY <2>1, <2>3, <2>6, <3>2 DEF Closed
    <3>. QED BY <3>3, <3>4
  <2>. QED BY <2>4, <2>5, <2>6
<1>. HIDE DEF Keeps
<1>. QED BY <1>1, <1>2, <1>3

(* A step that keeps what was exported keeps the answers and the job.      *)
LEMMA KeptAnswers ==
  ASSUME WriteTypes, Keeps, NEW a, AnswerOk(a)
  PROVE  AnswerOk(a)'
<1>1. a.from \in Int /\ a.to \in Int
  BY DEF AnswerOk
<1>2. ASSUME TrueRecords(a.records, a.from, a.to) PROVE TrueRecords(a.records, a.from, a.to)'
  BY <1>2 DEF TrueRecords, Keeps
<1>3. ASSUME Closed(a.from, a.to), \A t \in Tx : Exported(t, a.from, a.to) => RecordOf(t) \in a.records
      PROVE  /\ Closed(a.from, a.to)'
             /\ \A t \in Tx : Exported(t, a.from, a.to)' => RecordOf(t)' \in a.records
  BY <1>1, <1>3 DEF Keeps
<1>. QED BY <1>1, <1>2, <1>3 DEF AnswerOk

(* What a running export has read stays true while the writers go on       *)
(* (query.go ExportTransactions reads row after row).                      *)
LEMMA KeptJob ==
  ASSUME WriteTypes, Keeps, JobOk, job' = job
  PROVE  JobOk'
<1>1. job.from \in Int /\ job.to \in Int
  BY DEF JobOk
<1>2. TrueRecords(job.records, job.from, job.to)'
  BY DEF JobOk, TrueRecords, Keeps
<1>3. \A t \in job.todo : Exported(t, job.from, job.to)'
  BY DEF JobOk, Keeps
<1>4. job.quiet => /\ Closed(job.from, job.to)'
                   /\ \A t \in Tx : Exported(t, job.from, job.to)' =>
                         t \in job.todo \/ RecordOf(t)' \in job.records
  BY <1>1 DEF JobOk, Keeps
<1>. QED BY <1>1, <1>2, <1>3, <1>4 DEF JobOk

(* A new answer that follows the earlier ones keeps the relations between  *)
(* answers.                                                                *)
LEMMA NewAnswer ==
  ASSUME NEW S, answers \in Seq(S), LaterExportAgrees,
         NEW b, answers' = Append(answers, b),
         \A i \in DOMAIN answers :
            LET a == answers[i]
            IN  a.from = b.from /\ a.to = b.to /\ a.ok /\ b.ok =>
                  a.records \subseteq b.records /\ (a.quiet => a.records = b.records)
  PROVE  LaterExportAgrees'
<1>1. /\ DOMAIN answers' = 1 .. Len(answers) + 1 /\ DOMAIN answers = 1 .. Len(answers)
      /\ Len(answers) \in Nat
      /\ answers'[Len(answers) + 1] = b
      /\ \A i \in DOMAIN answers : answers'[i] = answers[i]
  OBVIOUS
<1>2. ASSUME NEW i \in DOMAIN answers', NEW j \in DOMAIN answers', i < j
      PROVE  i \in DOMAIN answers /\ (j \in DOMAIN answers \/ j = Len(answers) + 1)
  BY <1>1, <1>2
<1>3. LaterExportAgrees'
  <2>. SUFFICES ASSUME NEW i \in DOMAIN answers', NEW j \in DOMAIN answers', i < j
                PROVE  LET a == answers'[i]
                           c == answers'[j]
                       IN  a.from = c.from /\ a.to = c.to /\ a.ok /\ c.ok =>
                             a.records \subseteq c.records /\ (a.quiet => a.records = c.records)
    BY DEF LaterExportAgrees
  <2>1. i \in DOMAIN answers /\ answers'[i] = answers[i]
    BY <1>1, <1>2
  <2>2. CASE j \in DOMAIN answers
    BY <1>1, <2>1, <2>2 DEF LaterExportAgrees
  <2>3. CASE j = Len(answers) + 1
    BY <1>1, <2>1, <2>3
  <2>. QED BY <1>2, <2>2, <2>3
<1>. QED BY <1>3

(* The steps of the export change nothing that is written.                 *)
LEMMA ReadersKeep ==
  ASSUME WriteTypes, UNCHANGED writeVars
  PROVE  Keeps
<1>1. now' = now /\ start' = start /\ stage' = stage /\ entries' = entries
  BY DEF writeVars
<1>2. \A t : RecordOf(t)' = RecordOf(t)
  BY <1>1 DEF RecordOf, ListEntriesByTransaction
<1>3. \A t, from, to : Exported(t, from, to)' <=> Exported(t, from, to)
  BY <1>1 DEF Exported, Committed, InWindow
<1>4. \A from, to : Closed(from, to)' <=> Closed(from, to)
  BY <1>1 DEF Closed, InWindow
<1>5. WriteTypes'
  BY <1>1 DEF WriteTypes
<1>. QED BY <1>2, <1>3, <1>4, <1>5 DEF Keeps

(* An answer is added to a sequence of answers.                            *)
LEMMA AppendSeq ==
  \A s, b, s1 : IsSeq(s) /\ s1 = Append(s, b) =>
    /\ IsSeq(s1) /\ DOMAIN s1 = DOMAIN s \cup {Len(s) + 1}
    /\ s1[Len(s) + 1] = b /\ \A i \in DOMAIN s : s1[i] = s[i]
<1>. SUFFICES ASSUME NEW s, IsSeq(s), NEW b, NEW s1, s1 = Append(s, b)
              PROVE  /\ IsSeq(s1) /\ DOMAIN s1 = DOMAIN s \cup {Len(s) + 1}
                     /\ s1[Len(s) + 1] = b /\ \A i \in DOMAIN s : s1[i] = s[i]
  BY DEF IsSeq
<1>. DEFINE S == {s[i] : i \in DOMAIN s}
<1>1. s \in Seq(S)
  BY DEF IsSeq
<1>2. s1 \in Seq(S \cup {b}) /\ Len(s1) = Len(s) + 1 /\ Len(s) \in Nat
  <2>. HIDE DEF S
  <2>. QED BY <1>1
<1>3. s1[Len(s) + 1] = b /\ \A i \in 1 .. Len(s) : s1[i] = s[i]
  <2>. HIDE DEF S
  <2>. QED BY <1>1
<1>4. DOMAIN s = 1 .. Len(s) /\ DOMAIN s1 = 1 .. Len(s) + 1
  <2>. HIDE DEF S
  <2>. QED BY <1>1, <1>2
<1>5. s1 \in [1 .. Len(s) + 1 -> {s1[i] : i \in DOMAIN s1}]
  <2>1. s1 = [i \in 1 .. Len(s) + 1 |-> s1[i]]
    <3>. HIDE DEF S
    <3>1. s1 \in [1 .. Len(s1) -> S \cup {b}]
      BY <1>2, LenProperties, Zenon
    <3>. QED BY <1>2, <3>1
  <2>. QED BY <2>1, <1>4
<1>6. \A T : \A n \in Nat : \A f \in [1 .. n -> T] : f \in Seq(T)
  OBVIOUS
<1>7. IsSeq(s1)
  <2>1. Len(s) + 1 \in Nat
    BY <1>2
  <2>. QED BY <1>5, <1>6, <2>1 DEF IsSeq
<1>. QED BY <1>2, <1>3, <1>4, <1>7

(* The answer of the job, with everything the earlier answers oblige it to.*)
LEMMA AnswerStep ==
  ASSUME ExportInv, UNCHANGED writeVars, job.pc = "read", NEW ok \in BOOLEAN, NEW R, Answer(ok, R),
         ok => job.todo = {} /\ R = job.records
  PROVE  ExportInv'
<1>. DEFINE b == [from |-> job.from, to |-> job.to, quiet |-> job.quiet, ok |-> ok, records |-> R]
<1>1. /\ WriteTypes /\ IsSeq(answers) /\ \A i \in DOMAIN answers : AnswerOk(answers[i])
      /\ LaterExportAgrees
  BY DEF ExportInv
<1>2. JobOk /\ \A i \in DOMAIN answers : Follows(answers[i])
  BY DEF ExportInv, Idle
<1>3. answers' = Append(answers, b) /\ job' = Idle
  BY DEF Answer
<1>4. Keeps
  BY <1>1, ReadersKeep
<1>5. AnswerOk(b)
  BY <1>2 DEF AnswerOk, JobOk
<1>6. ASSUME NEW i \in DOMAIN answers, NEW a, a = answers[i]
      PROVE  a.from = b.from /\ a.to = b.to /\ a.ok /\ b.ok =>
               a.records \subseteq b.records /\ (a.quiet => a.records = b.records)
  <2>1. AnswerOk(a) /\ Follows(a)
    BY <1>1, <1>2, <1>6
  <2>2. ASSUME a.from = b.from, a.to = b.to, a.ok, b.ok PROVE a.records \subseteq b.records
    BY <2>1, <2>2 DEF Follows
  <2>3. ASSUME a.from = b.from, a.to = b.to, a.ok, b.ok, a.quiet PROVE b.records \subseteq a.records
    <3>. SUFFICES ASSUME NEW r \in b.records PROVE r \in a.records
      OBVIOUS
    <3>1. Exported(r.tx, a.from, a.to) /\ r = RecordOf(r.tx)
      BY <1>2, <2>3 DEF JobOk, TrueRecords
    <3>2. r.tx \in Tx
      BY <3>1 DEF Exported
    <3>. QED BY <2>1, <2>3, <3>1, <3>2 DEF AnswerOk
  <2>. QED BY <2>2, <2>3
<1>7. LaterExportAgrees'
  <2>1. answers \in Seq({answers[i] : i \in DOMAIN answers})
    BY <1>1 DEF IsSeq
  <2>. HIDE DEF b
  <2>. QED BY <1>1, <1>3, <1>6, <2>1, NewAnswer
<1>8. /\ IsSeq(answers') /\ DOMAIN answers' = DOMAIN answers \cup {Len(answers) + 1}
      /\ answers'[Len(answers) + 1] = b /\ \A i \in DOMAIN answers : answers'[i] = answers[i]
  <2>1. IsSeq(answers) /\ answers' = Append(answers, b)
    BY <1>1, <1>3
  <2>. HIDE DEF b
  <2>. QED BY <2>1, AppendSeq DEF IsSeq
<1>9. \A i \in DOMAIN answers' : AnswerOk(answers[i])' 
  <2>1. \A a : AnswerOk(a) => AnswerOk(a)'
    BY <1>1, <1>4, KeptAnswers
  <2>. QED BY <2>1, <1>1, <1>5, <1>8
<1>10. WriteTypes'
  BY <1>4 DEF Keeps
<1>. QED BY <1>3, <1>7, <1>8, <1>9, <1>10 DEF ExportInv, IsSeq

(* Writers change neither the answers nor the job.                         *)
LEMMA WriteStep ==
  ASSUME ExportInv, Tick \/ (\E t \in Tx : Begin(t) \/ Commit(t) \/ Abort(t))
  PROVE  ExportInv'
<1>1. job' = job /\ answers' = answers
  BY DEF Tick, Begin, Commit, Abort
<1>2. WriteTypes /\ Keeps
  BY WritersKeep DEF ExportInv
<1>3. \A i \in DOMAIN answers' : AnswerOk(answers[i])'
  <2>1. \A a : AnswerOk(a) => AnswerOk(a)'
    BY <1>2, KeptAnswers
  <2>. QED BY <2>1, <1>1 DEF ExportInv
<1>4. JobOk => JobOk'
  BY <1>1, <1>2, KeptJob
<1>5. \A a : Follows(a)' <=> Follows(a)
  BY <1>1 DEF Follows
<1>6. job' = Idle \/ (job'.pc = "read" /\ JobOk' /\ \A i \in DOMAIN answers' : Follows(answers[i])')
  BY <1>1, <1>4, <1>5 DEF ExportInv
<1>7. LaterExportAgrees'
  BY <1>1 DEF ExportInv, LaterExportAgrees
<1>. QED BY <1>1, <1>2, <1>3, <1>6, <1>7 DEF ExportInv, Keeps

(* A step of the export that gives no answer: the answers stay as they are.*)
LEMMA JobStep ==
  ASSUME ExportInv, UNCHANGED <<writeVars, answers>>,
         job' = Idle \/ (job'.pc = "read" /\ JobOk' /\ \A i \in DOMAIN answers : Follows(answers[i])')
  PROVE  ExportInv'
<1>1. UNCHANGED writeVars /\ answers' = answers
  OBVIOUS
<1>2. WriteTypes /\ Keeps
  BY <1>1, ReadersKeep DEF ExportInv
<1>3. \A i \in DOMAIN answers' : AnswerOk(answers[i])'
  <2>1. \A a : AnswerOk(a) => AnswerOk(a)'
    BY <1>2, KeptAnswers
  <2>. QED BY <2>1, <1>1 DEF ExportInv
<1>4. LaterExportAgrees'
  BY <1>1 DEF ExportInv, LaterExportAgrees
<1>. QED BY <1>1, <1>2, <1>3, <1>4 DEF ExportInv, Keeps

(* The statement that reads the window: what earlier answers of the window *)
(* hold is in it.                                                          *)
LEMMA ListStep ==
  ASSUME ExportInv, NEW from \in Int, NEW to \in Int, ListTransactionsByWindow(from, to)
  PROVE  ExportInv'
<1>. DEFINE todo == {t \in Tx : Committed(t) /\ InWindow(t, from, to)}
<1>1. UNCHANGED <<writeVars, answers>>
  BY DEF ListTransactionsByWindow
<1>2. /\ job'.pc = "read" /\ job'.from = from /\ job'.to = to /\ job'.quiet = Quiet(from, to)
      /\ job'.records = {} /\ job'.todo = todo
  BY DEF ListTransactionsByWindow
<1>3. WriteTypes /\ \A i \in DOMAIN answers : AnswerOk(answers[i])
  BY DEF ExportInv
<1>4. \A t : t \in todo <=> Exported(t, from, to)
  BY DEF Exported
<1>5. \A t, u, v : Exported(t, u, v)' <=> Exported(t, u, v)
  BY <1>1 DEF Exported, Committed, InWindow, writeVars
<1>6. Quiet(from, to) => Closed(from, to)'
  BY <1>1 DEF Quiet, Closed, InWindow, writeVars
<1>. HIDE DEF todo
<1>7. JobOk'
  BY <1>2, <1>4, <1>5, <1>6 DEF JobOk, TrueRecords
<1>8. ASSUME NEW a, AnswerOk(a) PROVE Follows(a)'
  <2>1. ASSUME a.ok, a.from = from, a.to = to PROVE \A r \in a.records : r.tx \in todo
    BY <1>4, <1>8, <2>1 DEF AnswerOk, TrueRecords
  <2>. QED BY <1>2, <2>1 DEF Follows
<1>9. \A i \in DOMAIN answers : Follows(answers[i])'
  BY <1>3, <1>8, <1>1
<1>. QED BY <1>1, <1>2, <1>7, <1>9, JobStep

(* The entries of a leg are read: the leg moves from the rows still to be  *)
(* read to the records.                                                    *)
LEMMA ReadStep ==
  ASSUME ExportInv, NEW t \in Tx, ReadRow(t)
  PROVE  ExportInv'
<1>1. /\ job.pc = "read" /\ t \in job.todo /\ UNCHANGED writeVars
  BY DEF ReadRow
<1>2. JobOk /\ \A i \in DOMAIN answers : Follows(answers[i])
  BY <1>1 DEF ExportInv, Idle
<1>3. CASE ~Decodes(t)
  <2>1. Answer(FALSE, {})
    BY <1>3 DEF ReadRow
  <2>. QED BY <1>1, <2>1, AnswerStep
<1>4. CASE Decodes(t)
  <2>1. t \in Leg
    BY <1>4 DEF Decodes
  <2>2. answers' = answers /\ job' = [job EXCEPT !.todo = @ \ {t}, !.records = @ \cup {RecordOf(t)}]
    BY <1>4 DEF ReadRow
  <2>3. /\ job'.pc = job.pc /\ job'.from = job.from /\ job'.to = job.to /\ job'.quiet = job.quiet
        /\ job'.todo = job.todo \ {t} /\ job'.records = job.records \cup {RecordOf(t)}
    BY <2>2
  <2>4. \A u, from, to : Exported(u, from, to)' <=> Exported(u, from, to)
    BY <1>1 DEF Exported, Committed, InWindow, writeVars
  <2>5. \A u : RecordOf(u)' = RecordOf(u)
    BY <1>1 DEF RecordOf, ListEntriesByTransaction, writeVars
  <2>6. \A from, to : Closed(from, to)' <=> Closed(from, to)
    BY <1>1 DEF Closed, InWindow, writeVars
  <2>7. RecordOf(t).tx = t
    BY RecordTx
  <2>8. JobOk'
    <3>1. job'.from \in Int /\ job'.to \in Int /\ \A u \in job'.todo : Exported(u, job.from, job.to)'
      BY <1>2, <2>3, <2>4 DEF JobOk
    <3>2. TrueRecords(job.records, job.from, job.to)'
      BY <1>1, <1>2, <2>1, <2>3, <2>4, <2>5, <2>7 DEF JobOk, TrueRecords
    <3>3. job.quiet => /\ Closed(job.from, job.to)
                       /\ \A u \in Tx : Exported(u, job.from, job.to) =>
                            u \in job'.todo \/ RecordOf(u) \in job'.records
      BY <1>2, <2>3 DEF JobOk
    <3>. QED BY <3>1, <3>2, <3>3, <2>3, <2>4, <2>5, <2>6 DEF JobOk
  <2>9. ASSUME NEW a, AnswerOk(a), Follows(a) PROVE Follows(a)'
    <3>1. ASSUME a.ok, a.from = job.from, a.to = job.to, NEW r \in a.records
          PROVE  r.tx \in job'.todo \/ r \in job'.records
      <4>1. r = RecordOf(r.tx)
        BY <2>9, <3>1 DEF AnswerOk, TrueRecords
      <4>2. r.tx \in job.todo \/ r \in job.records
        BY <2>9, <3>1 DEF Follows
      <4>. QED BY <2>3, <4>1, <4>2
    <3>. QED BY <2>3, <3>1 DEF Follows
  <2>10. \A i \in DOMAIN answers : Follows(answers[i])'
    BY <1>2, <2>2, <2>9 DEF ExportInv
  <2>. QED BY <1>1, <2>2, <2>3, <2>8, <2>10, JobStep
<1>. QED BY <1>3, <1>4

(* Every step of the specification keeps the invariant.                    *)
LEMMA ExportStep == ExportInv /\ [Next]_vars => ExportInv'
<1>. SUFFICES ASSUME ExportInv, [Next]_vars PROVE ExportInv'
  OBVIOUS
<1>1. CASE Tick \/ \E t \in Tx : Begin(t) \/ Commit(t) \/ Abort(t)
  BY <1>1, WriteStep
<1>2. ASSUME NEW from \in 0 .. MaxTime, NEW to \in from + 1 .. MaxTime + 1,
             ListTransactionsByWindow(from, to)
      PROVE  ExportInv'
  <2>1. from \in Int /\ to \in Int
    BY ExportAssumption
  <2>. QED BY <1>2, <2>1, ListStep
<1>3. ASSUME NEW t \in Tx, ReadRow(t) PROVE ExportInv'
  BY <1>3, ReadStep
<1>4. CASE SendRecords
  <2>1. job.pc = "read" /\ job.todo = {} /\ Answer(TRUE, job.records) /\ UNCHANGED writeVars
    BY <1>4 DEF SendRecords
  <2>. QED BY <2>1, AnswerStep
<1>5. CASE ExportBreaks
  <2>1. job' = Idle /\ UNCHANGED <<writeVars, answers>>
    BY <1>5 DEF ExportBreaks
  <2>. QED BY <2>1, JobStep
<1>6. CASE UNCHANGED vars
  <2>1. UNCHANGED writeVars /\ answers' = answers /\ job' = job
    BY <1>6 DEF vars, writeVars
  <2>2. WriteTypes /\ Keeps
    BY <2>1, ReadersKeep DEF ExportInv
  <2>3. JobOk => JobOk'
    BY <2>1, <2>2, KeptJob
  <2>4. \A a : Follows(a)' <=> Follows(a)
    BY <2>1 DEF Follows
  <2>5. job' = Idle \/ (job'.pc = "read" /\ JobOk' /\ \A i \in DOMAIN answers : Follows(answers[i])')
    BY <2>1, <2>3, <2>4 DEF ExportInv
  <2>. QED BY <2>1, <2>5, JobStep
<1>. QED BY <1>1, <1>2, <1>3, <1>4, <1>5, <1>6 DEF Next

(* Nothing is written and nothing exported.                                *)
LEMMA ExportInit == Init => ExportInv
BY ExportAssumption DEF Init, ExportInv, WriteTypes, IsSeq, Idle, LaterExportAgrees

(* The invariant of the export holds in every state.                       *)
LEMMA ExportAlways == Spec => []ExportInv
BY ExportInit, ExportStep, PTL DEF Spec

-----------------------------------------------------------------------------
(* What the loop over the entries adds up: a fold over the numbered lines  *)
(* of a leg is the sum over the set of its debits.                         *)

(* A set that holds 0 and the successor of each of its numbers holds every *)
(* number.                                                                 *)
LEMMA CountingUp ==
  ASSUME NEW T, 0 \in T, \A n \in Nat : n \in T => n + 1 \in T
  PROVE  \A n \in Nat : n \in T
<1>. DEFINE R == {ss \in Nat \X Nat : ss[1] < ss[2]}
            B == Nat \ T
<1>1. IsWellFoundedOn(R, Nat)
  BY NatLessThanWellFounded DEF OpToRel
<1>2. \A a, b \in Nat : a < b => <<a, b>> \in R
  OBVIOUS
<1>3. SUFFICES ASSUME B # {} PROVE FALSE
  OBVIOUS
<1>4. B \subseteq Nat
  OBVIOUS
<1>. HIDE DEF R
<1>5. PICK x \in B : \A y \in B : ~(<<y, x>> \in R)
  <2>. HIDE DEF B
  <2>. QED BY <1>1, <1>3, <1>4, WFMin
<1>6. x \in Nat /\ x # 0
  OBVIOUS
<1>7. x - 1 \in Nat /\ x - 1 < x /\ (x - 1) + 1 = x
  BY <1>6
<1>8. x - 1 \notin B
  BY <1>5, <1>7, <1>2, <1>6
<1>. QED BY <1>5, <1>7, <1>8

(* The sizes of the subsets of a finite set.                               *)
LEMMA Sizes ==
  ASSUME NEW S, IsFiniteSet(S)
  PROVE  \A s \in SUBSET S : /\ Cardinality(s) \in Nat
                             /\ Cardinality(s) = 0 <=> s = {}
                             /\ \A x \in s : Cardinality(s \ {x}) = Cardinality(s) - 1
<1>. TAKE s \in SUBSET S
<1>1. IsFiniteSet(s)
  BY FS_Subset
<1>2. Cardinality(s) \in Nat /\ (Cardinality(s) = 0 <=> s = {})
  BY <1>1, FS_CardinalityType, FS_EmptySet
<1>3. \A x \in s : Cardinality(s \ {x}) = Cardinality(s) - 1
  BY <1>1, FS_RemoveElement
<1>. QED BY <1>2, <1>3

(* Induction over the subsets of a finite set, one element at a time.      *)
LEMMA SubsetInduction ==
  ASSUME NEW S, IsFiniteSet(S), NEW P, {} \in P,
         \A s \in SUBSET S : s # {} /\ (\A x \in s : s \ {x} \in P) => s \in P
  PROVE  \A s \in SUBSET S : s \in P
<1>. DEFINE T == {n \in Nat : \A s \in SUBSET S : Cardinality(s) = n => s \in P}
<1>1. 0 \in T
  BY Sizes
<1>2. ASSUME NEW n \in Nat, n \in T PROVE n + 1 \in T
  <2>. SUFFICES ASSUME NEW s \in SUBSET S, Cardinality(s) = n + 1 PROVE s \in P
    OBVIOUS
  <2>1. s # {}
    BY Sizes
  <2>2. \A x \in s : Cardinality(s \ {x}) = n
    BY Sizes
  <2>. QED BY <1>2, <2>1, <2>2
<1>. HIDE DEF T
<1>3. \A n \in Nat : n \in T
  BY <1>1, <1>2, CountingUp
<1>4. \A s \in SUBSET S : Cardinality(s) \in Nat
  BY Sizes
<1>. QED BY <1>3, <1>4 DEF T

(* g[s] is f added up over s, taking the elements in some order.               *)
Sums(S, f) ==
    {g \in [SUBSET S -> Int] :
        /\ g[{}] = 0
        /\ \A s \in SUBSET S : s # {} => \E x \in s : g[s] = f[x] + g[s \ {x}]}

TakesAny(g, f, S) == \A s \in SUBSET S : \A x \in s : g[s] = f[x] + g[s \ {x}]

(* The order in which the elements are taken does not matter.              *)
LEMMA AnyOrder ==
  ASSUME NEW S, NEW f \in [S -> Int], NEW g \in Sums(S, f), IsFiniteSet(S)
  PROVE  TakesAny(g, f, S)
<1>. DEFINE P == {s \in SUBSET S : \A x \in s : g[s] = f[x] + g[s \ {x}]}
<1>1. {} \in P
  OBVIOUS
<1>2. ASSUME NEW s \in SUBSET S, s # {}, \A x \in s : s \ {x} \in P PROVE s \in P
  <2>. SUFFICES ASSUME NEW x \in s PROVE g[s] = f[x] + g[s \ {x}]
    OBVIOUS
  <2>1. PICK y \in s : g[s] = f[y] + g[s \ {y}]
    BY <1>2 DEF Sums
  <2>2. CASE x = y
    BY <2>1, <2>2
  <2>3. CASE x # y
    <3>1. g[s \ {y}] = f[x] + g[(s \ {y}) \ {x}]
      BY <1>2, <2>3
    <3>2. g[s \ {x}] = f[y] + g[(s \ {x}) \ {y}]
      BY <1>2, <2>3
    <3>3. (s \ {y}) \ {x} = (s \ {x}) \ {y}
      OBVIOUS
    <3>4. f[x] \in Int /\ f[y] \in Int /\ g[(s \ {x}) \ {y}] \in Int
      BY DEF Sums
    <3>5. \A a, b, c \in Int : a + (b + c) = b + (a + c)
      OBVIOUS
    <3>6. f[y] + (f[x] + g[(s \ {x}) \ {y}]) = f[x] + (f[y] + g[(s \ {x}) \ {y}])
      BY <3>4, <3>5, Zenon
    <3>. QED BY <2>1, <3>1, <3>2, <3>3, <3>6, Zenon
  <2>. QED BY <2>2, <2>3
<1>. HIDE DEF P
<1>3. \A s \in SUBSET S : s \in P
  BY <1>1, <1>2, SubsetInduction
<1>. QED BY <1>3 DEF P, TakesAny

(* A sum that takes the elements in a given order.                         *)
Chooses(ch, S) == \A s \in SUBSET S : s # {} => ch[s] \in s

Solutions(S, f, ch) ==
    {g \in [SUBSET S -> Int] :
        g = [s \in SUBSET S |-> IF s = {} THEN 0 ELSE f[ch[s]] + g[s \ {ch[s]}]]}

(* A sum over a finite set exists, in any order.                           *)
LEMMA SumExists ==
  ASSUME NEW S, NEW f \in [S -> Int], NEW ch, IsFiniteSet(S), Chooses(ch, S)
  PROVE  Solutions(S, f, ch) # {}
<1>0. \A s \in SUBSET S : s # {} => ch[s] \in s
  BY DEF Chooses
<1>. DEFINE Upto(g, n) == \A s \in SUBSET S : Cardinality(s) <= n =>
                            g[s] = IF s = {} THEN 0 ELSE f[ch[s]] + g[s \ {ch[s]}]
            T == {n \in Nat : \E g \in [SUBSET S -> Int] : Upto(g, n)}
<1>1. 0 \in T
  <2>. DEFINE g == [s \in SUBSET S |-> 0]
  <2>1. \A s \in SUBSET S : Cardinality(s) <= 0 => s = {}
    BY Sizes
  <2>2. g \in [SUBSET S -> Int] /\ Upto(g, 0)
    BY <2>1
  <2>. QED BY <2>2
<1>2. ASSUME NEW n \in Nat, n \in T PROVE n + 1 \in T
  <2>1. PICK g \in [SUBSET S -> Int] : Upto(g, n)
    BY <1>2
  <2>. DEFINE h == [s \in SUBSET S |-> IF Cardinality(s) <= n THEN g[s]
                                       ELSE f[ch[s]] + g[s \ {ch[s]}]]
  <2>2. \A s \in SUBSET S : s # {} => f[ch[s]] \in Int /\ s \ {ch[s]} \in SUBSET S
    BY <1>0
  <2>3. \A s \in SUBSET S : /\ Cardinality(s) \in Nat
                            /\ s # {} => Cardinality(s \ {ch[s]}) = Cardinality(s) - 1
                            /\ ~(Cardinality(s) <= n) => s # {}
    BY <1>0, Sizes
  <2>4. h \in [SUBSET S -> Int]
    BY <2>2, <2>3
  <2>5. ASSUME NEW s \in SUBSET S, Cardinality(s) <= n + 1
        PROVE  h[s] = IF s = {} THEN 0 ELSE f[ch[s]] + h[s \ {ch[s]}]
    <3>1. CASE s = {}
      <4>1. Cardinality(s) <= n
        BY <3>1, FS_EmptySet
      <4>. QED BY <2>1, <3>1, <4>1
    <3>2. CASE s # {}
      <4>1. Cardinality(s \ {ch[s]}) <= n
        BY <2>3, <2>5, <3>2
      <4>2. h[s \ {ch[s]}] = g[s \ {ch[s]}]
        BY <2>2, <3>2, <4>1
      <4>3. h[s] = f[ch[s]] + g[s \ {ch[s]}]
        BY <2>1, <3>2
      <4>. HIDE DEF h
      <4>. QED BY <3>2, <4>2, <4>3
    <3>. QED BY <3>1, <3>2
  <2>6. Upto(h, n + 1)
    <3>. HIDE DEF h
    <3>. QED BY <2>5
  <2>. HIDE DEF h, Upto
  <2>. QED BY <2>4, <2>6
<1>. HIDE DEF T
<1>3. \A n \in Nat : n \in T
  BY <1>1, <1>2, CountingUp
<1>4. Cardinality(S) \in Nat /\ \A s \in SUBSET S : Cardinality(s) <= Cardinality(S)
  BY FS_CardinalityType, FS_Subset
<1>5. PICK g \in [SUBSET S -> Int] : Upto(g, Cardinality(S))
  BY <1>3, <1>4 DEF T
<1>6. \A s \in SUBSET S : g[s] = IF s = {} THEN 0 ELSE f[ch[s]] + g[s \ {ch[s]}]
  BY <1>4, <1>5
<1>7. g = [s \in SUBSET S |-> g[s]]
  OBVIOUS
<1>8. g = [s \in SUBSET S |-> IF s = {} THEN 0 ELSE f[ch[s]] + g[s \ {ch[s]}]]
  BY <1>6, <1>7
<1>. QED BY <1>8 DEF Solutions

(* Two sums agree when one is over numbered lines, the other over the set  *)
(* of those that count.                                                    *)
LEMMA SumOfNumbered ==
  ASSUME NEW S, NEW f, NEW g, NEW T, NEW h, NEW k, NEW q,
         IsFiniteSet(S), f \in [S -> Int], g \in Sums(S, f),
         IsFiniteSet(T), h \in [T -> Int], k \in Sums(T, h),
         \A i, j \in S : q[i] = q[j] => i = j,
         \A i \in S : f[i] = IF q[i] \in T THEN h[q[i]] ELSE 0,
         \A x \in T : \E i \in S : q[i] = x
  PROVE  g[S] = k[T]
<1>. DEFINE Img(I) == {x \in T : \E i \in I : q[i] = x}
            P == {I \in SUBSET S : g[I] = k[Img(I)]}
<1>a. TakesAny(g, f, S)
  BY AnyOrder, Zenon
<1>b. TakesAny(k, h, T)
  BY AnyOrder, Zenon
<1>1. {} \in P
  <2>1. Img({}) = {}
    OBVIOUS
  <2>. QED BY <2>1 DEF Sums
<1>2. ASSUME NEW I \in SUBSET S, I # {}, \A i \in I : I \ {i} \in P PROVE I \in P
  <2>1. PICK i : i \in I
    BY <1>2
  <2>2. g[I] = f[i] + g[I \ {i}]
    BY <2>1, <1>a DEF TakesAny
  <2>3. g[I \ {i}] = k[Img(I \ {i})]
    BY <1>2, <2>1
  <2>4. k[Img(I \ {i})] \in Int
    <3>1. Img(I \ {i}) \in SUBSET T
      OBVIOUS
    <3>. HIDE DEF Img
    <3>. QED BY <3>1 DEF Sums
  <2>5. CASE q[i] \in T
    <3>1. q[i] \in Img(I) /\ Img(I) \in SUBSET T
      BY <2>1, <2>5
    <3>2. Img(I) \ {q[i]} = Img(I \ {i})
      BY <2>1
    <3>3. k[Img(I)] = h[q[i]] + k[Img(I) \ {q[i]}]
      <4>. HIDE DEF Img
      <4>. QED BY <3>1, <1>b DEF TakesAny
    <3>4. f[i] = h[q[i]]
      BY <2>1, <2>5
    <3>5. g[I] = k[Img(I)]
      <4>. HIDE DEF Img, P
      <4>. QED BY <2>2, <2>3, <3>2, <3>3, <3>4
    <3>. QED BY <3>5
  <2>6. CASE q[i] \notin T
    <3>1. Img(I) = Img(I \ {i})
      BY <2>1, <2>6
    <3>2. f[i] = 0
      BY <2>1, <2>6
    <3>3. g[I] = k[Img(I)]
      <4>. HIDE DEF Img, P
      <4>. QED BY <2>2, <2>3, <2>4, <3>1, <3>2
    <3>. QED BY <3>3
  <2>. QED BY <2>5, <2>6
<1>3. \A I \in SUBSET S : I \in P
  <2>. HIDE DEF P
  <2>. QED BY <1>1, <1>2, SubsetInduction
<1>4. S \in SUBSET S /\ Img(S) = T
  OBVIOUS
<1>. QED BY <1>3, <1>4

(* A recursion over the subsets of a finite set that keeps to the integers *)
(* defines one for each of them.                                           *)
LEMMA KeepsInt ==
  ASSUME NEW S, NEW g, IsFiniteSet(S), g[{}] \in Int,
         \A s \in SUBSET S : s # {} => \E x \in s : g[s \ {x}] \in Int => g[s] \in Int
  PROVE  \A s \in SUBSET S : g[s] \in Int
<1>. DEFINE P == {s \in SUBSET S : g[s] \in Int}
<1>1. {} \in P
  OBVIOUS
<1>2. ASSUME NEW s \in SUBSET S, s # {}, \A x \in s : s \ {x} \in P PROVE s \in P
  <2>1. PICK x \in s : g[s \ {x}] \in Int => g[s] \in Int
    BY <1>2
  <2>. QED BY <1>2, <2>1
<1>. HIDE DEF P
<1>3. \A s \in SUBSET S : s \in P
  BY <1>1, <1>2, SubsetInduction
<1>. QED BY <1>3 DEF P

(* A set of line numbers has a last one.                                   *)
LEMMA LastLine ==
  ASSUME NEW n \in Int
  PROVE  \A s \in SUBSET (1 .. n) : s # {} => Max(s) \in s
<1>. DEFINE P == {s \in SUBSET (1 .. n) : s = {} \/ \E x \in s : \A y \in s : x >= y}
<1>1. {} \in P
  OBVIOUS
<1>2. ASSUME NEW s \in SUBSET (1 .. n), s # {}, \A x \in s : s \ {x} \in P PROVE s \in P
  <2>1. PICK x : x \in s
    BY <1>2
  <2>2. s \ {x} \in P
    BY <1>2, <2>1
  <2>3. CASE s \ {x} = {}
    <3>1. \A y \in s : x >= y
      BY <2>1, <2>3
    <3>. QED BY <2>1, <3>1
  <2>4. CASE s \ {x} # {}
    <3>1. PICK z \in s \ {x} : \A y \in s \ {x} : z >= y
      BY <2>2, <2>4
    <3>2. z \in Int /\ x \in Int /\ \A y \in s : y \in Int
      BY <2>1
    <3>3. CASE x >= z
      <4>1. \A y \in s : x >= y
        BY <3>1, <3>2, <3>3
      <4>. QED BY <2>1, <4>1
    <3>4. CASE ~(x >= z)
      <4>1. \A y \in s : z >= y
        BY <3>1, <3>2, <3>4
      <4>. QED BY <3>1, <4>1
    <3>. QED BY <3>3, <3>4
  <2>. QED BY <2>3, <2>4
<1>. HIDE DEF P
<1>3. IsFiniteSet(1 .. n)
  BY FS_Interval
<1>4. \A s \in SUBSET (1 .. n) : s \in P
  BY <1>1, <1>2, <1>3, SubsetInduction
<1>5. \A s \in SUBSET (1 .. n) : s # {} => \E x \in s : \A y \in s : x >= y
  BY <1>4 DEF P
<1>. QED BY <1>5 DEF Max

(* The reference: the debits of a leg added up as a set.                   *)
LEMMA MovedIsSum ==
  ASSUME NEW l \in Leg
  PROVE  LET D == {x \in Lines[l] : x.debit}
         IN  \E k \in Sums(D, [x \in D |-> x.amount]) : Moved(l) = k[D]
<1>. DEFINE D == {x \in Lines[l] : x.debit}
            h == [x \in D |-> x.amount]
            Pick(s) == CHOOSE x \in s : TRUE
            ch == [s \in SUBSET D |-> Pick(s)]
            Rec(k) == [s \in SUBSET D |-> IF s = {} THEN 0
                                          ELSE Pick(s).amount + k[s \ {Pick(s)}]]
            k0 == CHOOSE k : k = Rec(k)
<1>1. IsFiniteSet(D)
  <2>1. IsFiniteSet(Lines[l]) /\ D \in SUBSET Lines[l]
    BY ExportAssumption
  <2>. HIDE DEF D
  <2>. QED BY <2>1, FS_Subset
<1>2. h \in [D -> Int]
  BY ExportAssumption
<1>3. Moved(l) = k0[D]
  BY DEF Moved, MapThenSumSet, MapThenFoldSet
<1>4. \A s \in SUBSET D : s # {} => Pick(s) \in s /\ ch[s] = Pick(s) /\ h[Pick(s)] = Pick(s).amount
  <2>. HIDE DEF D
  <2>. QED OBVIOUS
<1>. HIDE DEF D
<1>5. PICK k : k \in Solutions(D, h, ch)
  <2>1. Chooses(ch, D)
    BY <1>4 DEF Chooses
  <2>. HIDE DEF h, ch, Pick
  <2>. QED BY <1>1, <1>2, <2>1, SumExists, Zenon
<1>6. k = Rec(k)
  <2>. HIDE DEF h, ch, Pick
  <2>. QED BY <1>4, <1>5 DEF Solutions
<1>7. k0 = Rec(k0)
  <2>. HIDE DEF Rec
  <2>. QED BY <1>6, Zenon
<1>. HIDE DEF k0
<1>8. \A s \in SUBSET D : k0[s] = IF s = {} THEN 0 ELSE Pick(s).amount + k0[s \ {Pick(s)}]
  <2>1. \A s \in SUBSET D : Rec(k0)[s] = IF s = {} THEN 0 ELSE Pick(s).amount + k0[s \ {Pick(s)}]
    <3>. HIDE DEF Pick
    <3>. QED OBVIOUS
  <2>. HIDE DEF Rec, Pick
  <2>. QED BY <1>7, <2>1
<1>9. k0 = [s \in SUBSET D |-> k0[s]]
  <2>1. Rec(k0) = [s \in SUBSET D |-> Rec(k0)[s]]
    OBVIOUS
  <2>. HIDE DEF Rec, Pick
  <2>. QED BY <1>7, <2>1
<1>. HIDE DEF h, ch, Pick, Rec
<1>10. \A s \in SUBSET D : k0[s] \in Int
  <2>1. k0[{}] \in Int
    <3>1. {} \in SUBSET D /\ 0 \in Int
      OBVIOUS
    <3>2. k0[{}] = 0
      BY <1>8, <3>1, Zenon
    <3>. QED BY <3>1, <3>2
  <2>2. ASSUME NEW s \in SUBSET D, s # {} PROVE \E x \in s : k0[s \ {x}] \in Int => k0[s] \in Int
    <3>1. Pick(s) \in s /\ Pick(s).amount \in Int
      BY <1>2, <1>4, <2>2
    <3>2. k0[s] = Pick(s).amount + k0[s \ {Pick(s)}]
      BY <1>8, <2>2, <3>1, Zenon
    <3>3. \A a, b \in Int : a + b \in Int
      OBVIOUS
    <3>4. k0[s \ {Pick(s)}] \in Int => k0[s] \in Int
      BY <3>1, <3>2, <3>3, Zenon
    <3>. QED BY <3>1, <3>4
  <2>. QED BY <1>1, <2>1, <2>2, KeepsInt
<1>11. k0 \in Sums(D, h)
  <2>1. k0 \in [SUBSET D -> Int]
    BY <1>9, <1>10
  <2>2. k0[{}] = 0
    <3>1. {} \in SUBSET D
      OBVIOUS
    <3>. QED BY <1>8, <3>1, Zenon
  <2>3. ASSUME NEW s \in SUBSET D, s # {} PROVE \E x \in s : k0[s] = h[x] + k0[s \ {x}]
    <3>1. Pick(s) \in s /\ h[Pick(s)] = Pick(s).amount
      BY <1>4, <2>3
    <3>2. k0[s] = h[Pick(s)] + k0[s \ {Pick(s)}]
      BY <1>8, <2>3, <3>1
    <3>. QED BY <3>1, <3>2
  <2>. QED BY <2>1, <2>2, <2>3 DEF Sums
<1>12. h = [x \in D |-> x.amount]
  BY DEF h
<1>. QED BY <1>3, <1>11, <1>12 DEF D

(* What each line adds.                                                    *)
Priced(L) == \A x \in L : x.debit \in BOOLEAN /\ x.amount \in Nat
Weights(q, n) == [i \in 1 .. n |-> IF q[i].debit THEN q[i].amount ELSE 0]

(* The code: a loop over the lines in their order.                         *)
LEMMA TotalIsSum ==
  ASSUME NEW n \in Nat, NEW L, NEW q \in [1 .. n -> L], Priced(L)
  PROVE  \E g \in Sums(1 .. n, Weights(q, n)) : Added(q) = g[1 .. n]
<1>0. \A x \in L : x.debit \in BOOLEAN /\ x.amount \in Nat
  BY DEF Priced
<1>. DEFINE S == 1 .. n
            f == [i \in S |-> IF q[i].debit THEN q[i].amount ELSE 0]
            ch == [s \in SUBSET S |-> Max(s)]
            Rec(g) == [s \in SUBSET S |-> IF s = {} THEN 0
                        ELSE IF q[Max(s)].debit THEN g[s \ {Max(s)}] + q[Max(s)].amount
                                                ELSE g[s \ {Max(s)}]]
            g0 == CHOOSE g : g = Rec(g)
<1>1. IsFiniteSet(S)
  BY FS_Interval
<1>2. f \in [S -> Int]
  BY <1>0
<1>3. Added(q) = g0[S]
  <2>1. DOMAIN q = S
    OBVIOUS
  <2>2. Added(q) =
          (CHOOSE g : g = [s \in SUBSET DOMAIN q |-> IF s = {} THEN 0
                        ELSE IF q[Max(s)].debit THEN g[s \ {Max(s)}] + q[Max(s)].amount
                                                ELSE g[s \ {Max(s)}]])[DOMAIN q]
    BY DEF Added, FoldLeft, MapThenFoldSet
  <2>. QED BY <2>1, <2>2
<1>4. \A s \in SUBSET S : s # {} =>
        /\ Max(s) \in s /\ ch[s] = Max(s) /\ f[Max(s)] \in Int
        /\ f[Max(s)] = IF q[Max(s)].debit THEN q[Max(s)].amount ELSE 0
  <2>1. \A s \in SUBSET S : s # {} => Max(s) \in s
    <3>1. n \in Int
      OBVIOUS
    <3>. QED BY <3>1, LastLine, Zenon
  <2>2. \A i \in S : f[i] \in Int /\ f[i] = IF q[i].debit THEN q[i].amount ELSE 0
    BY <1>2
  <2>3. \A s \in SUBSET S : ch[s] = Max(s)
    OBVIOUS
  <2>. HIDE DEF S, f, ch
  <2>. QED BY <2>1, <2>2, <2>3
<1>5. \A s \in SUBSET S : s # {} => q[Max(s)].debit \in BOOLEAN /\ q[Max(s)].amount \in Int
  <2>1. \A i \in S : q[i].debit \in BOOLEAN /\ q[i].amount \in Int
    BY <1>0
  <2>. QED BY <1>4, <2>1, Zenon
<1>. HIDE DEF S
<1>6. PICK g : g \in Solutions(S, f, ch)
  <2>1. Chooses(ch, S)
    BY <1>4 DEF Chooses
  <2>. HIDE DEF f, ch
  <2>. QED BY <1>1, <1>2, <2>1, SumExists, Zenon
<1>7. g = Rec(g)
  <2>. HIDE DEF f, ch
  <2>1. g \in [SUBSET S -> Int]
    BY <1>6 DEF Solutions
  <2>2. \A s \in SUBSET S : g[s] = IF s = {} THEN 0 ELSE f[ch[s]] + g[s \ {ch[s]}]
    BY <1>6 DEF Solutions
  <2>3. ASSUME NEW s \in SUBSET S PROVE g[s] = Rec(g)[s]
    <3>1. CASE s = {}
      BY <2>2, <3>1
    <3>2. CASE s # {}
      <4>. DEFINE m == Max(s)
                  r == s \ {m}
      <4>1. g[s] = f[m] + g[r] /\ r \in SUBSET S
        BY <1>4, <2>2, <3>2
      <4>2. f[m] \in Int /\ f[m] = IF q[m].debit THEN q[m].amount ELSE 0
        BY <1>4, <3>2
      <4>3. Rec(g)[s] = IF q[m].debit THEN g[r] + q[m].amount ELSE g[r]
        BY <3>2
      <4>4. q[m].debit \in BOOLEAN /\ q[m].amount \in Int
        BY <1>5, <3>2
      <4>5. g[r] \in Int
        BY <2>1, <4>1
      <4>. HIDE DEF m, r, Rec
      <4>. QED BY <4>1, <4>2, <4>3, <4>4, <4>5
    <3>. QED BY <3>1, <3>2
  <2>4. Rec(g) = [s \in SUBSET S |-> Rec(g)[s]] /\ g = [s \in SUBSET S |-> g[s]]
    BY <2>1
  <2>. HIDE DEF Rec
  <2>. QED BY <2>3, <2>4
<1>8. g0 = Rec(g0)
  <2>. HIDE DEF Rec
  <2>. QED BY <1>7, Zenon
<1>. HIDE DEF g0
<1>9. \A s \in SUBSET S : g0[s] = IF s = {} THEN 0
                        ELSE IF q[Max(s)].debit THEN g0[s \ {Max(s)}] + q[Max(s)].amount
                                                ELSE g0[s \ {Max(s)}]
  <2>1. \A s \in SUBSET S : Rec(g0)[s] = IF s = {} THEN 0
                        ELSE IF q[Max(s)].debit THEN g0[s \ {Max(s)}] + q[Max(s)].amount
                                                ELSE g0[s \ {Max(s)}]
    OBVIOUS
  <2>. HIDE DEF Rec
  <2>. QED BY <1>8, <2>1
<1>10. g0 = [s \in SUBSET S |-> g0[s]]
  <2>1. Rec(g0) = [s \in SUBSET S |-> Rec(g0)[s]]
    OBVIOUS
  <2>. HIDE DEF Rec
  <2>. QED BY <1>8, <2>1
<1>. HIDE DEF f, ch, Rec
<1>11. {} \in SUBSET S /\ 0 \in Int
  OBVIOUS
<1>12. g0[{}] = 0
  BY <1>9, <1>11, Zenon
<1>13. ASSUME NEW s \in SUBSET S, s # {}, g0[s \ {Max(s)}] \in Int
       PROVE  g0[s] \in Int /\ g0[s] = f[Max(s)] + g0[s \ {Max(s)}]
  <2>. DEFINE m == Max(s)
              r == s \ {m}
  <2>1. g0[s] = IF q[m].debit THEN g0[r] + q[m].amount ELSE g0[r]
    BY <1>9, <1>13, Zenon
  <2>2. f[m] = IF q[m].debit THEN q[m].amount ELSE 0
    BY <1>4, <1>13
  <2>3. q[m].debit \in BOOLEAN /\ q[m].amount \in Int /\ g0[r] \in Int
    BY <1>5, <1>13
  <2>. HIDE DEF m, r
  <2>4. g0[s] \in Int /\ g0[s] = f[m] + g0[r]
    BY <2>1, <2>2, <2>3
  <2>. QED BY <2>4 DEF m, r
<1>14. \A s \in SUBSET S : g0[s] \in Int
  <2>1. g0[{}] \in Int
    BY <1>11, <1>12
  <2>2. \A s \in SUBSET S : s # {} => \E x \in s : g0[s \ {x}] \in Int => g0[s] \in Int
    BY <1>4, <1>13, Zenon
  <2>. QED BY <1>1, <2>1, <2>2, KeepsInt
<1>15. g0 \in Sums(S, f)
  <2>1. g0 \in [SUBSET S -> Int]
    BY <1>10, <1>14
  <2>2. ASSUME NEW s \in SUBSET S, s # {} PROVE \E x \in s : g0[s] = f[x] + g0[s \ {x}]
    <3>1. Max(s) \in s /\ s \ {Max(s)} \in SUBSET S
      BY <1>4, <2>2
    <3>2. g0[s] = f[Max(s)] + g0[s \ {Max(s)}]
      BY <1>13, <1>14, <2>2, <3>1, Zenon
    <3>. QED BY <3>1, <3>2
  <2>. QED BY <2>1, <2>2, <1>12 DEF Sums
<1>16. f = Weights(q, n) /\ S = 1 .. n
  BY DEF f, S, Weights
<1>. QED BY <1>3, <1>15, <1>16

(* What the loop adds up is the money the leg moved, in whatever order the *)
(* lines are listed.                                                       *)
LEMMA DebitsAdded ==
  ASSUME NEW l \in Leg, NEW q \in SetToSeqs(Lines[l])
  PROVE  Added(q) = Moved(l)
<1>. DEFINE L == Lines[l]
            n == Cardinality(L)
            S == 1 .. n
            D == {x \in L : x.debit}
            f == Weights(q, n)
            h == [x \in D |-> x.amount]
<1>1. IsFiniteSet(L) /\ \A x \in L : x.debit \in BOOLEAN /\ x.amount \in Nat
  BY ExportAssumption
<1>2. n \in Nat /\ IsFiniteSet(D) /\ IsFiniteSet(S) /\ Cardinality(S) = n
  <2>1. n \in Nat
    BY <1>1, FS_CardinalityType
  <2>2. D \in SUBSET L
    OBVIOUS
  <2>3. IsFiniteSet(D)
    <3>. HIDE DEF D, L
    <3>. QED BY <1>1, <2>2, FS_Subset
  <2>4. IsFiniteSet(S) /\ Cardinality(S) = n
    <3>. HIDE DEF n
    <3>. QED BY <2>1, FS_Interval
  <2>. QED BY <2>1, <2>3, <2>4
<1>3. q \in [S -> L] /\ \A i, j \in S : q[i] = q[j] => i = j
  BY DEF SetToSeqs
<1>4. \A x \in L : \E i \in S : q[i] = x
  <2>1. q \in Injection(S, L)
    <3>. HIDE DEF S, L
    <3>. QED BY <1>3 DEF Injection, IsInjective
  <2>2. q \in Surjection(S, L)
    <3>. HIDE DEF S, L
    <3>. QED BY <1>1, <1>2, <2>1, FS_Injection DEF n
  <2>. HIDE DEF S, L
  <2>. QED BY <2>2 DEF Surjection
<1>5. PICK g \in Sums(S, f) : Added(q) = g[S]
  <2>1. Priced(L)
    BY <1>1 DEF Priced
  <2>. HIDE DEF n, L
  <2>. QED BY <2>1, <1>2, <1>3, TotalIsSum, Zenon
<1>6. PICK k \in Sums(D, h) : Moved(l) = k[D]
  BY MovedIsSum
<1>7. f \in [S -> Int] /\ h \in [D -> Int]
  BY <1>1, <1>3 DEF Weights
<1>8. \A i \in S : f[i] = IF q[i] \in D THEN h[q[i]] ELSE 0
  <2>1. \A i \in S : q[i] \in L
    BY <1>3
  <2>2. \A i \in S : f[i] = IF q[i].debit THEN q[i].amount ELSE 0
    BY DEF Weights
  <2>. HIDE DEF S, L, f
  <2>. QED BY <2>1, <2>2
<1>9. \A x \in D : \E i \in S : q[i] = x
  BY <1>4
<1>10. g[S] = k[D]
  <2>1. g \in Sums(S, f) /\ k \in Sums(D, h) /\ \A i, j \in S : q[i] = q[j] => i = j
    BY <1>3
  <2>. HIDE DEF S, D, f, h
  <2>2. IsFiniteSet(S) /\ IsFiniteSet(D)
    BY <1>2
  <2>. QED BY <1>7, <1>8, <1>9, <2>1, <2>2, SumOfNumbered, SMTT(30)
<1>. QED BY <1>5, <1>6, <1>10

(* An amount that an int64 can hold does not wrap.                         *)
LEMMA NoWrap == \A n \in Int64 : Wrap(n) = n
<1>. TAKE n \in Int64
<1>1. \A a, b \in Nat : a < b => a % b = a
  OBVIOUS
<1>2. MaxInt \in Nat
  BY ExportAssumption
<1>3. n + MaxInt + 1 \in Nat /\ 2 * (MaxInt + 1) \in Nat /\ n + MaxInt + 1 < 2 * (MaxInt + 1)
  BY <1>2 DEF Int64
<1>4. (n + MaxInt + 1) % (2 * (MaxInt + 1)) = n + MaxInt + 1
  BY <1>1, <1>3
<1>. QED BY <1>2, <1>4 DEF Wrap, Int64

(* For every set of transactions and any number of exports: a window that  *)
(* is exported again returns what it returned before, and more only if one *)
(* of its transactions was still open (query.go ExportTransactions).       *)
THEOREM LaterExports == Spec => []LaterExportAgrees
<1>1. ExportInv => LaterExportAgrees
  BY DEF ExportInv
<1>. QED BY <1>1, ExportAlways, PTL

(* A leg that is committed has its lines, each once.                       *)
LinesInv ==
    /\ WriteTypes
    /\ \A l \in Leg : Committed(l) => entries[l] \in SetToSeqs(Lines[l])

(* The header of a leg and its lines appear together (ledger.go Post).     *)
LEMMA LinesStep == LinesInv /\ [Next]_vars => LinesInv'
<1>. SUFFICES ASSUME LinesInv, [Next]_vars PROVE LinesInv'
  OBVIOUS
<1>1. WriteTypes
  BY DEF LinesInv
<1>2. CASE Tick \/ \E t \in Tx : Begin(t) \/ Abort(t)
  <2>1. WriteTypes'
    BY <1>1, <1>2, WritersKeep DEF Keeps
  <2>2. entries' = entries /\ \A l \in Leg : Committed(l)' => Committed(l)
    <3>1. CASE Tick
      BY <3>1 DEF Tick, Committed
    <3>2. ASSUME NEW t \in Tx, Begin(t) \/ Abort(t)
          PROVE  entries' = entries /\ \A l \in Leg : Committed(l)' => Committed(l)
      BY <1>1, <3>2 DEF Begin, Abort, Committed, WriteTypes, Tx
    <3>. QED BY <1>2, <3>1, <3>2
  <2>. QED BY <2>1, <2>2 DEF LinesInv
<1>3. ASSUME NEW t \in Tx, Commit(t) PROVE LinesInv'
  <2>1. WriteTypes'
    BY <1>1, <1>3, WritersKeep DEF Keeps
  <2>2. stage' = [stage EXCEPT ![t] = "committed"]
    BY <1>3 DEF Commit
  <2>3. CASE t \in Leg
    <3>1. PICK s \in SetToSeqs(Lines[t]) : entries' = [entries EXCEPT ![t] = s]
      BY <1>3, <2>3 DEF Commit
    <3>2. entries'[t] = s /\ \A l \in Leg \ {t} : entries'[l] = entries[l] /\ (Committed(l)' <=> Committed(l))
      BY <1>1, <2>2, <2>3, <3>1 DEF WriteTypes, Committed, Tx
    <3>. QED BY <2>1, <3>1, <3>2 DEF LinesInv
  <2>4. CASE t \notin Leg
    <3>1. entries' = entries /\ \A l \in Leg : Committed(l)' <=> Committed(l)
      BY <1>1, <1>3, <2>2, <2>4 DEF Commit, WriteTypes, Committed, Tx
    <3>. QED BY <2>1, <3>1 DEF LinesInv
  <2>. QED BY <2>3, <2>4
<1>4. ASSUME UNCHANGED writeVars PROVE LinesInv'
  BY <1>4 DEF LinesInv, WriteTypes, Committed, writeVars
<1>5. CASE \/ \E from \in 0 .. MaxTime : \E to \in from + 1 .. MaxTime + 1 : ListTransactionsByWindow(from, to)
           \/ \E t \in Tx : ReadRow(t)
           \/ SendRecords \/ ExportBreaks \/ UNCHANGED vars
  <2>1. UNCHANGED writeVars
    BY <1>5 DEF ListTransactionsByWindow, ReadRow, SendRecords, ExportBreaks, vars, writeVars
  <2>. QED BY <1>4, <2>1
<1>. QED BY <1>2, <1>3, <1>5 DEF Next

(* What an answer says of a window that is closed.                         *)
LEMMA CompleteNow == ExportInv /\ LinesInv => SettledWindowIsComplete
<1>. SUFFICES ASSUME ExportInv, LinesInv, NEW i \in DOMAIN answers,
                     answers[i].ok, answers[i].quiet, NEW t \in Tx
              PROVE  LET a == answers[i]
                         mine == {r \in a.records : r.tx = t}
                     IN  IF Committed(t) /\ start[t] \in a.from .. a.to - 1
                           THEN /\ Cardinality(mine) = 1
                                /\ Moved(t) \in Int64 => \A r \in mine : r.amount = Moved(t)
                           ELSE mine = {}
  BY DEF SettledWindowIsComplete
<1>. DEFINE a == answers[i]
            mine == {r \in a.records : r.tx = t}
<1>1. AnswerOk(a)
  BY DEF ExportInv
<1>2. /\ a.from \in Int /\ a.to \in Int
      /\ \A r \in a.records : r.tx \in Leg /\ Exported(r.tx, a.from, a.to) /\ r = RecordOf(r.tx)
      /\ Exported(t, a.from, a.to) => RecordOf(t) \in a.records
  BY <1>1 DEF AnswerOk, TrueRecords
<1>3. start[t] \in Int
  BY DEF LinesInv, WriteTypes
<1>4. Exported(t, a.from, a.to) <=> Committed(t) /\ start[t] \in a.from .. a.to - 1
  BY <1>2, <1>3 DEF Exported, InWindow
<1>5. CASE Exported(t, a.from, a.to)
  <2>1. RecordOf(t).tx = t
    BY RecordTx
  <2>2. mine = {RecordOf(t)} /\ t \in Leg
    BY <1>2, <1>5, <2>1
  <2>3. Cardinality(mine) = 1
    BY <2>2, FS_Singleton
  <2>4. entries[t] \in SetToSeqs(Lines[t])
    BY <1>5, <2>2 DEF LinesInv, Exported
  <2>5. RecordOf(t).amount = DebitTotal(entries[t])
    BY <2>2 DEF RecordOf, ListEntriesByTransaction
  <2>6. Moved(t) \in Int64 => DebitTotal(entries[t]) = Moved(t)
    BY <2>2, <2>4, DebitsAdded, NoWrap DEF DebitTotal
  <2>7. Moved(t) \in Int64 => \A r \in mine : r.amount = Moved(t)
    BY <2>2, <2>5, <2>6, Zenon
  <2>8. Committed(t) /\ start[t] \in a.from .. a.to - 1
    BY <1>4, <1>5
  <2>. HIDE DEF a, mine
  <2>9. IF Committed(t) /\ start[t] \in a.from .. a.to - 1
          THEN /\ Cardinality(mine) = 1
               /\ Moved(t) \in Int64 => \A r \in mine : r.amount = Moved(t)
          ELSE mine = {}
    BY <2>3, <2>7, <2>8, Zenon
  <2>. QED BY <2>9 DEF a, mine
<1>6. CASE ~Exported(t, a.from, a.to)
  <2>1. mine = {}
    BY <1>2, <1>6
  <2>. QED BY <1>4, <1>6, <2>1
<1>. QED BY <1>5, <1>6

(* For every set of legs with any lines: the export of a window to which   *)
(* nothing can be added holds each of its transactions once, with the sum  *)
(* of its debits if an int64 can hold it, whatever was written while its   *)
(* rows were read (query.go ExportTransactions).                           *)
THEOREM SettledComplete == Spec => []SettledWindowIsComplete
<1>1. Init => LinesInv
  BY ExportAssumption DEF Init, LinesInv, WriteTypes, Committed, Tx
<1>2. Spec => []LinesInv
  BY <1>1, LinesStep, PTL DEF Spec
<1>. QED BY <1>2, ExportAlways, CompleteNow, PTL
=============================================================================

---------------------------- MODULE LedgerProofs ----------------------------
(***************************************************************************)
(* Proofs about Ledger, for any calls, accounts, entries, keys, parents,   *)
(* retry budgets and faults.  What the sums of entries are does not matter *)
(* to them: Balanced, Directed and Representable stay unexpanded.          *)
(***************************************************************************)
EXTENDS Ledger, TLAPS

(* What a step that leaves the journal and the cached balances alone must  *)
(* respect.                                                                *)
Safe == SnapInv /\ LockInv /\ FreshInv /\ HolderInv /\ KeylessInv

(* The accounts of a transaction are accounts.                             *)
LEMMA TouchedType == \A p \in Post : Touched(p) \subseteq Account
  <1> SUFFICES ASSUME NEW p \in Post, NEW i \in DOMAIN EntriesOf[p]
               PROVE  EntriesOf[p][i].account \in Account
    BY DEF Touched
  <1>1. EntriesOf[p] \in Seq(Entry)
    BY LedgerAssumption
  <1>2. EntriesOf[p][i] \in Entry
    BY <1>1
  <1> QED
    BY <1>2 DEF Entry

(* A call that ends its database transaction, or is not in one, holds      *)
(* nothing, and cannot hurt the others.                                    *)
LEMMA EndSafe ==
    ASSUME TypeOK, Safe, NEW p \in Post, NEW step \in Step \ Holding,
           step = "done" \/ pc[p] # "done", Goto(p, step), EndTx(p), UNCHANGED journal
    PROVE  Safe'
  <1>1. /\ pc' = [pc EXCEPT ![p] = step] /\ snap' = [snap EXCEPT ![p] = {}]
        /\ locked' = [locked EXCEPT ![p] = {}] /\ at' = [at EXCEPT ![p] = None]
        /\ journal' = journal
    BY DEF Goto, EndTx
  <1>2. SnapInv'
    BY <1>1 DEF Safe, SnapInv, TypeOK
  <1>3. LockInv'
    BY <1>1 DEF Safe, LockInv, TypeOK, Holding, Step
  <1>4. FreshInv'
    BY <1>1 DEF Safe, FreshInv, TypeOK
  <1>5. HolderInv'
    BY <1>1 DEF Safe, HolderInv, TypeOK
  <1>6. KeylessInv'
    BY <1>1 DEF Safe, KeylessInv, TypeOK
  <1> QED
    BY <1>2, <1>3, <1>4, <1>5, <1>6 DEF Safe

(* Reply and Again end the transaction.                                    *)
LEMMA ReplyEnds ==
    ASSUME NEW p \in Post, NEW a, NEW id, Reply(p, a, id)
    PROVE  Goto(p, "done") /\ EndTx(p)
  BY DEF Reply

(* A retry, or the end of the retries, ends the transaction too            *)
(* (retryOnSerialization).                                                 *)
LEMMA AgainEnds ==
    ASSUME NEW p \in Post, Again(p)
    PROVE  \E step \in {"begin", "done"} : Goto(p, step) /\ EndTx(p)
  BY ReplyEnds DEF Again

(* Steps that leave the journal and the balances alone keep the properties *)
(* of the journal.                                                         *)
LEMMA JournalFrame ==
    ASSUME CacheMatchesJournal, PostedOnce, JournalBalanced, UNCHANGED <<journal, cached>>
    PROVE  CacheMatchesJournal' /\ PostedOnce' /\ JournalBalanced'
  BY DEF CacheMatchesJournal, PostedOnce, JournalBalanced

(* The variables of the calls keep their types when a call returns or      *)
(* retries.                                                                *)
CallTypes ==
    /\ pc \in [Post -> Step] /\ tries \in [Post -> Nat]
    /\ snap \in [Post -> SUBSET Post] /\ locked \in [Post -> SUBSET Account]
    /\ at \in [Post -> Account \cup {None}]
    /\ answer \in [Post -> Answer] /\ found \in [Post -> Post \cup {None}]

(* A call that returns keeps the types of the call variables               *)
(* (postErrToStatus).                                                      *)
LEMMA ReplyTypes ==
    ASSUME CallTypes, NEW p \in Post, NEW a \in Answer, NEW id \in Post \cup {None},
           Reply(p, a, id)
    PROVE  CallTypes'
  BY DEF CallTypes, Reply, Goto, EndTx, Step

(* A call that retries keeps them as well (retryOnSerialization).          *)
LEMMA AgainTypes ==
    ASSUME CallTypes, NEW p \in Post, Again(p)
    PROVE  CallTypes'
  <1>1. CASE Reply(p, "unavailable", None)
    BY <1>1, ReplyTypes DEF Answer
  <1>2. CASE /\ tries' = [tries EXCEPT ![p] = @ + 1]
             /\ Goto(p, "begin") /\ EndTx(p) /\ UNCHANGED <<answer, found>>
    BY <1>2 DEF CallTypes, Goto, EndTx, Step
  <1> QED
    BY <1>1, <1>2 DEF Again

(* Every step preserves the types.                                         *)
LEMMA TypeStep == TypeOK /\ LockInv /\ [Next]_vars => TypeOK'
  <1> SUFFICES ASSUME TypeOK, LockInv, [Next]_vars PROVE TypeOK'
    OBVIOUS
  <1> USE LedgerAssumption
  <1>0. CallTypes /\ (CallTypes' /\ journal' \in SUBSET Post /\ cached' \in [Account -> SUBSET Post]
          /\ accounts' \in SUBSET Account /\ faults' \in Nat => TypeOK')
    BY DEF TypeOK, CallTypes
  <1>1. ASSUME NEW p \in Post, Call(p) PROVE TypeOK'
    <2>1. CASE Reply(p, "invalid", None)
      BY <1>0, <1>1, <2>1, ReplyTypes DEF Call, TypeOK, Answer
    <2>2. CASE /\ tries' = [tries EXCEPT ![p] = 1]
               /\ Goto(p, "begin") /\ UNCHANGED <<snap, locked, at, answer, found>>
      BY <1>0, <1>1, <2>2 DEF Call, TypeOK, CallTypes, Goto, Step
    <2> QED
      BY <1>1, <2>1, <2>2 DEF Call
  <1>2. ASSUME NEW p \in Post, Resolve(p) PROVE TypeOK'
    <2>1. CASE Reply(p, "not_found", None)
      BY <1>0, <1>2, <2>1, ReplyTypes DEF Resolve, TypeOK, Answer
    <2>2. CASE /\ snap' = [snap EXCEPT ![p] = journal]
               /\ Goto(p, "insert") /\ UNCHANGED <<locked, at, tries, answer, found>>
      BY <1>0, <1>2, <2>2 DEF Resolve, TypeOK, CallTypes, Goto, Step
    <2> QED
      BY <1>2, <2>1, <2>2 DEF Resolve
  <1>3. ASSUME NEW p \in Post, InsertTransaction(p) PROVE TypeOK'
    <2>1. CASE Reply(p, "internal", None)
      BY <1>0, <1>3, <2>1, ReplyTypes DEF InsertTransaction, TypeOK, Answer
    <2>2. CASE Again(p)
      BY <1>0, <1>3, <2>2, AgainTypes DEF InsertTransaction, TypeOK
    <2>3. CASE Goto(p, "sum") /\ InTx
      BY <1>0, <1>3, <2>3 DEF InsertTransaction, TypeOK, CallTypes, Goto, InTx, Step
    <2>4. CASE Goto(p, "existing") /\ EndTx(p) /\ UNCHANGED <<tries, answer, found>>
      BY <1>0, <1>3, <2>4 DEF InsertTransaction, TypeOK, CallTypes, Goto, EndTx, Step
    <2> QED
      BY <1>3, <2>1, <2>2, <2>3, <2>4 DEF InsertTransaction
  <1>4. ASSUME NEW p \in Post, Existing(p) PROVE TypeOK'
    <2>1. PICK a \in {"ok", "internal"}, id \in Post \cup {None} : Reply(p, a, id)
      BY <1>4 DEF Existing, TypeOK, GetTransactionByIdempotencyKey
    <2> QED
      BY <1>0, <1>4, <2>1, ReplyTypes DEF Existing, TypeOK, Answer, GetTransactionByIdempotencyKey
  <1>5. ASSUME NEW p \in Post, SumEntries(p) PROVE TypeOK'
    <2>1. CASE Reply(p, "internal", None)
      BY <1>0, <1>5, <2>1, ReplyTypes DEF SumEntries, TypeOK, Answer
    <2>2. CASE \E a \in Touched(p) :
                 /\ at' = [at EXCEPT ![p] = a]
                 /\ Goto(p, "upsert") /\ UNCHANGED <<snap, locked, tries, answer, found>>
      BY <1>0, <1>5, <2>2, TouchedType DEF SumEntries, TypeOK, CallTypes, Goto, Step
    <2>3. CASE Goto(p, "commit") /\ InTx
      BY <1>0, <1>5, <2>3 DEF SumEntries, TypeOK, CallTypes, Goto, InTx, Step
    <2> QED
      BY <1>5, <2>1, <2>2, <2>3 DEF SumEntries
  <1>6. ASSUME NEW p \in Post, UpsertCachedBalance(p) PROVE TypeOK'
    <2>1. CASE Again(p)
      BY <1>0, <1>6, <2>1, AgainTypes DEF UpsertCachedBalance, TypeOK
    <2>2. CASE Written(p)
      BY <1>0, <1>6, <2>2, TouchedType
      DEF UpsertCachedBalance, LockInv, Written, TypeOK, CallTypes, Goto, Step
    <2> QED
      BY <1>6, <2>1, <2>2 DEF UpsertCachedBalance
  <1>7. ASSUME NEW p \in Post, Commit(p) PROVE TypeOK'
    <2>1. CallTypes'
      <3>1. PICK a \in {"ok", "internal"}, id \in Post \cup {None} : Reply(p, a, id)
        BY <1>7 DEF Commit, Visible
      <3> QED
        BY <1>0, <3>1, ReplyTypes DEF Answer
    <2>2. journal' \in SUBSET Post /\ cached' \in [Account -> SUBSET Post]
      <3>1. CASE UNCHANGED <<journal, cached>>
        BY <3>1 DEF TypeOK
      <3>2. CASE Visible(p)
        <4>1. \A a \in Account : {q \in snap[p] \cup {p} : a \in Touched(q)} \subseteq Post
          BY DEF TypeOK
        <4> QED
          BY <3>2, <4>1 DEF Visible, TypeOK
      <3> QED
        BY <1>7, <3>1, <3>2 DEF Commit
    <2>3. faults' \in Nat
      <3>1. UNCHANGED faults \/ FaultBudget
        BY <1>7 DEF Commit, Visible
      <3> QED
        BY <3>1 DEF FaultBudget, TypeOK
    <2> QED
      BY <1>0, <1>7, <2>1, <2>2, <2>3 DEF Commit, TypeOK
  <1>8. ASSUME NEW p \in Post, SerializationFailure(p) PROVE TypeOK'
    BY <1>0, <1>8, AgainTypes DEF SerializationFailure, TypeOK
  <1>9. ASSUME NEW p \in Post, Deadlock(p) PROVE TypeOK'
    BY <1>0, <1>9, ReplyTypes DEF Deadlock, TypeOK, Answer
  <1>10. ASSUME NEW p \in Post, Fault(p) PROVE TypeOK'
    BY <1>0, <1>10, ReplyTypes DEF Fault, Running, FaultBudget, TypeOK, Answer
  <1>11. ASSUME NEW p \in Post, Recall(p) PROVE TypeOK'
    BY <1>11 DEF Recall, Goto, TypeOK, Step, Answer
  <1>12. ASSUME NEW a \in Account, CreateAccount(a) PROVE TypeOK'
    BY <1>12 DEF CreateAccount, TypeOK
  <1>13. CASE UNCHANGED vars
    BY <1>13 DEF vars, TypeOK
  <1> QED
    BY <1>1, <1>2, <1>3, <1>4, <1>5, <1>6, <1>7, <1>8, <1>9, <1>10, <1>11, <1>12, <1>13
    DEF Next, Serve, Disturb

(* Every step but a commit leaves the journal and the balances alone and   *)
(* is safe.                                                                *)
LEMMA QuietStep ==
    ASSUME TypeOK, Safe, NEW p \in Post,
           \/ Call(p) \/ Resolve(p) \/ InsertTransaction(p) \/ Existing(p) \/ SumEntries(p)
           \/ UpsertCachedBalance(p) \/ SerializationFailure(p) \/ Deadlock(p)
           \/ Fault(p) \/ Recall(p) \/ (Commit(p) /\ ~Balanced(p))
    PROVE  Safe' /\ UNCHANGED <<journal, cached>>
  <1> USE LedgerAssumption
  <1>0. UNCHANGED <<journal, cached>>
    BY DEF Call, Resolve, InsertTransaction, Existing, SumEntries, UpsertCachedBalance,
           SerializationFailure, Deadlock, Fault, Running, Recall, Commit, GetTransactionByIdempotencyKey
  <1>1. CASE \E step \in Step \ Holding :
                (step = "done" \/ pc[p] # "done") /\ Goto(p, step) /\ EndTx(p)
    BY <1>0, <1>1, EndSafe
  <1>2. CASE Again(p) /\ pc[p] # "done"
    <2>1. {"begin", "done"} \subseteq Step \ Holding
      BY DEF Step, Holding
    <2> QED
      BY <1>1, <1>2, <2>1, AgainEnds
  <1>3. CASE \E a, id : Reply(p, a, id)
    <2>1. "done" \in Step \ Holding
      BY DEF Step, Holding
    <2> QED
      BY <1>1, <1>3, <2>1, ReplyEnds
  <1>4. CASE /\ pc[p] \in {"idle", "begin", "done"}
             /\ pc[p] = "done" => KeyOf[p] # None
             /\ \E step \in {"idle", "begin", "insert"} : Goto(p, step)
             /\ snap'[p] \subseteq journal /\ \A q \in Post \ {p} : snap'[q] = snap[q]
             /\ UNCHANGED <<locked, at>>
    <2>1. locked[p] = {}
      BY <1>4 DEF Safe, LockInv, Holding
    <2>2. SnapInv'
      BY <1>0, <1>4 DEF Safe, SnapInv
    <2>3. LockInv'
      BY <1>4, <2>1 DEF Safe, LockInv, TypeOK, Goto, Holding
    <2>4. FreshInv'
      BY <1>0, <1>4, <2>1 DEF Safe, FreshInv
    <2>5. HolderInv'
      BY <1>0, <1>4 DEF Safe, HolderInv, TypeOK, Goto, Holding
    <2>6. KeylessInv'
      BY <1>0, <1>4 DEF Safe, KeylessInv, TypeOK, Goto
    <2> QED
      BY <1>0, <2>2, <2>3, <2>4, <2>5, <2>6 DEF Safe
  <1>5. CASE /\ pc[p] = "insert" /\ WaitsFor(p) = {} /\ Allowed(p, journal) /\ Directed(p)
             /\ Goto(p, "sum") /\ InTx
    <2>1. \A q \in Post : pc[q] \in Holding => ~Rivals(p, q) /\ ~Rivals(q, p)
      BY <1>5 DEF WaitsFor, Rivals, Collide
    <2>2. SnapInv' /\ FreshInv'
      BY <1>0, <1>5 DEF Safe, SnapInv, FreshInv, InTx
    <2>3. LockInv'
      BY <1>5 DEF Safe, LockInv, TypeOK, Goto, InTx, Holding
    <2>4. p \notin journal
      BY <1>5 DEF Safe, KeylessInv, Allowed, Taken, Collide
    <2>5. HolderInv'
      BY <1>0, <1>5, <2>1, <2>4 DEF Safe, HolderInv, TypeOK, Goto, Holding, Rivals
    <2>6. KeylessInv'
      BY <1>0, <1>5, <2>4 DEF Safe, KeylessInv, TypeOK, Goto
    <2> QED
      BY <1>0, <2>2, <2>3, <2>5, <2>6 DEF Safe
  <1>6. CASE /\ pc[p] = "sum"
             /\ \/ \E a \in Touched(p) : /\ at' = [at EXCEPT ![p] = a]
                                         /\ Goto(p, "upsert") /\ UNCHANGED <<snap, locked>>
                \/ Touched(p) \subseteq locked[p] /\ Goto(p, "commit") /\ InTx
    <2>1. UNCHANGED <<snap, locked>>
      BY <1>6 DEF InTx
    <2>2. SnapInv' /\ FreshInv'
      BY <1>0, <2>1 DEF Safe, SnapInv, FreshInv
    <2>3. LockInv'
      <3>1. \A q \in Post \ {p} : pc'[q] = pc[q] /\ at'[q] = at[q]
        BY <1>6 DEF TypeOK, Goto, InTx
      <3>2. /\ pc'[p] \in {"upsert", "commit"}
            /\ pc'[p] = "upsert" => at'[p] \in Touched(p)
            /\ pc'[p] = "commit" => Touched(p) \subseteq locked[p]
        BY <1>6 DEF TypeOK, Goto, InTx
      <3>3. pc[p] \in Holding /\ pc'[p] \in Holding
        BY <1>6, <3>2 DEF Holding
      <3> QED
        BY <2>1, <3>1, <3>2, <3>3 DEF Safe, LockInv
    <2>4. HolderInv'
      BY <1>0, <1>6 DEF Safe, HolderInv, TypeOK, Goto, Holding
    <2>5. KeylessInv'
      BY <1>0, <1>6 DEF Safe, KeylessInv, TypeOK, Goto
    <2> QED
      BY <1>0, <2>2, <2>3, <2>4, <2>5 DEF Safe
  <1>7. CASE /\ pc[p] = "upsert" /\ WaitsFor(p) = {} /\ Written(p)
             /\ \A q \in journal \ snap[p] : at[p] \notin Touched(q)
    <2>1. \A q \in Post \ {p} : at[p] \notin locked[q]
      BY <1>7 DEF WaitsFor, Safe, LockInv
    <2>2. SnapInv'
      BY <1>0, <1>7 DEF Safe, SnapInv, Written
    <2>3. FreshInv'
      <3>1. \A q \in journal \ snap[p] : locked'[p] \cap Touched(q) = {}
        BY <1>7 DEF Safe, FreshInv, Written, TypeOK
      <3>2. \A r \in Post \ {p} : locked'[r] = locked[r]
        BY <1>7 DEF Written, TypeOK
      <3> QED
        BY <1>0, <1>7, <3>1, <3>2 DEF Safe, FreshInv, Written
    <2>4. LockInv'
      BY <1>7, <2>1 DEF Safe, LockInv, TypeOK, Goto, Written, Holding
    <2>5. HolderInv'
      BY <1>0, <1>7 DEF Safe, HolderInv, TypeOK, Goto, Written, Holding
    <2>6. KeylessInv'
      BY <1>0, <1>7 DEF Safe, KeylessInv, TypeOK, Goto, Written
    <2> QED
      BY <1>0, <2>2, <2>3, <2>4, <2>5, <2>6 DEF Safe
  <1>8. CASE Call(p)
    BY <1>3, <1>4, <1>8 DEF Call, Safe, SnapInv
  <1>9. CASE Resolve(p)
    BY <1>3, <1>4, <1>9 DEF Resolve, TypeOK
  <1>10. CASE InsertTransaction(p)
    <2>1. "existing" \in Step \ Holding
      BY DEF Step, Holding
    <2> QED
      BY <1>1, <1>2, <1>3, <1>5, <1>10, <2>1 DEF InsertTransaction
  <1>11. CASE Existing(p)
    BY <1>3, <1>11 DEF Existing, GetTransactionByIdempotencyKey
  <1>12. CASE SumEntries(p)
    BY <1>3, <1>6, <1>12 DEF SumEntries
  <1>13. CASE UpsertCachedBalance(p)
    BY <1>2, <1>7, <1>13 DEF UpsertCachedBalance
  <1>14. CASE SerializationFailure(p) \/ Deadlock(p) \/ Fault(p)
    BY <1>2, <1>3, <1>14 DEF SerializationFailure, Deadlock, Fault, Running, Holding
  <1>15. CASE Recall(p)
    BY <1>4, <1>15 DEF Recall, Safe, SnapInv
  <1>16. CASE Commit(p) /\ ~Balanced(p)
    BY <1>3, <1>16 DEF Commit
  <1> QED
    BY <1>8, <1>9, <1>10, <1>11, <1>12, <1>13, <1>14, <1>15, <1>16

(* A commit adds one whole transaction that the journal may have, counts   *)
(* it in exactly the balances it touches, and is safe for the others: it   *)
(* holds the rows of all its accounts, so nobody else can have read them   *)
(* and gone on.                                                            *)
LEMMA CommitStep ==
    ASSUME LedgerInv, NEW p \in Post, Commit(p), Balanced(p)
    PROVE  /\ p \notin journal /\ Allowed(p, journal) /\ Directed(p)
           /\ journal' = journal \cup {p}
           /\ cached' = [a \in Account |-> IF a \in Touched(p) THEN cached[a] \cup {p} ELSE cached[a]]
           /\ Safe'
  <1>0. TypeOK /\ SnapInv /\ LockInv /\ FreshInv /\ HolderInv /\ KeylessInv /\ CacheMatchesJournal
    BY DEF LedgerInv
  <1>1. pc[p] = "commit" /\ Visible(p)
    BY DEF Commit
  <1>2. p \notin journal /\ Allowed(p, journal) /\ Directed(p)
    BY <1>0, <1>1 DEF HolderInv, Holding
  <1>3. Touched(p) \subseteq locked[p]
    BY <1>0, <1>1 DEF LockInv
  <1>4. journal' = journal \cup {p}
    BY <1>1 DEF Visible
  <1>5. cached' = [a \in Account |-> IF a \in Touched(p) THEN cached[a] \cup {p} ELSE cached[a]]
    <2>1. ASSUME NEW a \in Account, a \in Touched(p)
          PROVE  {q \in snap[p] \cup {p} : a \in Touched(q)} = cached[a] \cup {p}
      <3>1. \A q \in journal \ snap[p] : a \notin Touched(q)
        BY <1>0, <1>3, <2>1 DEF FreshInv
      <3>2. snap[p] \subseteq journal
        BY <1>0 DEF SnapInv
      <3>3. cached[a] = {q \in journal : a \in Touched(q)}
        BY <1>0 DEF CacheMatchesJournal
      <3> QED
        BY <2>1, <3>1, <3>2, <3>3
    <2> QED
      BY <1>1, <2>1 DEF Visible
  <1>6. Goto(p, "done") /\ EndTx(p)
    BY <1>1, ReplyEnds DEF Visible
  <1>7. /\ pc' = [pc EXCEPT ![p] = "done"] /\ snap' = [snap EXCEPT ![p] = {}]
        /\ locked' = [locked EXCEPT ![p] = {}] /\ at' = [at EXCEPT ![p] = None]
    BY <1>6 DEF Goto, EndTx
  <1>8. SnapInv'
    BY <1>0, <1>4, <1>7 DEF SnapInv, TypeOK
  <1>9. LockInv'
    BY <1>0, <1>7 DEF LockInv, TypeOK, Holding
  <1>10. FreshInv'
    <2> SUFFICES ASSUME NEW r \in Post, NEW q \in journal' \ snap'[r]
                 PROVE  locked'[r] \cap Touched(q) = {}
      BY DEF FreshInv
    <2>1. CASE r = p
      BY <1>0, <1>7, <2>1 DEF TypeOK
    <2>2. CASE r # p /\ q = p
      BY <1>0, <1>3, <1>7, <2>2 DEF LockInv, TypeOK
    <2>3. CASE r # p /\ q # p
      BY <1>0, <1>4, <1>7, <2>3 DEF FreshInv, TypeOK
    <2> QED
      BY <2>1, <2>2, <2>3
  <1>11. HolderInv'
    <2> SUFFICES ASSUME NEW r \in Post, pc'[r] \in Holding
                 PROVE  /\ r \notin journal' /\ Allowed(r, journal') /\ Directed(r)
                        /\ \A q \in Post : pc'[q] \in Holding => ~Rivals(r, q)
      BY <1>4 DEF HolderInv, Allowed, Taken
    <2>1. r # p /\ pc[r] \in Holding
      BY <1>0, <1>7 DEF TypeOK, Holding
    <2>2. pc[p] \in Holding /\ \A q \in Post : pc'[q] \in Holding => pc[q] \in Holding
      BY <1>0, <1>1, <1>7 DEF TypeOK, Holding
    <2>3. /\ r \notin journal /\ Allowed(r, journal) /\ Directed(r)
          /\ \A q \in Post : pc[q] \in Holding => ~Rivals(r, q)
      BY <1>0, <2>1 DEF HolderInv
    <2>4. r \notin journal' /\ Allowed(r, journal')
      BY <1>4, <2>1, <2>2, <2>3 DEF Allowed, Taken, Rivals
    <2> QED
      BY <2>2, <2>3, <2>4
  <1>12. KeylessInv'
    BY <1>0, <1>4, <1>7 DEF KeylessInv, TypeOK
  <1> QED
    BY <1>2, <1>4, <1>5, <1>8, <1>9, <1>10, <1>11, <1>12 DEF Safe

(* LedgerInv holds initially.                                              *)
LEMMA LedgerInit == Init => LedgerInv
  <1> SUFFICES ASSUME Init PROVE LedgerInv
    OBVIOUS
  <1>1. TypeOK
    BY LedgerAssumption DEF Init, TypeOK, Step, Answer
  <1>2. Safe
    BY DEF Init, Safe, SnapInv, LockInv, FreshInv, HolderInv, KeylessInv, Holding
  <1>3. CacheMatchesJournal /\ PostedOnce /\ JournalBalanced
    BY DEF Init, CacheMatchesJournal, PostedOnce, JournalBalanced
  <1> QED
    BY <1>1, <1>2, <1>3 DEF LedgerInv, Safe

(* Every step preserves LedgerInv.                                         *)
LEMMA LedgerStep == LedgerInv /\ [Next]_vars => LedgerInv'
  <1> SUFFICES ASSUME LedgerInv, [Next]_vars PROVE LedgerInv'
    OBVIOUS
  <1>0. TypeOK /\ Safe /\ CacheMatchesJournal /\ PostedOnce /\ JournalBalanced
    BY DEF LedgerInv, Safe
  <1>1. TypeOK'
    BY <1>0, TypeStep DEF Safe
  <1>2. CASE Safe' /\ UNCHANGED <<journal, cached>>
    BY <1>0, <1>1, <1>2, JournalFrame DEF LedgerInv, Safe
  <1>3. ASSUME NEW p \in Post, Commit(p), Balanced(p) PROVE LedgerInv'
    <2>1. /\ p \notin journal /\ Allowed(p, journal) /\ Directed(p)
          /\ journal' = journal \cup {p}
          /\ cached' = [a \in Account |-> IF a \in Touched(p) THEN cached[a] \cup {p} ELSE cached[a]]
          /\ Safe'
      BY <1>3, CommitStep
    <2>2. CacheMatchesJournal'
      BY <1>0, <2>1 DEF CacheMatchesJournal, TypeOK
    <2>3. PostedOnce'
      BY <1>0, <2>1 DEF PostedOnce, Allowed, Taken, Rivals, Collide
    <2>4. JournalBalanced'
      BY <1>0, <1>3, <2>1 DEF JournalBalanced
    <2> QED
      BY <1>1, <2>1, <2>2, <2>3, <2>4 DEF LedgerInv, Safe
  <1>4. ASSUME NEW a \in Account, CreateAccount(a) PROVE LedgerInv'
    <2>1. UNCHANGED <<journal, cached, pc, snap, locked, at>>
      BY <1>4 DEF CreateAccount
    <2> QED
      BY <1>0, <1>2, <2>1 DEF Safe, SnapInv, LockInv, FreshInv, HolderInv, KeylessInv
  <1>5. CASE UNCHANGED vars
    <2>1. UNCHANGED <<journal, cached, pc, snap, locked, at>>
      BY <1>5 DEF vars
    <2> QED
      BY <1>0, <1>2, <2>1 DEF Safe, SnapInv, LockInv, FreshInv, HolderInv, KeylessInv
  <1> QED
    BY <1>0, <1>2, <1>3, <1>4, <1>5, QuietStep DEF Next, Serve, Disturb

(* The inductive invariant of the ledger, for every value of the constants *)
(* (service.go PostTransaction).                                           *)
THEOREM LedgerSound == Spec => []LedgerInv
  BY LedgerInit, LedgerStep, PTL DEF Spec

(* The cached balances always count exactly the journal, however           *)
(* concurrent calls interleave, retry, deadlock and fail (service.go       *)
(* updateCachedBalances, retry.go).                                        *)
THEOREM CacheCorrect == Spec => []CacheMatchesJournal
  <1>1. LedgerInv => CacheMatchesJournal
    BY DEF LedgerInv
  <1> QED
    BY <1>1, LedgerSound, PTL

(* Every key and every parent is posted at most once, however often and    *)
(* concurrently a leg is posted (service.go PostTransaction).              *)
THEOREM KeyPostedOnce == Spec => []PostedOnce
  <1>1. LedgerInv => PostedOnce
    BY DEF LedgerInv
  <1> QED
    BY <1>1, LedgerSound, PTL

(* No unbalanced transaction is ever committed (assert_transaction_balanced*)
(* behind validate).                                                       *)
THEOREM BooksBalance == Spec => []JournalBalanced
  <1>1. LedgerInv => JournalBalanced
    BY DEF LedgerInv
  <1> QED
    BY <1>1, LedgerSound, PTL
-----------------------------------------------------------------------------
(* Answers.  A call goes on only if its request is valid and inserts only  *)
(* if its accounts exist, so a committed transaction has both.             *)
ValidInv ==
    /\ \A p \in Post : pc[p] \in Step \ {"idle", "done"} => validate(p)
    /\ \A p \in Post : pc[p] \in {"insert"} \cup Holding => Touched(p) \subseteq accounts
    /\ \A p \in journal : validate(p) /\ Touched(p) \subseteq accounts

AnswerInv == LedgerInv /\ ValidInv /\ AnswerIsTrue

(* What holds of one call after its own step: what it goes on with, or the *)
(* answer it got.                                                          *)
CallOk(p, step, a, id, js) ==
    /\ step \in Step \ {"idle", "done"} => validate(p)
    /\ step \in {"insert"} \cup Holding => Touched(p) \subseteq accounts
    /\ step = "done" =>
         /\ a = "ok" => id \in js /\ (id = p \/ KeyOf[id] = KeyOf[p])
         /\ a \in {"invalid", "not_found"} => p \notin js

(* A call that returns an answer that is true.                             *)
LEMMA ReplyOk ==
    ASSUME TypeOK, NEW p \in Post, NEW a, NEW id, NEW js, Reply(p, a, id),
           a = "ok" => id \in js /\ (id = p \/ KeyOf[id] = KeyOf[p]),
           a \in {"invalid", "not_found"} => p \notin js
    PROVE  /\ CallOk(p, pc'[p], answer'[p], found'[p], js)
           /\ \A q \in Post \ {p} : pc'[q] = pc[q] /\ answer'[q] = answer[q] /\ found'[q] = found[q]
  <1>1. /\ pc' = [pc EXCEPT ![p] = "done"] /\ answer' = [answer EXCEPT ![p] = a]
        /\ found' = [found EXCEPT ![p] = id]
    BY DEF Reply, Goto
  <1> QED
    BY <1>1 DEF TypeOK, CallOk, Holding

(* A call that goes on, to a step it may take.                             *)
LEMMA GotoOk ==
    ASSUME TypeOK, NEW p \in Post, NEW step \in Step \ {"done"}, NEW js,
           Goto(p, step), answer' = answer \/ answer' = [answer EXCEPT ![p] = None],
           UNCHANGED found,
           step # "idle" => validate(p),
           step \in {"insert"} \cup Holding => Touched(p) \subseteq accounts
    PROVE  /\ CallOk(p, pc'[p], answer'[p], found'[p], js)
           /\ \A q \in Post \ {p} : pc'[q] = pc[q] /\ answer'[q] = answer[q] /\ found'[q] = found[q]
  BY DEF TypeOK, CallOk, Goto

(* The step of a call leaves the other calls, and what they were told,     *)
(* alone, and tells the caller the truth (service.go PostTransaction,      *)
(* grpc.go postErrToStatus).                                               *)
LEMMA CallStep ==
    ASSUME AnswerInv, NEW p \in Post, Call(p) \/ Serve(p) \/ Disturb(p) \/ Recall(p)
    PROVE  /\ CallOk(p, pc'[p], answer'[p], found'[p], journal')
           /\ \A q \in Post \ {p} : pc'[q] = pc[q] /\ answer'[q] = answer[q] /\ found'[q] = found[q]
           /\ \/ journal' = journal
              \/ /\ journal' = journal \cup {p} /\ pc[p] = "commit"
                 /\ validate(p) /\ Touched(p) \subseteq accounts
           /\ accounts' = accounts
  <1>0. TypeOK /\ ValidInv /\ AnswerIsTrue
    BY DEF AnswerInv, LedgerInv
  <1>1. ASSUME NEW a \in {"internal", "unavailable"}, Reply(p, a, None)
        PROVE  /\ CallOk(p, pc'[p], answer'[p], found'[p], journal')
               /\ \A q \in Post \ {p} : /\ pc'[q] = pc[q] /\ answer'[q] = answer[q]
                                         /\ found'[q] = found[q]
    BY <1>0, <1>1, ReplyOk
  <1>2. ASSUME Again(p), validate(p)
        PROVE  /\ CallOk(p, pc'[p], answer'[p], found'[p], journal')
               /\ \A q \in Post \ {p} : /\ pc'[q] = pc[q] /\ answer'[q] = answer[q]
                                         /\ found'[q] = found[q]
    BY <1>0, <1>1, <1>2, GotoOk DEF Again, Step, Holding
  <1>3. CASE Call(p)
    <2>1. journal' = journal /\ accounts' = accounts /\ pc[p] = "idle"
      BY <1>3 DEF Call
    <2>2. CASE validate(p)
      BY <1>0, <1>3, <2>1, <2>2, GotoOk DEF Call, Step, Holding
    <2>3. CASE ~validate(p)
      BY <1>0, <1>3, <2>1, <2>3, ReplyOk DEF Call, ValidInv
    <2> QED
      BY <2>2, <2>3
  <1>4. CASE Resolve(p)
    <2>1. journal' = journal /\ accounts' = accounts /\ validate(p)
      BY <1>0, <1>4 DEF Resolve, ValidInv, Step
    <2>2. CASE Touched(p) \subseteq accounts
      BY <1>0, <1>4, <2>1, <2>2, GotoOk DEF Resolve, Step
    <2>3. CASE ~(Touched(p) \subseteq accounts)
      BY <1>0, <1>4, <2>1, <2>3, ReplyOk DEF Resolve, ValidInv
    <2> QED
      BY <2>2, <2>3
  <1>5. CASE InsertTransaction(p)
    <2>1. journal' = journal /\ accounts' = accounts /\ validate(p) /\ Touched(p) \subseteq accounts
      BY <1>0, <1>5 DEF InsertTransaction, ValidInv, Step
    <2>2. CASE Goto(p, "existing") /\ UNCHANGED <<answer, found>>
      BY <1>0, <2>1, <2>2, GotoOk DEF Step, Holding
    <2>3. CASE Goto(p, "sum") /\ InTx
      BY <1>0, <2>1, <2>3, GotoOk DEF Step, Holding, InTx
    <2> QED
      BY <1>1, <1>2, <1>5, <2>1, <2>2, <2>3 DEF InsertTransaction
  <1>6. CASE Existing(p)
    <2>1. journal' = journal /\ accounts' = accounts
      BY <1>6 DEF Existing
    <2>2. ASSUME NEW q \in GetTransactionByIdempotencyKey(p), Reply(p, "ok", q)
          PROVE  /\ CallOk(p, pc'[p], answer'[p], found'[p], journal')
                 /\ \A r \in Post \ {p} : /\ pc'[r] = pc[r] /\ answer'[r] = answer[r]
                                           /\ found'[r] = found[r]
      <3>1. q \in journal' /\ KeyOf[q] = KeyOf[p]
        BY <2>1, <2>2 DEF GetTransactionByIdempotencyKey
      <3> QED
        BY <1>0, <2>2, <3>1, ReplyOk
    <2> QED
      BY <1>1, <1>6, <2>1, <2>2 DEF Existing
  <1>7. CASE SumEntries(p)
    <2>1. journal' = journal /\ accounts' = accounts /\ validate(p) /\ Touched(p) \subseteq accounts
      BY <1>0, <1>7 DEF SumEntries, ValidInv, Step, Holding
    <2>2. \/ Reply(p, "internal", None)
          \/ \E step \in {"upsert", "commit"} : Goto(p, step) /\ UNCHANGED <<answer, found>>
      BY <1>7 DEF SumEntries, InTx
    <2> QED
      BY <1>0, <1>1, <2>1, <2>2, GotoOk DEF Step
  <1>8. CASE UpsertCachedBalance(p)
    <2>1. journal' = journal /\ accounts' = accounts /\ validate(p) /\ Touched(p) \subseteq accounts
      BY <1>0, <1>8 DEF UpsertCachedBalance, ValidInv, Step, Holding
    <2>2. Again(p) \/ (Goto(p, "sum") /\ UNCHANGED <<answer, found>>)
      BY <1>8 DEF UpsertCachedBalance, Written
    <2> QED
      BY <1>0, <1>2, <2>1, <2>2, GotoOk DEF Step
  <1>9. CASE Commit(p)
    <2>1. pc[p] = "commit" /\ accounts' = accounts /\ validate(p) /\ Touched(p) \subseteq accounts
      BY <1>0, <1>9 DEF Commit, ValidInv, Step, Holding
    <2>2. CASE ~Balanced(p)
      BY <1>1, <1>9, <2>1, <2>2 DEF Commit
    <2>3. CASE Balanced(p)
      <3>1. /\ journal' = journal \cup {p}
            /\ Reply(p, "ok", p) \/ Reply(p, "internal", None)
        BY <1>9, <2>3 DEF Commit, Visible
      <3> QED
        BY <1>0, <1>1, <2>1, <3>1, ReplyOk
    <2> QED
      BY <2>2, <2>3
  <1>10. CASE SerializationFailure(p)
    <2>1. journal' = journal /\ accounts' = accounts /\ validate(p)
      BY <1>0, <1>10 DEF SerializationFailure, ValidInv, Step, Holding
    <2> QED
      BY <1>2, <1>10, <2>1 DEF SerializationFailure
  <1>11. CASE Deadlock(p) \/ Fault(p)
    BY <1>1, <1>11 DEF Deadlock, Fault, Running
  <1>12. CASE Recall(p)
    BY <1>0, <1>12, GotoOk DEF Recall, Step, Holding
  <1> QED
    BY <1>3, <1>4, <1>5, <1>6, <1>7, <1>8, <1>9, <1>10, <1>11, <1>12 DEF Serve, Disturb

(* The answer of every call is true, for good: an id names the key's       *)
(* transaction in the journal, and after invalid or not_found nothing was  *)
(* posted, by this call or an earlier one (grpc.go postErrToStatus).       *)
THEOREM AnswersTrue == Spec => []AnswerIsTrue
  <1>1. Init => AnswerInv
    <2> SUFFICES ASSUME Init PROVE AnswerInv
      OBVIOUS
    <2>1. ValidInv /\ AnswerIsTrue
      BY DEF Init, ValidInv, AnswerIsTrue, Holding, None
    <2> QED
      BY <2>1, LedgerInit DEF AnswerInv
  <1>2. AnswerInv /\ [Next]_vars => AnswerInv'
    <2> SUFFICES ASSUME AnswerInv, [Next]_vars PROVE AnswerInv'
      OBVIOUS
    <2>0. TypeOK /\ ValidInv /\ AnswerIsTrue /\ LedgerInv'
      BY LedgerStep DEF AnswerInv, LedgerInv
    <2>1. ASSUME NEW p \in Post, Call(p) \/ Serve(p) \/ Disturb(p) \/ Recall(p)
          PROVE  ValidInv' /\ AnswerIsTrue'
      <3>1. /\ CallOk(p, pc'[p], answer'[p], found'[p], journal')
            /\ \A q \in Post \ {p} : pc'[q] = pc[q] /\ answer'[q] = answer[q] /\ found'[q] = found[q]
            /\ \/ journal' = journal
               \/ /\ journal' = journal \cup {p} /\ pc[p] = "commit"
                  /\ validate(p) /\ Touched(p) \subseteq accounts
            /\ accounts' = accounts
        BY <2>1, CallStep
      <3>2. ValidInv'
        BY <2>0, <3>1 DEF ValidInv, CallOk
      <3>3. ASSUME NEW q \in Post, pc'[q] = "done"
            PROVE  /\ answer'[q] = "ok" => /\ found'[q] \in journal'
                                           /\ found'[q] = q \/ KeyOf[found'[q]] = KeyOf[q]
                   /\ answer'[q] \in {"invalid", "not_found"} => q \notin journal'
        BY <2>0, <3>1, <3>3 DEF AnswerIsTrue, CallOk
      <3> QED
        BY <3>2, <3>3 DEF AnswerIsTrue
    <2>2. ASSUME UNCHANGED <<journal, pc, answer, found>>, accounts \subseteq accounts'
          PROVE  ValidInv' /\ AnswerIsTrue'
      <3>1. AnswerIsTrue'
        BY <2>0, <2>2 DEF AnswerIsTrue
      <3>2. \A S : S \subseteq accounts => S \subseteq accounts'
        BY <2>2
      <3>3. ValidInv'
        BY <2>0, <2>2, <3>2 DEF ValidInv
      <3> QED
        BY <3>1, <3>3
    <2>3. ASSUME NEW a \in Account, CreateAccount(a) PROVE ValidInv' /\ AnswerIsTrue'
      <3>1. UNCHANGED <<journal, pc, answer, found>> /\ accounts \subseteq accounts'
        BY <2>3 DEF CreateAccount
      <3> QED
        BY <2>2, <3>1
    <2>4. CASE UNCHANGED vars
      BY <2>0, <2>2, <2>4 DEF vars, AnswerInv
    <2> QED
      BY <2>0, <2>1, <2>3, <2>4 DEF Next, AnswerInv
  <1>3. AnswerInv => AnswerIsTrue
    BY DEF AnswerInv
  <1> QED
    BY <1>1, <1>2, <1>3, PTL DEF Spec
-----------------------------------------------------------------------------
(* The ledger implements SerialLedger: concurrent calls have the effect of *)
(* whole transactions posted one at a time.                                *)
THEOREM LedgerIsSerial == Spec => IsSerial
  <1>1. Init => Serial!Init
    BY DEF Init, Serial!Init
  <1>2. LedgerInv /\ [Next]_vars => [Serial!Next]_(Serial!vars)
    <2> SUFFICES ASSUME LedgerInv, [Next]_vars PROVE [Serial!Next]_(Serial!vars)
      OBVIOUS
    <2>0. TypeOK /\ Safe
      BY DEF LedgerInv, Safe
    <2>1. CASE UNCHANGED <<journal, cached>>
      BY <2>1 DEF Serial!vars
    <2>2. ASSUME NEW p \in Post, Commit(p), Balanced(p) PROVE Serial!Next
      BY <2>2, CommitStep DEF Serial!Next, Serial!Add
    <2>3. ASSUME NEW a \in Account, CreateAccount(a) PROVE UNCHANGED <<journal, cached>>
      BY <2>3 DEF CreateAccount
    <2>4. CASE UNCHANGED vars
      BY <2>1, <2>4 DEF vars
    <2> QED
      BY <2>0, <2>1, <2>2, <2>3, <2>4, QuietStep DEF Next, Serve, Disturb
  <1> QED
    BY <1>1, <1>2, LedgerInit, LedgerStep, PTL DEF Spec, IsSerial, Serial!Spec
=============================================================================

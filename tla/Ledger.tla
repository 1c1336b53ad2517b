------------------------------- MODULE Ledger -------------------------------
(***************************************************************************)
(* PostTransaction of the ledger service (internal/ledger): validation,    *)
(* one SERIALIZABLE database transaction that inserts the header and the   *)
(* entries and refreshes the cached balance of every account it touches,   *)
(* the bounded retry of serialization failures, and the lookup that makes  *)
(* a repeated key an idempotent no-op.  Every query is a step of its own.  *)
(*                                                                         *)
(* PostgreSQL is modelled from how the service uses it: a snapshot from    *)
(* the first query on, row and key locks until the end of the transaction, *)
(* first-updater-wins, aborts for serialization the database may choose at *)
(* any time, deadlock detection, constraints and deferred triggers.        *)
(*                                                                         *)
(* A balance is a function of the entries it sums, so cached balances are  *)
(* represented by the set of transactions they count.                      *)
(***************************************************************************)
EXTENDS Integers, Sequences, FiniteSetsExt

CONSTANTS
    Post,           \* calls of PostTransaction; a caller may repeat one
    Account,        \* account codes
    Key,            \* idempotency keys
    KeyOf,          \* [Post -> Key \cup {None}]
    ParentOf,       \* [Post -> Post \cup {None}]: the transaction a reversal compensates
    EntriesOf,      \* [Post -> Seq(Entry)]
    Starts,         \* the calls that will be made, and the accounts that exist, at the start
    MaxInt,         \* the largest amount_minor: 2^63 - 1 in the code
    MaxTries,       \* maxSerializationRetries
    MaxFaults       \* bound: failed queries and lost replies

None == "none"
Entry == [account: Account, dir: {"debit", "credit", "unspecified"}, amount: Int, currency: STRING]

ASSUME LedgerAssumption ==
    /\ KeyOf \in [Post -> Key \cup {None}]
    /\ ParentOf \in [Post -> Post \cup {None}]
    /\ EntriesOf \in [Post -> Seq(Entry)]
    /\ Starts \subseteq [calls: SUBSET Post, accounts: SUBSET Account]
    /\ MaxInt \in Nat \ {0} /\ MaxTries \in Nat \ {0}
    /\ MaxFaults \in Nat
    /\ None \notin Post \cup Key \cup Account

VARIABLES
    journal,    \* the transactions committed, by the call that posted them
    cached,     \* account_balances: the transactions each balance counts
    accounts,   \* the accounts that exist
    pc,         \* what each call does next
    tries,      \* serializable attempts so far
    snap,       \* the snapshot of the journal
    locked,     \* the balance rows the transaction has written, hence locked
    at,         \* the account whose balance row it is writing
    answer,     \* the answer to the call, once it has returned
    found,      \* the transaction whose id was answered
    faults

vars == <<journal, cached, accounts, pc, tries, snap, locked, at, answer, found, faults>>

Step == {"idle", "begin", "insert", "sum", "upsert", "commit", "existing", "done"}

(* The steps after InsertTransaction: the call holds its key.              *)
Holding == {"sum", "upsert", "commit"}

Answer == {None, "ok", "invalid", "not_found", "unavailable", "internal"}
-----------------------------------------------------------------------------
Touched(p) == {EntriesOf[p][i].account : i \in DOMAIN EntriesOf[p]}

Lines(p, dir, c) ==
    {i \in DOMAIN EntriesOf[p] : EntriesOf[p][i].dir = dir /\ EntriesOf[p][i].currency = c}

Currencies(p) == {EntriesOf[p][i].currency : i \in DOMAIN EntriesOf[p]}

(* The exact sum, as the database computes it.                             *)
Sum(p, dir, c) == MapThenSumSet(LAMBDA i : EntriesOf[p][i].amount, Lines(p, dir, c))

(* int64 arithmetic wraps around.                                          *)
Wrap(n) == ((n + MaxInt + 1) % (2 * (MaxInt + 1))) - (MaxInt + 1)

(* totals: only debits and credits count.                                  *)
Total(p, dir) == Wrap(MapThenSumSet(LAMBDA c : Sum(p, dir, c), Currencies(p)))

validate(p) ==
    /\ Len(EntriesOf[p]) >= 2
    /\ \A i \in DOMAIN EntriesOf[p] : /\ EntriesOf[p][i].currency = EntriesOf[p][1].currency
                                      /\ EntriesOf[p][i].amount > 0
    /\ Total(p, "debit") = Total(p, "credit")

(* The deferred trigger assert_transaction_balanced.                       *)
Balanced(p) == \A c \in Currencies(p) : Sum(p, "debit", c) = Sum(p, "credit", c)

(* CHECK (direction IN ('debit','credit')).                                *)
Directed(p) == \A i \in DOMAIN EntriesOf[p] : EntriesOf[p][i].dir # "unspecified"

(* SumEntriesByAccount casts its sums to bigint.                           *)
AccountSum(a, dir, ps) ==
    MapThenSumSet(LAMBDA p : MapThenSumSet(LAMBDA i : EntriesOf[p][i].amount,
                    {i \in DOMAIN EntriesOf[p] : /\ EntriesOf[p][i].account = a
                                                 /\ EntriesOf[p][i].dir = dir}), ps)

Representable(a, ps) == AccountSum(a, "debit", ps) <= MaxInt /\ AccountSum(a, "credit", ps) <= MaxInt
-----------------------------------------------------------------------------
(* The unique indexes: the idempotency key, if there is one, and one       *)
(* reversal per parent.                                                    *)
Collide(p, q) ==
    \/ KeyOf[p] # None /\ KeyOf[p] = KeyOf[q]
    \/ ParentOf[p] # None /\ ParentOf[p] = ParentOf[q]

Rivals(p, q) == p # q /\ Collide(p, q)

(* A transaction without a key and a parent collides with nothing.         *)
Taken(p, js) == \E q \in js : Collide(p, q)

(* The constraints on a header: the unique indexes, and the foreign key to *)
(* the parent.                                                             *)
Allowed(p, js) == ~Taken(p, js) /\ ParentOf[p] \in js \cup {None}

Goto(p, step) == pc' = [pc EXCEPT ![p] = step]

(* The end of a database transaction gives up its snapshot and locks.      *)
EndTx(p) ==
    /\ snap' = [snap EXCEPT ![p] = {}]
    /\ locked' = [locked EXCEPT ![p] = {}]
    /\ at' = [at EXCEPT ![p] = None]

InTx == UNCHANGED <<snap, locked, at, tries, answer, found>>

(* The call returns: the caller has its answer.                            *)
Reply(p, a, id) ==
    /\ Goto(p, "done")
    /\ EndTx(p)
    /\ tries' = [tries EXCEPT ![p] = 0]
    /\ answer' = [answer EXCEPT ![p] = a]
    /\ found' = [found EXCEPT ![p] = id]

FaultBudget == faults < MaxFaults /\ faults' = faults + 1

(* Mutant: the attempts are not counted.                                   *)
AgainForever(p) == Goto(p, "begin") /\ EndTx(p) /\ UNCHANGED <<tries, answer, found>>

(* retryOnSerialization: a 40001 rolls back and starts over, or exhausts   *)
(* the budget.                                                             *)
Again(p) ==
    \/ /\ tries[p] < MaxTries
       /\ tries' = [tries EXCEPT ![p] = @ + 1]
       /\ Goto(p, "begin") /\ EndTx(p) /\ UNCHANGED <<answer, found>>
    \/ /\ tries[p] >= MaxTries
       /\ Reply(p, "unavailable", None)

(* PostTransaction: validation first.                                      *)
Call(p) ==
    /\ pc[p] = "idle"
    /\ \/ /\ validate(p)
          /\ tries' = [tries EXCEPT ![p] = 1]
          /\ Goto(p, "begin") /\ UNCHANGED <<snap, locked, at, answer, found>>
       \/ /\ ~validate(p)
          /\ Reply(p, "invalid", None)
    /\ UNCHANGED <<journal, cached, accounts, faults>>

(* resolveAccounts, the first query: it takes the snapshot.                *)
Resolve(p) ==
    /\ pc[p] = "begin"
    /\ \/ /\ Touched(p) \subseteq accounts
          /\ snap' = [snap EXCEPT ![p] = journal]
          /\ Goto(p, "insert") /\ UNCHANGED <<locked, at, tries, answer, found>>
       \/ /\ ~(Touched(p) \subseteq accounts)
          /\ Reply(p, "not_found", None)
    /\ UNCHANGED <<journal, cached, accounts, faults>>

(* A rival's uncommitted insert, or a rival's lock on the balance row.     *)
WaitsFor(p) ==
    {q \in Post \ {p} : /\ pc[q] \in Holding
                        /\ \/ pc[p] = "insert" /\ Rivals(p, q)
                           \/ pc[p] = "upsert" /\ at[p] \in locked[q]}

(* Mutant: neither unique index exists.                                    *)
InsertTransactionAlways(p) ==
    /\ pc[p] = "insert"
    /\ Goto(p, "sum") /\ InTx
    /\ UNCHANGED <<journal, cached, accounts, faults>>

(* InsertTransaction and InsertEntry.  A rival that committed violates the *)
(* unique index, or (if it is not in the snapshot) serializability.        *)
InsertTransaction(p) ==
    /\ pc[p] = "insert"
    /\ WaitsFor(p) = {}
    /\ \/ /\ Taken(p, journal)
          /\ Goto(p, "existing") /\ EndTx(p) /\ UNCHANGED <<tries, answer, found>>
       \/ /\ Taken(p, journal) /\ ~Taken(p, snap[p])
          /\ Again(p)
       \/ /\ Allowed(p, journal) /\ Directed(p)
          /\ Goto(p, "sum") /\ InTx
       \/ /\ ~Taken(p, journal) /\ ~(Allowed(p, journal) /\ Directed(p))
          /\ Reply(p, "internal", None)
    /\ UNCHANGED <<journal, cached, accounts, faults>>

GetTransactionByIdempotencyKey(p) == {q \in journal : KeyOf[p] # None /\ KeyOf[q] = KeyOf[p]}

(* Mutant: the id generated in the transaction that was rolled back.       *)
ExistingOwnId(p) ==
    /\ pc[p] = "existing"
    /\ Reply(p, "ok", p)
    /\ UNCHANGED <<journal, cached, accounts, faults>>

(* The unique violation is resolved to the key's transaction, if it was    *)
(* the key that collided.                                                  *)
Existing(p) ==
    /\ pc[p] = "existing"
    /\ \/ \E q \in GetTransactionByIdempotencyKey(p) : Reply(p, "ok", q)
       \/ GetTransactionByIdempotencyKey(p) = {} /\ Reply(p, "internal", None)
    /\ UNCHANGED <<journal, cached, accounts, faults>>

(* updateCachedBalances: for the accounts in any order (a Go map), sum the *)
(* entries the snapshot shows ...                                          *)
SumEntries(p) ==
    /\ pc[p] = "sum"
    /\ \/ \E a \in Touched(p) \ locked[p] :
            \/ /\ Representable(a, snap[p] \cup {p})
               /\ at' = [at EXCEPT ![p] = a]
               /\ Goto(p, "upsert") /\ UNCHANGED <<snap, locked, tries, answer, found>>
            \/ /\ ~Representable(a, snap[p] \cup {p})
               /\ Reply(p, "internal", None)
       \/ /\ Touched(p) \subseteq locked[p]
          /\ Goto(p, "commit") /\ InTx
    /\ UNCHANGED <<journal, cached, accounts, faults>>

(* Write the balance: its row is locked until the transaction ends.        *)
Written(p) ==
    /\ locked' = [locked EXCEPT ![p] = @ \cup {at[p]}]
    /\ at' = [at EXCEPT ![p] = None]
    /\ Goto(p, "sum") /\ UNCHANGED <<snap, tries, answer, found>>

(* Mutant: a weaker isolation level, where the last update wins.           *)
UpsertLastWins(p) ==
    /\ pc[p] = "upsert"
    /\ WaitsFor(p) = {}
    /\ Written(p)
    /\ UNCHANGED <<journal, cached, accounts, faults>>

(* ... and write the balance, once its row is free; a row written since    *)
(* the snapshot is a serialization failure.                                *)
UpsertCachedBalance(p) ==
    /\ pc[p] = "upsert"
    /\ WaitsFor(p) = {}
    /\ LET stale == \E q \in journal \ snap[p] : at[p] \in Touched(q)
       IN  \/ ~stale /\ Written(p)
           \/ stale /\ Again(p)
    /\ UNCHANGED <<journal, cached, accounts, faults>>

(* What the transaction wrote becomes visible at once; the reply arrives   *)
(* or is lost.                                                             *)
Visible(p) ==
    /\ journal' = journal \cup {p}
    /\ cached' = [a \in Account |->
                    IF a \in Touched(p)
                      THEN {q \in snap[p] \cup {p} : a \in Touched(q)} ELSE cached[a]]
    /\ \/ Reply(p, "ok", p) /\ UNCHANGED faults
       \/ Reply(p, "internal", None) /\ FaultBudget

(* Mutant: the deferred balance trigger is missing.                        *)
CommitUnbalanced(p) ==
    /\ pc[p] = "commit"
    /\ Visible(p)
    /\ UNCHANGED accounts

(* Commit runs the deferred trigger first.                                 *)
Commit(p) ==
    /\ pc[p] = "commit"
    /\ \/ Balanced(p) /\ Visible(p)
       \/ /\ ~Balanced(p)
          /\ Reply(p, "internal", None)
          /\ UNCHANGED <<journal, cached, faults>>
    /\ UNCHANGED accounts

(* The database aborts a transaction that overlaps another one (40001).    *)
SerializationFailure(p) ==
    /\ pc[p] \in {"insert"} \cup Holding
    /\ journal # snap[p] \/ \E q \in Post \ {p} : pc[q] \in {"insert"} \cup Holding
    /\ Again(p)
    /\ UNCHANGED <<journal, cached, accounts, faults>>

(* Everyone p waits for, directly or through others that wait.             *)
Blockers(p) ==
    LET reach[n \in 0 .. Cardinality(Post)] ==
          IF n = 0 THEN WaitsFor(p) ELSE UNION {{q} \cup WaitsFor(q) : q \in reach[n - 1]}
    IN  reach[Cardinality(Post)]

(* A deadlock of lock waits is broken by an error that is not 40001.       *)
Deadlock(p) ==
    /\ pc[p] \in {"insert", "upsert"}
    /\ p \in Blockers(p)
    /\ Reply(p, "internal", None)
    /\ UNCHANGED <<journal, cached, accounts, faults>>

Running(p) == pc[p] \in Step \ {"idle", "done"}

(* A query fails or the process dies: the transaction is rolled back.      *)
Fault(p) ==
    /\ Running(p)
    /\ FaultBudget
    /\ Reply(p, "internal", None)
    /\ UNCHANGED <<journal, cached, accounts>>

(* A caller without a definite answer calls again.  Without a key this is  *)
(* a new transaction, hence another member of Post.                        *)
Recall(p) ==
    /\ pc[p] = "done" /\ answer[p] \in {"unavailable", "internal"}
    /\ KeyOf[p] # None
    /\ Goto(p, "idle")
    /\ answer' = [answer EXCEPT ![p] = None]
    /\ UNCHANGED <<journal, cached, accounts, snap, locked, at, tries, found, faults>>

CreateAccount(a) ==
    /\ a \notin accounts
    /\ accounts' = accounts \cup {a}
    /\ UNCHANGED <<journal, cached, pc, snap, locked, at, tries, answer, found, faults>>
-----------------------------------------------------------------------------
Init ==
    /\ journal = {}
    /\ cached = [a \in Account |-> {}]
    /\ \E s \in Starts : /\ accounts = s.accounts
                         /\ pc = [p \in Post |-> IF p \in s.calls THEN "idle" ELSE "done"]
    /\ tries = [p \in Post |-> 0]
    /\ snap = [p \in Post |-> {}]
    /\ locked = [p \in Post |-> {}]
    /\ at = [p \in Post |-> None]
    /\ answer = [p \in Post |-> None]
    /\ found = [p \in Post |-> None]
    /\ faults = 0

(* What a call that has begun does, or the database for it: of these steps *)
(* it is sure to take one.                                                 *)
Serve(p) ==
    \/ Resolve(p) \/ InsertTransaction(p) \/ Existing(p) \/ SumEntries(p)
    \/ UpsertCachedBalance(p) \/ Commit(p) \/ Deadlock(p)

(* What may happen to it instead.                                          *)
Disturb(p) == SerializationFailure(p) \/ Fault(p)

Next ==
    \/ \E p \in Post : Call(p) \/ Serve(p) \/ Disturb(p) \/ Recall(p)
    \/ \E a \in Account : CreateAccount(a)

Spec == Init /\ [][Next]_vars

(* A call that has begun runs on; the fairness is strong because a lock    *)
(* that is given up goes to those who wait for it, in turn.                *)
FairSpec == Spec /\ \A p \in Post : SF_vars(Running(p) /\ Serve(p))
-----------------------------------------------------------------------------
(* Every variable has its type; a call that writes a balance row knows     *)
(* which (updateCachedBalances).                                           *)
TypeOK ==
    /\ journal \in SUBSET Post
    /\ cached \in [Account -> SUBSET Post]
    /\ accounts \in SUBSET Account
    /\ pc \in [Post -> Step]
    /\ tries \in [Post -> Nat]
    /\ snap \in [Post -> SUBSET Post]
    /\ locked \in [Post -> SUBSET Account]
    /\ at \in [Post -> Account \cup {None}]
    /\ answer \in [Post -> Answer]
    /\ found \in [Post -> Post \cup {None}]
    /\ faults \in Nat

(* The cached balance of an account counts exactly the account's entries   *)
(* in the journal, though each is recomputed from a snapshot while other   *)
(* transactions commit (service.go updateCachedBalances, ADR-0002).        *)
CacheMatchesJournal ==
    \A a \in Account : cached[a] = {p \in journal : a \in Touched(p)}

(* However often a leg is posted again, concurrently or after a lost       *)
(* reply, its key has one transaction, and a parent has one reversal.      *)
PostedOnce == \A p, q \in journal : ~Rivals(p, q)

(* Every transaction in the journal balances exactly, although validate    *)
(* adds with wrap-around (transaction.go totals): total balance is         *)
(* conserved.                                                              *)
JournalBalanced == \A p \in journal : Balanced(p) /\ Directed(p)

(* The answer tells the caller the truth: an id names the key's committed  *)
(* transaction, and after invalid or not_found, on which the switch fails  *)
(* the transfer for good, nothing has been posted, by this call or by an   *)
(* earlier one whose reply was lost (grpc.go postErrToStatus).             *)
AnswerIsTrue ==
    \A p \in Post :
        pc[p] = "done" =>
            /\ answer[p] = "ok" => /\ found[p] \in journal
                                   /\ found[p] = p \/ KeyOf[found[p]] = KeyOf[p]
            /\ answer[p] \in {"invalid", "not_found"} => p \notin journal

(* The inductive invariant behind these.  A snapshot is part of the        *)
(* journal; a balance row is locked by one transaction at a time, and no   *)
(* transaction outside the holder's snapshot has touched its account; the  *)
(* holder of a key or of a parent is alone with it and not yet in the      *)
(* journal; a call without a key is over once it is in the journal.        *)
SnapInv == \A p \in Post : snap[p] \subseteq journal

LockInv ==
    /\ \A p \in Post : pc[p] \notin Holding => locked[p] = {}
    /\ \A p, q \in Post : p # q => locked[p] \cap locked[q] = {}
    /\ \A p \in Post : pc[p] = "commit" => Touched(p) \subseteq locked[p]
    /\ \A p \in Post : pc[p] = "upsert" => at[p] \in Touched(p)

FreshInv == \A p \in Post : \A q \in journal \ snap[p] : locked[p] \cap Touched(q) = {}

HolderInv ==
    \A p \in Post :
        pc[p] \in Holding =>
            /\ p \notin journal /\ Allowed(p, journal) /\ Directed(p)
            /\ \A q \in Post : pc[q] \in Holding => ~Rivals(p, q)

KeylessInv == \A p \in journal : KeyOf[p] = None => pc[p] = "done"

(* All of these together are inductive (service.go PostTransaction).       *)
LedgerInv ==
    /\ TypeOK /\ SnapInv /\ LockInv /\ FreshInv /\ HolderInv /\ KeylessInv
    /\ CacheMatchesJournal /\ PostedOnce /\ JournalBalanced

(* Every call is answered: the retries are bounded and no two transactions *)
(* wait for each other forever (retry.go retryOnSerialization).            *)
EveryCallAnswered == \A p \in Post : pc[p] = "begin" ~> pc[p] = "done"

Serial == INSTANCE SerialLedger

(* The ledger is serial: concurrent calls have the effect of whole         *)
(* transactions added one at a time (service.go PostTransaction,           *)
(* repository.go WithSerializableTx).                                      *)
IsSerial == Serial!Spec
=============================================================================

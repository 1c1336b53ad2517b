---------------------------- MODULE Idempotency ----------------------------
(***************************************************************************)
(* Deduplication of POST /transfers by its Idempotency-Key: the durable    *)
(* key record with its lease (idempotency.go) and the decorator around the *)
(* orchestrator that reserves the key, creates the transfer and records    *)
(* the result (idempotent.go).  Every database call is a step of its own.  *)
(*                                                                         *)
(* A transfer is named by the request that created it.  What happens to it *)
(* afterwards is module Switch, whose Create is CreatePending here.        *)
(***************************************************************************)
EXTENDS Naturals

CONSTANTS
    Request,    \* requests clients send; a client may send one again
    Key,        \* Idempotency-Key header values
    Body,       \* request bodies, up to Fingerprint
    KeyOf,      \* [Request -> Key]
    BodyOf,     \* [Request -> Body]
    Invalid,    \* bodies that Validate rejects
    FaultSteps, \* bound: the steps whose database call may fail
    LossSteps,  \* bound: the steps whose reply may be lost after the commit
    CrashSteps, \* bound: the steps at which the process may die
    MaxFaults   \* bound: failed calls, lost replies and crashes

None == "none"

Step == {"new", "inspect", "lookup", "replay", "create", "view", "complete", "fail",
         "done", "gone"}

(* The steps of the request that owns the key.                             *)
Owning == {"create", "view", "complete", "fail"}

ASSUME IdempotencyAssumption ==
    /\ KeyOf \in [Request -> Key]
    /\ BodyOf \in [Request -> Body]
    /\ Invalid \subseteq Body
    /\ FaultSteps \subseteq Step \ {"done", "gone"}
    /\ LossSteps \subseteq Step \ {"done", "gone"}
    /\ CrashSteps \subseteq Step \ {"done", "gone"}
    /\ MaxFaults \in Nat
    /\ None \notin Request /\ None \notin Body

VARIABLES
    keys,       \* the idempotency_keys table
    rows,       \* the transfers that exist, by the request that created them
    pc,         \* what each request does next
    found,      \* the transfer a replay has found
    answer,     \* the last answer to each request
    faults

vars == <<keys, rows, pc, found, answer, faults>>

KeyStatus == {None, "in_progress", "succeeded", "failed"}
KeyRow == [status: KeyStatus, body: Body \cup {None}, tx: Request \cup {None}, live: BOOLEAN]

NoKey == [status |-> None, body |-> None, tx |-> None, live |-> FALSE]

Answer == {None, "invalid", "conflict", "busy", "error", "accepted"}
-----------------------------------------------------------------------------
Goto(r, step) == pc' = [pc EXCEPT ![r] = step]

Reply(r, a) ==
    /\ Goto(r, "done")
    /\ answer' = [answer EXCEPT ![r] = a]

FaultBudget == faults < MaxFaults /\ faults' = faults + 1

(* The call committed; its reply arrives or is lost.                       *)
Committed(r, continue, lost) ==
    \/ continue /\ UNCHANGED faults
    \/ pc[r] \in LossSteps /\ lost /\ FaultBudget

(* Create: an invalid request is rejected before its key is touched.       *)
Reject(r) ==
    /\ pc[r] = "new" /\ BodyOf[r] \in Invalid
    /\ Reply(r, "invalid")
    /\ UNCHANGED <<keys, rows, found, faults>>

(* Mutant: an expired lease counts as a free key.                          *)
ReserveTakesOver(r) ==
    /\ pc[r] = "new" /\ BodyOf[r] \notin Invalid
    /\ \/ /\ \/ keys[KeyOf[r]].status = None
             \/ keys[KeyOf[r]].status = "in_progress" /\ ~keys[KeyOf[r]].live
          /\ keys' = [keys EXCEPT ![KeyOf[r]] =
                        [status |-> "in_progress", body |-> BodyOf[r], tx |-> None, live |-> TRUE]]
          /\ Committed(r, Goto(r, "create") /\ UNCHANGED answer, Reply(r, "error"))
       \/ /\ keys[KeyOf[r]].status # None
          /\ Goto(r, "inspect")
          /\ UNCHANGED <<keys, answer, faults>>
    /\ UNCHANGED <<rows, found>>

(* Reserve: INSERT ... ON CONFLICT DO NOTHING.  Exactly one request gets   *)
(* to create; the others inspect what is there.                            *)
Reserve(r) ==
    /\ pc[r] = "new" /\ BodyOf[r] \notin Invalid
    /\ \/ /\ keys[KeyOf[r]].status = None
          /\ keys' = [keys EXCEPT ![KeyOf[r]] =
                        [status |-> "in_progress", body |-> BodyOf[r], tx |-> None, live |-> TRUE]]
          /\ Committed(r, Goto(r, "create") /\ UNCHANGED answer, Reply(r, "error"))
       \/ /\ keys[KeyOf[r]].status # None
          /\ Goto(r, "inspect")
          /\ UNCHANGED <<keys, answer, faults>>
    /\ UNCHANGED <<rows, found>>

GetIdempotencyKey(r) == keys[KeyOf[r]]

(* Mutant: the fingerprint is not compared.                                *)
InspectAnyBody(r) ==
    /\ pc[r] = "inspect"
    /\ LET k == GetIdempotencyKey(r)
       IN  \/ /\ k.tx # None
              /\ found' = [found EXCEPT ![r] = k.tx]
              /\ Goto(r, "replay") /\ UNCHANGED answer
           \/ k.tx = None /\ k.status # "in_progress" /\ Reply(r, "error") /\ UNCHANGED found
           \/ k.tx = None /\ k.status = "in_progress" /\ k.live /\ Reply(r, "busy") /\ UNCHANGED found
           \/ /\ k.tx = None /\ k.status = "in_progress" /\ ~k.live
              /\ Goto(r, "lookup") /\ UNCHANGED <<found, answer>>
    /\ UNCHANGED <<keys, rows, faults>>

(* The rest of Reserve, inProgressResult and the decorator's switch: a     *)
(* different body conflicts; a completed key replays its transfer, or the  *)
(* stored response if it names none (a failed key stores none, which does  *)
(* not decode); a key in progress is busy until its lease expires, then    *)
(* its transfer is looked up.                                              *)
Inspect(r) ==
    /\ pc[r] = "inspect"
    /\ LET k == GetIdempotencyKey(r)
           same == k.body = BodyOf[r]
           busy == k.status = "in_progress" /\ k.live
       IN  \/ ~same /\ Reply(r, "conflict") /\ UNCHANGED found
           \/ same /\ busy /\ Reply(r, "busy") /\ UNCHANGED found
           \/ /\ same /\ ~busy /\ k.tx # None
              /\ found' = [found EXCEPT ![r] = k.tx]
              /\ Goto(r, "replay") /\ UNCHANGED answer
           \/ /\ same /\ ~busy /\ k.tx = None /\ k.status = "in_progress"
              /\ Goto(r, "lookup") /\ UNCHANGED <<found, answer>>
           \/ /\ same /\ ~busy /\ k.tx = None /\ k.status # "in_progress"
              /\ Reply(r, "error") /\ UNCHANGED found
    /\ UNCHANGED <<keys, rows, faults>>

(* Mutant: past the lease the key still counts as busy.                    *)
LookupNever(r) ==
    /\ pc[r] = "lookup"
    /\ Reply(r, "busy")
    /\ UNCHANGED <<keys, rows, found, faults>>

GetTransferIDByIdempotencyKey(r) == {t \in rows : KeyOf[t] = KeyOf[r]}

(* The transfer of the key is found; none (or an error) is busy.           *)
Lookup(r) ==
    /\ pc[r] = "lookup"
    /\ \/ \E t \in GetTransferIDByIdempotencyKey(r) :
            /\ found' = [found EXCEPT ![r] = t]
            /\ Goto(r, "replay") /\ UNCHANGED answer
       \/ /\ GetTransferIDByIdempotencyKey(r) = {}
          /\ Reply(r, "busy") /\ UNCHANGED found
    /\ UNCHANGED <<keys, rows, faults>>

(* A replay answers with the live view of the transfer.                    *)
Replay(r) ==
    /\ pc[r] = "replay"
    /\ Reply(r, "accepted")
    /\ UNCHANGED <<keys, rows, found, faults>>

(* Orchestrator.Create: the transfer's row carries the key, which is       *)
(* unique.  An error marks the key failed.                                 *)
CreatePending(r) ==
    /\ pc[r] = "create"
    /\ \/ /\ \A t \in rows : KeyOf[t] # KeyOf[r]
          /\ rows' = rows \cup {r}
          /\ Committed(r, Goto(r, "view"), Goto(r, "fail"))
       \/ /\ \E t \in rows : KeyOf[t] = KeyOf[r]
          /\ Goto(r, "fail") /\ UNCHANGED <<rows, faults>>
    /\ UNCHANGED <<keys, found, answer>>

(* ... the debit is tried inline and the view read.                        *)
View(r) ==
    /\ pc[r] = "view"
    /\ Goto(r, "complete")
    /\ UNCHANGED <<keys, rows, found, answer, faults>>

CompleteIdempotencyKey(r, to, tx) ==
    keys' = [keys EXCEPT ![KeyOf[r]].status = to, ![KeyOf[r]].tx = tx]

(* Complete(succeeded): the key names its transfer.                        *)
Complete(r) ==
    /\ pc[r] = "complete"
    /\ CompleteIdempotencyKey(r, "succeeded", r)
    /\ found' = [found EXCEPT ![r] = r]
    /\ Committed(r, Reply(r, "accepted"), Reply(r, "error"))
    /\ UNCHANGED rows

(* Complete(failed), with no transfer; the caller gets the first error.    *)
CompleteFailed(r) ==
    /\ pc[r] = "fail"
    /\ CompleteIdempotencyKey(r, "failed", None)
    /\ Committed(r, Reply(r, "error"), Reply(r, "error"))
    /\ UNCHANGED <<rows, found>>
-----------------------------------------------------------------------------
(* A database call fails without effect.                                   *)
Fault(r) ==
    /\ pc[r] \in FaultSteps
    /\ FaultBudget
    /\ \/ pc[r] \in {"create", "view"} /\ Goto(r, "fail") /\ UNCHANGED answer
       \/ pc[r] = "lookup" /\ Reply(r, "busy")
       \/ pc[r] \notin {"create", "view", "lookup"} /\ Reply(r, "error")
    /\ UNCHANGED <<keys, rows, found>>

(* The process dies; the client hears nothing.                             *)
Crash(r) ==
    /\ pc[r] \in CrashSteps
    /\ FaultBudget
    /\ Goto(r, "gone")
    /\ UNCHANGED <<keys, rows, found, answer>>

(* The lease of a key in progress runs out, its holder alive or not (that  *)
(* of a completed key is never read).                                      *)
Expire(k) ==
    /\ keys[k].live /\ keys[k].status = "in_progress"
    /\ keys' = [keys EXCEPT ![k].live = FALSE]
    /\ UNCHANGED <<rows, pc, found, answer, faults>>

(* A client without a definite answer sends the same request again.        *)
Retry(r) ==
    /\ \/ pc[r] = "done" /\ answer[r] \in {"busy", "error"}
       \/ pc[r] = "gone"
    /\ Goto(r, "new")
    /\ found' = [found EXCEPT ![r] = None]
    /\ UNCHANGED <<keys, rows, answer, faults>>

Init ==
    /\ keys = [k \in Key |-> NoKey]
    /\ rows = {}
    /\ pc = [r \in Request |-> "new"]
    /\ found = [r \in Request |-> None]
    /\ answer = [r \in Request |-> None]
    /\ faults = 0

Serve(r) ==
    \/ Reject(r) \/ Reserve(r) \/ Inspect(r) \/ Lookup(r) \/ Replay(r)
    \/ CreatePending(r) \/ View(r) \/ Complete(r) \/ CompleteFailed(r)

Next ==
    \/ \E r \in Request : Serve(r) \/ Fault(r) \/ Crash(r) \/ Retry(r)
    \/ \E k \in Key : Expire(k)

Spec == Init /\ [][Next]_vars

(* A request goroutine runs on, time passes, and clients keep retrying.    *)
FairSpec ==
    /\ Spec
    /\ \A r \in Request : WF_vars(Serve(r)) /\ WF_vars(Retry(r))
    /\ \A k \in Key : WF_vars(Expire(k))
-----------------------------------------------------------------------------
(* Every variable has its type; a key's status is one that the CHECK       *)
(* constraint of idempotency_keys allows (Complete).                       *)
TypeOK ==
    /\ keys \in [Key -> KeyRow]
    /\ rows \in SUBSET Request
    /\ pc \in [Request -> Step]
    /\ found \in [Request -> Request \cup {None}]
    /\ answer \in [Request -> Answer]
    /\ faults \in Nat

(* A key is owned at most once, ever: no two requests are past Reserve for *)
(* one key, and whoever is about to create the transfer is the first.  The *)
(* UNIQUE constraint on transactions.idempotency_key is never needed, even *)
(* when a lease runs out under a slow holder (idempotency.go Reserve).     *)
KeyHeldOnce ==
    \A r, s \in Request :
        KeyOf[r] = KeyOf[s] /\ pc[r] \in Owning =>
            /\ pc[s] \in Owning => r = s
            /\ pc[r] = "create" => s \notin rows

(* Whoever is told "accepted" is told about a transfer that exists and was *)
(* created for the same key from the same body, whether it created it,     *)
(* replayed a completed key or took over an expired one.                   *)
AcceptedIsOwn ==
    \A r \in Request :
        answer[r] = "accepted" =>
            /\ found[r] \in rows
            /\ KeyOf[found[r]] = KeyOf[r] /\ BodyOf[found[r]] = BodyOf[r]

(* A key that succeeded stays so and keeps naming its transfer, though     *)
(* holders may finish long after their lease.                              *)
SuccessIsFinal ==
    [][\A k \in Key : keys[k].status = "succeeded" => keys'[k] = keys[k]]_vars

(* The inductive invariant behind the three properties above.  The owner   *)
(* of a key is alone with it and its row is open; a transfer's key has the *)
(* transfer's body; whatever a key or a request refers to is a transfer of *)
(* that key and body.                                                      *)
OwnerInv ==
    \A r \in Request :
        pc[r] \in Owning =>
            /\ keys[KeyOf[r]].status = "in_progress" /\ keys[KeyOf[r]].body = BodyOf[r]
            /\ \A s \in Request : pc[s] \in Owning /\ KeyOf[s] = KeyOf[r] => s = r
            /\ pc[r] = "create" => \A t \in rows : KeyOf[t] # KeyOf[r]
            /\ pc[r] \in {"view", "complete"} => r \in rows

RowInv ==
    /\ \A t \in rows : keys[KeyOf[t]].status # None /\ keys[KeyOf[t]].body = BodyOf[t]
    /\ \A k \in Key : keys[k].tx # None => keys[k].tx \in rows /\ KeyOf[keys[k].tx] = k

Own(r) ==
    found[r] \in rows /\ KeyOf[found[r]] = KeyOf[r] /\ BodyOf[found[r]] = BodyOf[r]

ReaderInv ==
    \A r \in Request :
        /\ pc[r] = "inspect" => keys[KeyOf[r]].status # None
        /\ pc[r] = "lookup" => keys[KeyOf[r]].status # None /\ keys[KeyOf[r]].body = BodyOf[r]
        /\ pc[r] = "replay" => Own(r)
        /\ answer[r] = "accepted" => pc[r] = "done" /\ Own(r)

(* The inductive invariant of the key record (idempotency.go Reserve,      *)
(* Complete; idempotent.go Create).                                        *)
IdemInv == TypeOK /\ OwnerInv /\ RowInv /\ ReaderInv

Answered(r) == pc[r] = "done" /\ answer[r] \in {"invalid", "conflict", "accepted"}

(* The key can not be resolved any more: it failed, or its holder is gone  *)
(* and left no transfer.                                                   *)
Blocked(r) ==
    LET k == KeyOf[r]
    IN  \/ keys[k].status = "failed"
        \/ /\ keys[k].status = "in_progress"
           /\ \A t \in rows : KeyOf[t] # k
           /\ \A s \in Request : KeyOf[s] = k => pc[s] \notin Owning

(* A client that keeps sending its request gets a definite answer, also if *)
(* the holder of the key died after the transfer was created or could not  *)
(* record the result; the only exceptions are keys that failed and keys    *)
(* whose holder died before the transfer existed, lease or not             *)
(* (idempotency.go inProgressResult).                                      *)
AnsweredOrBlocked == \A r \in Request : <>(Answered(r) \/ Blocked(r))

(* A failure releases the key, so that a retry can proceed                 *)
(* (idempotent.go:26).                                                     *)
FailedKeyIsReleased ==
    \A r \in Request :
        (keys[KeyOf[r]].status = "failed" /\ keys[KeyOf[r]].body = BodyOf[r]) ~> Answered(r)
=============================================================================

------------------------- MODULE IdempotencyProofs -------------------------
(***************************************************************************)
(* Proofs about Idempotency, for any requests, keys, bodies and faults.    *)
(***************************************************************************)
EXTENDS Idempotency, TLAPS

(* The writes to a key's record keep its type.                             *)
LEMMA KeyWrites ==
    ASSUME keys \in [Key -> KeyRow], NEW k \in Key, NEW st \in KeyStatus,
           NEW tx \in Request \cup {None}
    PROVE  /\ [keys EXCEPT ![k].status = st, ![k].tx = tx] \in [Key -> KeyRow]
           /\ [keys EXCEPT ![k].live = FALSE] \in [Key -> KeyRow]
  <1>1. \A row \in KeyRow : /\ [row EXCEPT !.status = st, !.tx = tx] \in KeyRow
                            /\ [row EXCEPT !.live = FALSE] \in KeyRow
    BY DEF KeyRow
  <1>2. keys[k] \in KeyRow
    OBVIOUS
  <1>3. [keys EXCEPT ![k] = [keys[k] EXCEPT !.status = st, !.tx = tx]] \in [Key -> KeyRow]
    BY <1>1, <1>2
  <1>4. [keys EXCEPT ![k].live = FALSE] \in [Key -> KeyRow]
    BY <1>1, <1>2
  <1>5. [keys EXCEPT ![k].status = st, ![k].tx = tx]
          = [keys EXCEPT ![k] = [keys[k] EXCEPT !.status = st, !.tx = tx]]
    OBVIOUS
  <1> QED
    BY <1>3, <1>4, <1>5

(* Every step preserves IdemInv.                                           *)
LEMMA IdemStep == IdemInv /\ [Next]_vars => IdemInv'
  <1> SUFFICES ASSUME IdemInv, [Next]_vars PROVE IdemInv'
    OBVIOUS
  <1> USE IdempotencyAssumption
  <1>0. TypeOK /\ OwnerInv /\ RowInv /\ ReaderInv
    BY DEF IdemInv
  <1>1. ASSUME NEW r \in Request, Reject(r) PROVE IdemInv'
    <2>1. TypeOK'
      BY <1>0, <1>1 DEF Reject, Reply, Goto, Committed, FaultBudget, TypeOK, Step, Answer, KeyRow, KeyStatus
    <2>2. OwnerInv'
      BY <1>0, <1>1 DEF Reject, Reply, Goto, Committed, FaultBudget, TypeOK, OwnerInv, RowInv, ReaderInv, Owning, Step, KeyRow, None
    <2>3. RowInv'
      BY <1>0, <1>1 DEF Reject, Reply, Goto, Committed, FaultBudget, TypeOK, OwnerInv, RowInv, Owning, KeyRow, None
    <2>4. ReaderInv'
      BY <1>0, <1>1 DEF Reject, Reply, Goto, Committed, FaultBudget, TypeOK, OwnerInv, RowInv, ReaderInv, Own, Owning, Step, KeyRow, Answer, None
    <2> QED
      BY <2>1, <2>2, <2>3, <2>4 DEF IdemInv
  <1>2. ASSUME NEW r \in Request, Reserve(r) PROVE IdemInv'
    <2>1. TypeOK'
      <3>1. keys' \in [Key -> KeyRow]
        <4>1. [status |-> "in_progress", body |-> BodyOf[r], tx |-> None, live |-> TRUE] \in KeyRow
          BY DEF KeyRow, KeyStatus
        <4> QED
          BY <1>0, <1>2, <4>1 DEF Reserve, TypeOK
      <3>2. pc' \in [Request -> Step] /\ answer' \in [Request -> Answer]
        BY <1>0, <1>2 DEF Reserve, Reply, Goto, Committed, TypeOK, Step, Answer
      <3>3. rows' \in SUBSET Request /\ found' \in [Request -> Request \cup {None}]
        BY <1>0, <1>2 DEF Reserve, TypeOK
      <3>4. faults' \in Nat
        <4>1. UNCHANGED faults \/ FaultBudget
          BY <1>2 DEF Reserve, Committed
        <4> QED
          BY <1>0, <4>1 DEF FaultBudget, TypeOK
      <3> QED
        BY <3>1, <3>2, <3>3, <3>4 DEF TypeOK
    <2>2. OwnerInv'
      BY <1>0, <1>2 DEF Reserve, Reply, Goto, Committed, FaultBudget, TypeOK, OwnerInv, RowInv, ReaderInv, Owning, Step, KeyRow, None
    <2>3. RowInv'
      <3>1. CASE keys' = keys
        BY <1>0, <1>2, <3>1 DEF Reserve, RowInv
      <3>2. CASE keys[KeyOf[r]].status = None
        <4> DEFINE new == [status |-> "in_progress", body |-> BodyOf[r], tx |-> None, live |-> TRUE]
        <4>1. keys' = [keys EXCEPT ![KeyOf[r]] = new] /\ rows' = rows
          BY <1>2, <3>2 DEF Reserve
        <4>2. new.tx = None
          OBVIOUS
        <4> HIDE DEF new
        <4>3. /\ \A t \in rows : KeyOf[t] # KeyOf[r] /\ t \in Request
              /\ \A k \in Key : keys'[k] = IF k = KeyOf[r] THEN new ELSE keys[k]
          BY <1>0, <3>2, <4>1 DEF RowInv, TypeOK
        <4>4. \A t \in rows' : keys'[KeyOf[t]].status # None /\ keys'[KeyOf[t]].body = BodyOf[t]
          BY <1>0, <4>1, <4>3 DEF RowInv
        <4>5. \A k \in Key : keys'[k].tx # None => keys'[k].tx \in rows' /\ KeyOf[keys'[k].tx] = k
          BY <1>0, <4>1, <4>2, <4>3 DEF RowInv
        <4> QED
          BY <4>4, <4>5 DEF RowInv
      <3> QED
        BY <1>2, <3>1, <3>2 DEF Reserve
    <2>4. ReaderInv'
      BY <1>0, <1>2 DEF Reserve, Reply, Goto, Committed, FaultBudget, TypeOK, OwnerInv, RowInv, ReaderInv, Own, Owning, Step, KeyRow, Answer, None
    <2> QED
      BY <2>1, <2>2, <2>3, <2>4 DEF IdemInv
  <1>3. ASSUME NEW r \in Request, Inspect(r) PROVE IdemInv'
    <2>1. TypeOK'
      BY <1>0, <1>3 DEF Inspect, Reply, Goto, Committed, FaultBudget, TypeOK, Step, Answer, KeyRow, KeyStatus, GetIdempotencyKey
    <2>2. OwnerInv'
      BY <1>0, <1>3 DEF Inspect, Reply, Goto, Committed, FaultBudget, TypeOK, OwnerInv, RowInv, ReaderInv, Owning, Step, KeyRow, None, GetIdempotencyKey
    <2>3. RowInv'
      BY <1>0, <1>3 DEF Inspect, Reply, Goto, Committed, FaultBudget, TypeOK, OwnerInv, RowInv, Owning, KeyRow, None, GetIdempotencyKey
    <2>4. ReaderInv'
      BY <1>0, <1>3 DEF Inspect, Reply, Goto, Committed, FaultBudget, TypeOK, OwnerInv, RowInv, ReaderInv, Own, Owning, Step, KeyRow, Answer, None, GetIdempotencyKey
    <2> QED
      BY <2>1, <2>2, <2>3, <2>4 DEF IdemInv
  <1>4. ASSUME NEW r \in Request, Lookup(r) PROVE IdemInv'
    <2>1. TypeOK'
      <3>1. keys' \in [Key -> KeyRow]
        BY <1>0, <1>4 DEF Lookup, TypeOK, GetTransferIDByIdempotencyKey
      <3>2. pc' \in [Request -> Step] /\ answer' \in [Request -> Answer]
        BY <1>0, <1>4 DEF Lookup, Reply, Goto, Committed, TypeOK, Step, Answer, GetTransferIDByIdempotencyKey
      <3>3. rows' \in SUBSET Request /\ found' \in [Request -> Request \cup {None}]
        BY <1>0, <1>4 DEF Lookup, TypeOK, GetTransferIDByIdempotencyKey
      <3>4. faults' \in Nat
        <4>1. UNCHANGED faults \/ FaultBudget
          BY <1>4 DEF Lookup, Committed, GetTransferIDByIdempotencyKey
        <4> QED
          BY <1>0, <4>1 DEF FaultBudget, TypeOK
      <3> QED
        BY <3>1, <3>2, <3>3, <3>4 DEF TypeOK
    <2>2. OwnerInv'
      BY <1>0, <1>4 DEF Lookup, Reply, Goto, Committed, FaultBudget, TypeOK, OwnerInv, RowInv, ReaderInv, Owning, Step, KeyRow, None, GetTransferIDByIdempotencyKey
    <2>3. RowInv'
      BY <1>0, <1>4 DEF Lookup, Reply, Goto, Committed, FaultBudget, TypeOK, OwnerInv, RowInv, Owning, KeyRow, None, GetTransferIDByIdempotencyKey
    <2>4. ReaderInv'
      BY <1>0, <1>4 DEF Lookup, Reply, Goto, Committed, FaultBudget, TypeOK, OwnerInv, RowInv, ReaderInv, Own, Owning, Step, KeyRow, Answer, None, GetTransferIDByIdempotencyKey
    <2> QED
      BY <2>1, <2>2, <2>3, <2>4 DEF IdemInv
  <1>5. ASSUME NEW r \in Request, Replay(r) PROVE IdemInv'
    <2>1. TypeOK'
      BY <1>0, <1>5 DEF Replay, Reply, Goto, Committed, FaultBudget, TypeOK, Step, Answer, KeyRow, KeyStatus
    <2>2. OwnerInv'
      BY <1>0, <1>5 DEF Replay, Reply, Goto, Committed, FaultBudget, TypeOK, OwnerInv, RowInv, ReaderInv, Owning, Step, KeyRow, None
    <2>3. RowInv'
      BY <1>0, <1>5 DEF Replay, Reply, Goto, Committed, FaultBudget, TypeOK, OwnerInv, RowInv, Owning, KeyRow, None
    <2>4. ReaderInv'
      BY <1>0, <1>5 DEF Replay, Reply, Goto, Committed, FaultBudget, TypeOK, OwnerInv, RowInv, ReaderInv, Own, Owning, Step, KeyRow, Answer, None
    <2> QED
      BY <2>1, <2>2, <2>3, <2>4 DEF IdemInv
  <1>6. ASSUME NEW r \in Request, CreatePending(r) PROVE IdemInv'
    <2>1. TypeOK'
      BY <1>0, <1>6 DEF CreatePending, Reply, Goto, Committed, FaultBudget, TypeOK, Step, Answer, KeyRow, KeyStatus
    <2>2. OwnerInv'
      BY <1>0, <1>6 DEF CreatePending, Reply, Goto, Committed, FaultBudget, TypeOK, OwnerInv, RowInv, ReaderInv, Owning, Step, KeyRow, None
    <2>3. RowInv'
      BY <1>0, <1>6 DEF CreatePending, Reply, Goto, Committed, FaultBudget, TypeOK, OwnerInv, RowInv, Owning, KeyRow, None
    <2>4. ReaderInv'
      BY <1>0, <1>6 DEF CreatePending, Reply, Goto, Committed, FaultBudget, TypeOK, OwnerInv, RowInv, ReaderInv, Own, Owning, Step, KeyRow, Answer, None
    <2> QED
      BY <2>1, <2>2, <2>3, <2>4 DEF IdemInv
  <1>7. ASSUME NEW r \in Request, View(r) PROVE IdemInv'
    <2>1. TypeOK'
      BY <1>0, <1>7 DEF View, Reply, Goto, Committed, FaultBudget, TypeOK, Step, Answer, KeyRow, KeyStatus
    <2>2. OwnerInv'
      BY <1>0, <1>7 DEF View, Reply, Goto, Committed, FaultBudget, TypeOK, OwnerInv, RowInv, ReaderInv, Owning, Step, KeyRow, None
    <2>3. RowInv'
      BY <1>0, <1>7 DEF View, Reply, Goto, Committed, FaultBudget, TypeOK, OwnerInv, RowInv, Owning, KeyRow, None
    <2>4. ReaderInv'
      BY <1>0, <1>7 DEF View, Reply, Goto, Committed, FaultBudget, TypeOK, OwnerInv, RowInv, ReaderInv, Own, Owning, Step, KeyRow, Answer, None
    <2> QED
      BY <2>1, <2>2, <2>3, <2>4 DEF IdemInv
  <1>8. ASSUME NEW r \in Request, Complete(r) PROVE IdemInv'
    <2>1. TypeOK'
      <3>1. keys' \in [Key -> KeyRow]
        BY <1>0, <1>8, KeyWrites DEF Complete, TypeOK, KeyStatus, CompleteIdempotencyKey
      <3>2. pc' \in [Request -> Step] /\ answer' \in [Request -> Answer]
        BY <1>0, <1>8 DEF Complete, Reply, Goto, Committed, TypeOK, Step, Answer, CompleteIdempotencyKey
      <3>3. rows' \in SUBSET Request /\ found' \in [Request -> Request \cup {None}]
        BY <1>0, <1>8 DEF Complete, TypeOK, CompleteIdempotencyKey
      <3>4. faults' \in Nat
        <4>1. UNCHANGED faults \/ FaultBudget
          BY <1>8 DEF Complete, Committed, CompleteIdempotencyKey
        <4> QED
          BY <1>0, <4>1 DEF FaultBudget, TypeOK
      <3> QED
        BY <3>1, <3>2, <3>3, <3>4 DEF TypeOK
    <2>2. OwnerInv'
      BY <1>0, <1>8 DEF Complete, Reply, Goto, Committed, FaultBudget, TypeOK, OwnerInv, RowInv, ReaderInv, Owning, Step, KeyRow, None, CompleteIdempotencyKey
    <2>3. RowInv'
      BY <1>0, <1>8 DEF Complete, Reply, Goto, Committed, FaultBudget, TypeOK, OwnerInv, RowInv, Owning, KeyRow, None, CompleteIdempotencyKey
    <2>4. ReaderInv'
      BY <1>0, <1>8 DEF Complete, Reply, Goto, Committed, FaultBudget, TypeOK, OwnerInv, RowInv, ReaderInv, Own, Owning, Step, KeyRow, Answer, None, CompleteIdempotencyKey
    <2> QED
      BY <2>1, <2>2, <2>3, <2>4 DEF IdemInv
  <1>9. ASSUME NEW r \in Request, CompleteFailed(r) PROVE IdemInv'
    <2>1. TypeOK'
      <3>1. keys' \in [Key -> KeyRow]
        BY <1>0, <1>9, KeyWrites DEF CompleteFailed, TypeOK, KeyStatus, CompleteIdempotencyKey
      <3>2. pc' \in [Request -> Step] /\ answer' \in [Request -> Answer]
        BY <1>0, <1>9 DEF CompleteFailed, Reply, Goto, Committed, TypeOK, Step, Answer, CompleteIdempotencyKey
      <3>3. rows' \in SUBSET Request /\ found' \in [Request -> Request \cup {None}]
        BY <1>0, <1>9 DEF CompleteFailed, TypeOK, CompleteIdempotencyKey
      <3>4. faults' \in Nat
        <4>1. UNCHANGED faults \/ FaultBudget
          BY <1>9 DEF CompleteFailed, Committed, CompleteIdempotencyKey
        <4> QED
          BY <1>0, <4>1 DEF FaultBudget, TypeOK
      <3> QED
        BY <3>1, <3>2, <3>3, <3>4 DEF TypeOK
    <2>2. OwnerInv'
      BY <1>0, <1>9 DEF CompleteFailed, Reply, Goto, Committed, FaultBudget, TypeOK, OwnerInv, RowInv, ReaderInv, Owning, Step, KeyRow, None, CompleteIdempotencyKey
    <2>3. RowInv'
      BY <1>0, <1>9 DEF CompleteFailed, Reply, Goto, Committed, FaultBudget, TypeOK, OwnerInv, RowInv, Owning, KeyRow, None, CompleteIdempotencyKey
    <2>4. ReaderInv'
      BY <1>0, <1>9 DEF CompleteFailed, Reply, Goto, Committed, FaultBudget, TypeOK, OwnerInv, RowInv, ReaderInv, Own, Owning, Step, KeyRow, Answer, None, CompleteIdempotencyKey
    <2> QED
      BY <2>1, <2>2, <2>3, <2>4 DEF IdemInv
  <1>10. ASSUME NEW r \in Request, Fault(r) PROVE IdemInv'
    <2>1. TypeOK'
      <3>1. keys' \in [Key -> KeyRow]
        BY <1>0, <1>10 DEF Fault, TypeOK
      <3>2. pc' \in [Request -> Step] /\ answer' \in [Request -> Answer]
        BY <1>0, <1>10 DEF Fault, Reply, Goto, Committed, TypeOK, Step, Answer
      <3>3. rows' \in SUBSET Request /\ found' \in [Request -> Request \cup {None}]
        BY <1>0, <1>10 DEF Fault, TypeOK
      <3>4. faults' \in Nat
        <4>1. UNCHANGED faults \/ FaultBudget
          BY <1>10 DEF Fault, Committed
        <4> QED
          BY <1>0, <4>1 DEF FaultBudget, TypeOK
      <3> QED
        BY <3>1, <3>2, <3>3, <3>4 DEF TypeOK
    <2>2. OwnerInv'
      BY <1>0, <1>10 DEF Fault, Reply, Goto, Committed, FaultBudget, TypeOK, OwnerInv, RowInv, ReaderInv, Owning, Step, KeyRow, None
    <2>3. RowInv'
      BY <1>0, <1>10 DEF Fault, Reply, Goto, Committed, FaultBudget, TypeOK, OwnerInv, RowInv, Owning, KeyRow, None
    <2>4. ReaderInv'
      BY <1>0, <1>10 DEF Fault, Reply, Goto, Committed, FaultBudget, TypeOK, OwnerInv, RowInv, ReaderInv, Own, Owning, Step, KeyRow, Answer, None
    <2> QED
      BY <2>1, <2>2, <2>3, <2>4 DEF IdemInv
  <1>11. ASSUME NEW r \in Request, Crash(r) PROVE IdemInv'
    <2>1. TypeOK'
      BY <1>0, <1>11 DEF Crash, Reply, Goto, Committed, FaultBudget, TypeOK, Step, Answer, KeyRow, KeyStatus
    <2>2. OwnerInv'
      BY <1>0, <1>11 DEF Crash, Reply, Goto, Committed, FaultBudget, TypeOK, OwnerInv, RowInv, ReaderInv, Owning, Step, KeyRow, None
    <2>3. RowInv'
      BY <1>0, <1>11 DEF Crash, Reply, Goto, Committed, FaultBudget, TypeOK, OwnerInv, RowInv, Owning, KeyRow, None
    <2>4. ReaderInv'
      BY <1>0, <1>11 DEF Crash, Reply, Goto, Committed, FaultBudget, TypeOK, OwnerInv, RowInv, ReaderInv, Own, Owning, Step, KeyRow, Answer, None
    <2> QED
      BY <2>1, <2>2, <2>3, <2>4 DEF IdemInv
  <1>12. ASSUME NEW r \in Request, Retry(r) PROVE IdemInv'
    <2>1. TypeOK'
      BY <1>0, <1>12 DEF Retry, Reply, Goto, Committed, FaultBudget, TypeOK, Step, Answer, KeyRow, KeyStatus
    <2>2. OwnerInv'
      BY <1>0, <1>12 DEF Retry, Reply, Goto, Committed, FaultBudget, TypeOK, OwnerInv, RowInv, ReaderInv, Owning, Step, KeyRow, None
    <2>3. RowInv'
      BY <1>0, <1>12 DEF Retry, Reply, Goto, Committed, FaultBudget, TypeOK, OwnerInv, RowInv, Owning, KeyRow, None
    <2>4. ReaderInv'
      BY <1>0, <1>12 DEF Retry, Reply, Goto, Committed, FaultBudget, TypeOK, OwnerInv, RowInv, ReaderInv, Own, Owning, Step, KeyRow, Answer, None
    <2> QED
      BY <2>1, <2>2, <2>3, <2>4 DEF IdemInv
  <1>13. ASSUME NEW k \in Key, Expire(k) PROVE IdemInv'
    <2>1. TypeOK'
      <3>1. keys' = [keys EXCEPT ![k].live = FALSE] /\ UNCHANGED <<rows, pc, found, answer, faults>>
        BY <1>13 DEF Expire
      <3>2. [keys EXCEPT ![k].live = FALSE] \in [Key -> KeyRow]
        <4>1. keys \in [Key -> KeyRow] /\ "failed" \in KeyStatus /\ None \in Request \cup {None}
          BY <1>0 DEF TypeOK, KeyStatus
        <4> QED
          BY <4>1, KeyWrites
      <3> QED
        BY <1>0, <3>1, <3>2 DEF TypeOK
    <2>2. \A j \in Key : /\ keys'[j].status = keys[j].status /\ keys'[j].body = keys[j].body
                         /\ keys'[j].tx = keys[j].tx
      BY <1>0, <1>13 DEF Expire, TypeOK, KeyRow
    <2>3. OwnerInv' /\ RowInv' /\ ReaderInv'
      BY <1>0, <1>13, <2>2 DEF Expire, OwnerInv, RowInv, ReaderInv, Own
    <2> QED
      BY <2>1, <2>3 DEF IdemInv
  <1>14. CASE UNCHANGED vars
    BY <1>0, <1>14 DEF vars, IdemInv, TypeOK, OwnerInv, RowInv, ReaderInv, Own
  <1> QED
    BY <1>1, <1>2, <1>3, <1>4, <1>5, <1>6, <1>7, <1>8, <1>9, <1>10, <1>11, <1>12, <1>13, <1>14
    DEF Next, Serve

(* IdemInv is an invariant of Idempotency.                                 *)
THEOREM IdemCorrect == Spec => []IdemInv
  <1>1. Init => IdemInv
    <2> SUFFICES ASSUME Init PROVE IdemInv
      OBVIOUS
    <2>1. NoKey \in KeyRow /\ NoKey.tx = None
      BY DEF NoKey, KeyRow, KeyStatus
    <2>2. TypeOK
      BY <2>1 DEF Init, TypeOK, Step, Answer
    <2>3. OwnerInv /\ RowInv /\ ReaderInv
      BY <2>1 DEF Init, OwnerInv, RowInv, ReaderInv, Owning, None
    <2> QED
      BY <2>2, <2>3 DEF IdemInv
  <1> QED
    BY <1>1, IdemStep, PTL DEF Spec

(* A key is owned at most once, even if its lease runs out under a slow    *)
(* holder (idempotency.go Reserve).                                        *)
THEOREM KeySafety == Spec => []KeyHeldOnce
  <1>1. IdemInv => KeyHeldOnce
    BY DEF IdemInv, OwnerInv, KeyHeldOnce
  <1> QED
    BY <1>1, IdemCorrect, PTL

(* Whoever is told "accepted" is told about its own transfer, whether it   *)
(* created it, replayed it or took the key over (idempotent.go Create).    *)
THEOREM AcceptedOwn == Spec => []AcceptedIsOwn
  <1>1. IdemInv => AcceptedIsOwn
    BY DEF IdemInv, ReaderInv, Own, AcceptedIsOwn
  <1> QED
    BY <1>1, IdemCorrect, PTL

(* A key that succeeded never changes again (idempotency.go Complete).     *)
THEOREM SuccessFinal == Spec => SuccessIsFinal
  <1>1. IdemInv /\ [Next]_vars =>
          [\A k \in Key : keys[k].status = "succeeded" => keys'[k] = keys[k]]_vars
    <2> SUFFICES ASSUME IdemInv, [Next]_vars, NEW k \in Key, keys[k].status = "succeeded"
                 PROVE  keys'[k] = keys[k]
      OBVIOUS
    <2>0. TypeOK /\ OwnerInv
      BY DEF IdemInv
    <2>1. ASSUME NEW r \in Request, Reserve(r) PROVE keys'[k] = keys[k]
      BY <2>0, <2>1 DEF Reserve, TypeOK, None
    <2>2. ASSUME NEW r \in Request, Complete(r) \/ CompleteFailed(r) PROVE keys'[k] = keys[k]
      <3>1. KeyOf[r] # k
        BY <2>0, <2>2 DEF Complete, CompleteFailed, OwnerInv, Owning, CompleteIdempotencyKey
      <3> QED
        BY <2>0, <2>2, <3>1 DEF Complete, CompleteFailed, TypeOK, CompleteIdempotencyKey
    <2>3. ASSUME NEW j \in Key, Expire(j) PROVE keys'[k] = keys[k]
      BY <2>0, <2>3 DEF Expire, TypeOK
    <2>4. ASSUME NEW r \in Request,
                 \/ Reject(r) \/ Inspect(r) \/ Lookup(r) \/ Replay(r) \/ CreatePending(r)
                 \/ View(r) \/ Fault(r) \/ Crash(r) \/ Retry(r)
          PROVE  keys'[k] = keys[k]
      BY <2>4 DEF Reject, Inspect, Lookup, Replay, CreatePending, View, Fault, Crash, Retry, GetIdempotencyKey, GetTransferIDByIdempotencyKey
    <2>5. CASE UNCHANGED vars
      BY <2>5 DEF vars
    <2> QED
      BY <2>1, <2>2, <2>3, <2>4, <2>5 DEF Next, Serve
  <1> QED
    BY <1>1, IdemCorrect, PTL DEF Spec, SuccessIsFinal
=============================================================================

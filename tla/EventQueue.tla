----------------------------- MODULE EventQueue -----------------------------
(***************************************************************************)
(* What the outbox promises its users, without clock, lease, backoff or    *)
(* batch: an event stays deliverable until it is published or parked, it   *)
(* is parked only by a delivery that read MaxAttempts - 1 failures, and a  *)
(* delivery that is cut short leaves no trace.  Module Switch delivers its *)
(* events by these rules: it lets a live event be taken at any time.       *)
(***************************************************************************)
EXTENDS Naturals

CONSTANTS Event, Worker, MaxAttempts

VARIABLES
    state,      \* "absent", or the set of final marks the event bears
    attempts,   \* failed deliveries on record
    taken       \* deliveries under way: who, what, and the attempts it read

vars == <<state, attempts, taken>>

Delivery == [worker: Worker, event: Event, att: Nat]

Init ==
    /\ state = [e \in Event |-> "absent"]
    /\ attempts = [e \in Event |-> 0]
    /\ taken = {}

Append(e) ==
    /\ state[e] = "absent"
    /\ state' = [state EXCEPT ![e] = "live"]
    /\ UNCHANGED <<attempts, taken>>

(* A worker takes deliverable events, whoever else is busy with them.      *)
Take(w, S) ==
    /\ \A e \in S : state[e] = "live"
    /\ taken' = taken \cup {[worker |-> w, event |-> e, att |-> attempts[e]] : e \in S}
    /\ UNCHANGED <<state, attempts>>

(* A finished event never becomes deliverable again; a late worker may     *)
(* still change how it is marked.                                          *)
Ack(d) ==
    /\ state' = [state EXCEPT ![d.event] = IF @ = "parked" THEN "both" ELSE
                                           IF @ = "live" THEN "published" ELSE @]
    /\ taken' = taken \ {d}
    /\ UNCHANGED attempts

Retry(d) ==
    /\ d.att + 1 < MaxAttempts
    /\ attempts' = [attempts EXCEPT ![d.event] = @ + 1]
    /\ taken' = taken \ {d}
    /\ UNCHANGED state

Park(d) ==
    /\ d.att + 1 >= MaxAttempts
    /\ state' = [state EXCEPT ![d.event] = IF @ = "published" THEN "both" ELSE
                                           IF @ = "live" THEN "parked" ELSE @]
    /\ attempts' = [attempts EXCEPT ![d.event] = @ + 1]
    /\ taken' = taken \ {d}

(* A crash, a shutdown or a lost write: nothing is recorded.               *)
Drop(D) == taken' = taken \ D /\ UNCHANGED <<state, attempts>>

Next ==
    \/ \E e \in Event : Append(e)
    \/ \E w \in Worker, S \in SUBSET Event : Take(w, S)
    \/ \E d \in taken : Ack(d) \/ Retry(d) \/ Park(d)
    \/ \E D \in SUBSET taken : Drop(D)

Spec == Init /\ [][Next]_vars
=============================================================================

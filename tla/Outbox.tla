------------------------------- MODULE Outbox -------------------------------
(***************************************************************************)
(* The outbox table and its pollers on a clock (internal/switch/outbox):   *)
(* batches, leases, backoff, the dead-letter cap, and what a shutdown or a *)
(* crash of switchd leaves behind.                                         *)
(*                                                                         *)
(* next_attempt_at is kept as the time that is left until it: the table    *)
(* compares it with now() only.  A statement that is cut short has taken   *)
(* effect or not; the poller ignores its result either way, but for a log. *)
(***************************************************************************)
EXTENDS Integers, FiniteSets, FiniteSetsExt

CONSTANTS
    Event,        \* the events to come, ordered by their created_at
    Poller,       \* one in every switchd instance
    Batch,        \* Config.Batch: events claimed at once
    Lease,        \* Config.Lease: how long a claimed event is hidden
    MaxAttempts,  \* Config.MaxAttempts: failed deliveries before it is parked
    BaseBackoff,  \* Config.BaseBackoff: delay before the first retry
    MaxBackoff,   \* Config.MaxBackoff: cap on the delay
    MaxFaults     \* bound: crashes, shutdowns and failed statements

ASSUME OutboxAssumption ==
    /\ Event \subseteq Nat
    /\ IsFiniteSet(Event)
    /\ Batch \in Nat \ {0}
    /\ Lease \in Nat \ {0}
    /\ MaxAttempts \in Nat \ {0}
    /\ BaseBackoff \in Nat
    /\ MaxBackoff \in Nat \ {0}
    /\ MaxFaults \in Nat

VARIABLES
    row,        \* the table: marks, attempts and the wait until next_attempt_at
    poller,     \* what each poller is doing
    faults,     \* faults so far
    \* History, read by the properties only:
    failures,   \* failed deliveries by a poller that was not being stopped
    late,       \* events some worker held beyond its lease
    age         \* time since the first recorded failure; both counts stop at
                \* MaxAttempts and Endurance, age also when the event is finished or late

ghostVars == <<failures, late, age>>
vars == <<row, poller, faults, failures, late, age>>
-----------------------------------------------------------------------------
(* BaseBackoff doubled by every attempt after the first, until the cap.    *)
doubled[n \in Nat] ==
    IF n <= 1 THEN BaseBackoff
    ELSE IF doubled[n - 1] < MaxBackoff THEN 2 * doubled[n - 1] ELSE doubled[n - 1]

(* Mutants: the delay is not doubled; it is not capped.                    *)
BackoffFlat(n) == IF BaseBackoff > MaxBackoff THEN MaxBackoff ELSE BaseBackoff
BackoffUncapped(n) == doubled[n]

backoff(n) == IF doubled[n] > MaxBackoff THEN MaxBackoff ELSE doubled[n]

(* The time MaxAttempts failures of one event need at least, from the      *)
(* formula in the comment of backoff: BaseBackoff * 2^(n-1), capped.       *)
uncapped[n \in Nat] == IF n <= 1 THEN BaseBackoff ELSE 2 * uncapped[n - 1]

endured[n \in Nat] == IF n = 0 THEN 0 ELSE endured[n - 1] + Min({uncapped[n], MaxBackoff})

Endurance == endured[MaxAttempts - 1]

(* The table.  A row can be claimed while it bears no final mark and its   *)
(* next_attempt_at has come.                                               *)

Row == [present: BOOLEAN, published: BOOLEAN, dead: BOOLEAN, attempts: Nat,
        wait: 0 .. Max({Lease, MaxBackoff})]

NewRow == [present |-> TRUE, published |-> FALSE, dead |-> FALSE, attempts |-> 0, wait |-> 0]

Live(e) == row[e].present /\ ~row[e].published /\ ~row[e].dead
Due(e) == Live(e) /\ row[e].wait = 0

(* A poller: its context, the deliveries of its batch that are still open, *)
(* each with the attempts the claim found, and what is left of its lease.  *)
(* A claim returns its rows in no particular order.                        *)

Delivery == [event: Event, att: Nat]

PollerState == [ctx: {"live", "cancelled", "down"}, batch: SUBSET Delivery, lease: Nat]

Fresh == [ctx |-> "live", batch |-> {}, lease |-> 0]

Holds(p, e) == \E d \in poller[p].batch : d.event = e

FaultBudget == faults < MaxFaults /\ faults' = faults + 1
NoFault == UNCHANGED faults
-----------------------------------------------------------------------------
(* outbox.Append, in the transaction of the state change it belongs to.    *)
(* created_at is the start of that transaction: a row may appear after a   *)
(* younger one.                                                            *)
Append(e) ==
    /\ ~row[e].present
    /\ row' = [row EXCEPT ![e] = NewRow]
    /\ UNCHANGED <<poller, faults, ghostVars>>

(* ClaimOutboxBatch: of the rows that are due, the oldest Batch, without   *)
(* those another poller's statement has locked at this moment.             *)
MayBeLocked(p) == {e \in Event : \E q \in Poller \ {p} : Holds(q, e)}

Oldest(S) == {e \in S : Cardinality({f \in S : f < e}) < Batch}

(* Mutant: the lease is not written; the row stays due.                    *)
LeaseForgotten(S) == row

Leased(S) == [e \in Event |-> IF e \in S THEN [row[e] EXCEPT !.wait = Lease] ELSE row[e]]

Claim(p) ==
    /\ poller[p].ctx = "live" /\ poller[p].batch = {}
    /\ \E skip \in SUBSET MayBeLocked(p) :
         LET S == Oldest({e \in Event \ skip : Due(e)})
         IN  /\ S # {}
             /\ row' = Leased(S)
             /\ poller' = [poller EXCEPT ![p] =
                             [@ EXCEPT !.lease = Lease,
                                       !.batch = {[event |-> e, att |-> row[e].attempts] : e \in S}]]
    /\ UNCHANGED <<faults, ghostVars>>

(* Handler.Handle (module Switch says what it does) ends a delivery of the *)
(* batch with or without an error; the poller then writes to the event's   *)
(* row and turns to the next delivery or, after the last, to the next      *)
(* tick.                                                                   *)
Done(p, d) ==
    LET rest == poller[p].batch \ {d}
    IN  poller' = [poller EXCEPT ![p] =
                     [@ EXCEPT !.batch = rest, !.lease = IF rest = {} THEN 0 ELSE poller[p].lease]]

(* The statement takes effect, or fails, which is only logged.             *)
Writes(write) ==
    \/ row' = write /\ NoFault
    \/ row' = row /\ FaultBudget

MarkOutboxPublished(e) == [row EXCEPT ![e].published = TRUE]
RescheduleOutbox(e, delay) == [row EXCEPT ![e].attempts = @ + 1, ![e].wait = delay]
DeadLetterOutbox(e) == [row EXCEPT ![e].attempts = @ + 1, ![e].dead = TRUE]

Succeed(p, d) ==
    /\ poller[p].ctx = "live"
    /\ Writes(MarkOutboxPublished(d.event))
    /\ Done(p, d)
    /\ UNCHANGED ghostVars

(* Mutant: a poison event is retried for ever.                             *)
NoCap(d) == [row EXCEPT ![d.event].wait = backoff(d.att + 1)]

(* Mutant: rescheduling makes a parked or published event live again.      *)
Revives(d) ==
    IF d.att + 1 >= MaxAttempts
      THEN DeadLetterOutbox(d.event)
      ELSE [RescheduleOutbox(d.event, backoff(d.att + 1)) EXCEPT ![d.event].published = FALSE]

(* fail: the cap is compared with the attempts the claim has read, the     *)
(* counter in the table is incremented.                                    *)
AfterFailure(d) ==
    IF d.att + 1 >= MaxAttempts THEN DeadLetterOutbox(d.event)
                                ELSE RescheduleOutbox(d.event, backoff(d.att + 1))

Fail(p, d) ==
    /\ poller[p].ctx = "live"
    /\ Writes(AfterFailure(d))
    /\ Done(p, d)
    /\ failures' = [failures EXCEPT ![d.event] = IF @ < MaxAttempts THEN @ + 1 ELSE @]
    /\ UNCHANGED <<late, age>>

(* Mutant: the failure is recorded under a context of its own.             *)
AbandonRecorded(p, d) ==
    /\ poller[p].ctx = "cancelled"
    /\ row' = AfterFailure(d)
    /\ Done(p, d)
    /\ UNCHANGED <<faults, ghostVars>>

(* The context is cancelled: the handler's calls fail with it, and so does *)
(* the statement that would record the failure.                            *)
Abandon(p, d) ==
    /\ poller[p].ctx = "cancelled"
    /\ Done(p, d)
    /\ UNCHANGED <<row, faults, ghostVars>>

(* Cleanup cancels the poller's context without waiting for the poller.    *)
StopPoller(p) ==
    /\ poller[p].ctx = "live"
    /\ poller' = [poller EXCEPT ![p].ctx = "cancelled"]
    /\ FaultBudget
    /\ UNCHANGED <<row, ghostVars>>

(* The process ends: after a shutdown, wherever the poller is, or by a     *)
(* crash.                                                                  *)
Exit(p) ==
    /\ poller[p].ctx # "down"
    /\ poller' = [poller EXCEPT ![p] = [Fresh EXCEPT !.ctx = "down"]]
    /\ IF poller[p].ctx = "cancelled" THEN NoFault ELSE FaultBudget
    /\ UNCHANGED <<row, ghostVars>>

Start(p) ==
    /\ poller[p].ctx = "down"
    /\ poller' = [poller EXCEPT ![p] = Fresh]
    /\ UNCHANGED <<row, faults, ghostVars>>

(* Time passes.  Nothing reads the wait of a finished event.               *)
Less(n) == IF n = 0 THEN 0 ELSE n - 1
Ageing(e) == e \notin late /\ Live(e) /\ row[e].attempts > 0 /\ age[e] < Endurance

Tick ==
    /\ \/ \E e \in Event : Live(e) /\ row[e].wait > 0
       \/ \E p \in Poller : poller[p].lease > 0
       \/ \E e \in Event : Ageing(e)
    /\ row' = [e \in Event |-> IF Live(e) THEN [row[e] EXCEPT !.wait = Less(@)] ELSE row[e]]
    /\ poller' = [p \in Poller |-> [poller[p] EXCEPT !.lease = Less(@)]]
    /\ late' = late \cup {e \in Event : \E p \in Poller : Holds(p, e) /\ poller[p].lease <= 1}
    /\ age' = [e \in Event |-> IF e \in late' THEN 0 ELSE IF Ageing(e) THEN age[e] + 1 ELSE age[e]]
    /\ UNCHANGED <<faults, failures>>
-----------------------------------------------------------------------------
Init ==
    /\ row = [e \in Event |-> [NewRow EXCEPT !.present = FALSE]]
    /\ poller = [p \in Poller |-> Fresh]
    /\ faults = 0
    /\ failures = [e \in Event |-> 0]
    /\ late = {}
    /\ age = [e \in Event |-> 0]

PollerNext(p) ==
    \/ Claim(p) \/ StopPoller(p) \/ Exit(p) \/ Start(p)
    \/ \E d \in poller[p].batch : Succeed(p, d) \/ Fail(p, d) \/ Abandon(p, d)

Next == Tick \/ (\E e \in Event : Append(e)) \/ (\E p \in Poller : PollerNext(p))

Spec == Init /\ [][Next]_vars

(* Time passes; the poller's ticker fires; every handler returns; a        *)
(* process that is told to stop ends and is started again.                 *)
Fairness ==
    /\ WF_vars(Tick)
    /\ \A p \in Poller :
         /\ WF_vars(Claim(p))
         /\ WF_vars(\E d \in poller[p].batch : Succeed(p, d) \/ Fail(p, d) \/ Abandon(p, d))
         /\ WF_vars(Start(p) \/ (poller[p].ctx = "cancelled" /\ Exit(p)))

FairSpec == Spec /\ Fairness
-----------------------------------------------------------------------------
(* The table, the pollers and the history have their types; no event is    *)
(* ever hidden for longer than the lease or the cap on the backoff.        *)
TypeOK ==
    /\ row \in [Event -> Row]
    /\ poller \in [Poller -> PollerState]
    /\ faults \in 0 .. MaxFaults
    /\ failures \in [Event -> Nat]
    /\ late \subseteq Event
    /\ age \in [Event -> 0 .. Endurance]

(* An event is in the hands of one poller, unless some poller ever held it *)
(* beyond its lease; crashes, shutdowns and failed writes of others never  *)
(* make it shared (poller.go: Lease hides a claimed event).                *)
OneHolder ==
    \A e \in Event \ late, p, q \in Poller : Holds(p, e) /\ Holds(q, e) => p = q

(* An event is parked only after its handler failed MaxAttempts times in a *)
(* process that was not being stopped: no crash, shutdown or lost write    *)
(* costs an attempt, and a stale count never parks early (poller.go: fail  *)
(* compares the cap with the attempts read by the claim).                  *)
ParkedForCause == \A e \in Event : row[e].dead => failures[e] >= MaxAttempts

(* An outage shorter than the sum of the backoffs parks no event, as long  *)
(* as workers keep their leases (poller.go: backoff).                      *)
OutageSurvived ==
    \A e \in Event \ late : row[e].dead => age[e] >= Endurance

(* A poison event steps aside and no event waits behind it for ever: every *)
(* event is published or parked in the end (comment of Poller).            *)
EverySettles == []<>(\A e \in Event : ~Live(e))

(* The outbox delivers by the rules module Switch assumes.                 *)
Mark(r) ==
    IF ~r.present THEN "absent"
    ELSE IF r.published THEN IF r.dead THEN "both" ELSE "published"
                        ELSE IF r.dead THEN "parked" ELSE "live"

Queue == INSTANCE EventQueue WITH
    Worker <- Poller,
    state <- [e \in Event |-> Mark(row[e])],
    attempts <- [e \in Event |-> row[e].attempts],
    taken <- UNION {{[worker |-> p, event |-> d.event, att |-> d.att] : d \in poller[p].batch}
                    : p \in Poller}

DeliversLikeQueue == Queue!Spec
=============================================================================

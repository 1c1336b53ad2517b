---------------------------- MODULE OutboxProofs ----------------------------
(***************************************************************************)
(* Proofs about module Outbox, for any events, pollers, batch, lease, cap  *)
(* and backoff: the counts behind a parked event, the lease, the time an   *)
(* outage may last, and the refinement of EventQueue.                      *)
(***************************************************************************)
EXTENDS Outbox, WellFoundedInduction, TLAPS

(* A delivery is of a row that exists and has read no more attempts than   *)
(* the row has now; a batch holds an event once.                           *)
BatchInv ==
    \A p \in Poller : \A d \in poller[p].batch :
      /\ row[d.event].present
      /\ d.att <= row[d.event].attempts
      /\ \A c \in poller[p].batch : c.event = d.event => c = d

(* Every attempt on record is a failure that happened, up to the cap.      *)
FailureInv ==
    \A e \in Event :
      /\ failures[e] <= MaxAttempts
      /\ row[e].attempts <= failures[e] \/ failures[e] = MaxAttempts
      /\ row[e].dead => failures[e] = MaxAttempts

(* While no worker overstays, the row of a delivery is hidden for as long  *)
(* as the lease runs, no other poller has it, and the count is current.    *)
LeaseInv ==
    \A p \in Poller : \A d \in poller[p].batch :
      d.event \notin late =>
        /\ Live(d.event)
        /\ d.att = row[d.event].attempts
        /\ poller[p].lease > 0
        /\ poller[p].lease <= row[d.event].wait
        /\ \A q \in Poller : Holds(q, d.event) => q = p

Held(e) == \E p \in Poller : Holds(p, e)

(* An event that can be claimed has lived through the backoffs of its      *)
(* attempts; one that waits will have done so when its wait is over.       *)
AgeInv ==
    \A e \in Event \ late :
      /\ row[e].dead => age[e] >= Endurance
      /\ Live(e) =>
           /\ row[e].attempts < MaxAttempts
           /\ \/ age[e] >= Endurance
              \/ age[e] >= endured[row[e].attempts]
              \/ ~Held(e) /\ age[e] + row[e].wait >= endured[row[e].attempts]
-----------------------------------------------------------------------------
(* A set that holds 0 and the successor of each of its numbers holds every *)
(* number: the induction used for the recursive functions of the backoff.  *)
LEMMA SetInduction ==
  ASSUME NEW T, 0 \in T, \A n \in Nat : n \in T => n + 1 \in T
  PROVE  \A n \in Nat : n \in T
<1>. DEFINE R == {ss \in Nat \X Nat : ss[1] < ss[2]}
            B == Nat \ T
<1>1. IsWellFoundedOn(R, Nat)
  BY NatLessThanWellFounded DEF OpToRel
<1>2. \A a, b \in Nat : a < b => <<a, b>> \in R
  OBVIOUS
<1>3. SUFFICES ASSUME B # {} PROVE FALSE
  OBVIOUS
<1>4. B \subseteq Nat
  OBVIOUS
<1>. HIDE DEF R
<1>5. PICK x \in B : \A y \in B : ~(<<y, x>> \in R)
  <2>. HIDE DEF B
  <2>. QED BY <1>1, <1>3, <1>4, WFMin
<1>6. x \in Nat /\ x # 0
  OBVIOUS
<1>7. x - 1 \in Nat /\ x - 1 < x /\ (x - 1) + 1 = x
  BY <1>6
<1>8. x - 1 \notin B
  BY <1>5, <1>7, <1>2, <1>6
<1>. QED BY <1>5, <1>7, <1>8

(* Iterating a step from a start gives a function on the numbers: what the *)
(* loop of backoff, written as a recursive function, computes exists.      *)
Runs(S, start, G, m) ==
    {f \in [0 .. m -> S] : f[0] = start /\ \A n \in 0 .. m - 1 : f[n + 1] = G[n][f[n]]}

(* Two iterations of the same step agree as far as both go.                *)
LEMMA RunsAgree ==
  ASSUME NEW S, NEW start \in S, NEW G \in [Nat -> [S -> S]]
  PROVE  \A n, m, k \in Nat : \A f \in Runs(S, start, G, m), g \in Runs(S, start, G, k) :
           n <= m /\ n <= k => f[n] = g[n]
<1>. DEFINE T == {n \in Nat : \A m, k \in Nat :
                    \A f \in Runs(S, start, G, m), g \in Runs(S, start, G, k) :
                      n <= m /\ n <= k => f[n] = g[n]}
<1>1. 0 \in T
  BY DEF Runs
<1>2. ASSUME NEW n \in Nat, n \in T PROVE n + 1 \in T
  <2>. SUFFICES ASSUME NEW m \in Nat, NEW k \in Nat,
                       NEW f \in Runs(S, start, G, m), NEW g \in Runs(S, start, G, k),
                       n + 1 <= m, n + 1 <= k
                PROVE  f[n + 1] = g[n + 1]
    OBVIOUS
  <2>1. f[n] = g[n]
    BY <1>2
  <2>2. f[n + 1] = G[n][f[n]] /\ g[n + 1] = G[n][g[n]]
    BY DEF Runs
  <2>. QED BY <2>1, <2>2
<1>. HIDE DEF T
<1>3. \A n \in Nat : n \in T
  BY <1>1, <1>2, SetInduction
<1>. QED BY <1>3 DEF T

(* A step can be iterated any number of times.                             *)
LEMMA RunsExist ==
  ASSUME NEW S, NEW start \in S, NEW G \in [Nat -> [S -> S]]
  PROVE  \A m \in Nat : Runs(S, start, G, m) # {}
<1>. DEFINE T == {m \in Nat : Runs(S, start, G, m) # {}}
<1>1. 0 \in T
  <2>. DEFINE f == [n \in 0 .. 0 |-> start]
  <2>1. f \in Runs(S, start, G, 0)
    BY DEF Runs
  <2>. QED BY <2>1
<1>2. ASSUME NEW m \in Nat, m \in T PROVE m + 1 \in T
  <2>1. PICK f : f \in Runs(S, start, G, m)
    BY <1>2
  <2>. DEFINE g == [n \in 0 .. m + 1 |-> IF n <= m THEN f[n] ELSE G[m][f[m]]]
  <2>2. f \in [0 .. m -> S] /\ f[0] = start
    BY <2>1 DEF Runs
  <2>3. G[m][f[m]] \in S
    BY <2>2
  <2>4. g \in [0 .. m + 1 -> S] /\ g[0] = start
    BY <2>2, <2>3
  <2>5. \A n \in 0 .. m - 1 : g[n + 1] = G[n][g[n]]
    BY <2>1 DEF Runs
  <2>6. g[m + 1] = G[m][g[m]]
    OBVIOUS
  <2>7. \A n \in 0 .. (m + 1) - 1 : n \in 0 .. m - 1 \/ n = m
    OBVIOUS
  <2>. HIDE DEF g
  <2>8. g \in Runs(S, start, G, m + 1)
    BY <2>4, <2>5, <2>6, <2>7 DEF Runs
  <2>. QED BY <2>8
<1>. HIDE DEF T
<1>3. \A m \in Nat : m \in T
  BY <1>1, <1>2, SetInduction
<1>. QED BY <1>3 DEF T

StepOn(S) == [Nat -> [S -> S]]

Iterates(f, S, start, G) ==
    f \in [Nat -> S] /\ f[0] = start /\ \A n \in Nat : f[n + 1] = G[n][f[n]]

(* ... and so on every number: there is a function that iterates the step. *)
LEMMA Iterated ==
  ASSUME NEW S, NEW start \in S, NEW G \in StepOn(S)
  PROVE  \E f : Iterates(f, S, start, G)
<1>0. G \in [Nat -> [S -> S]]
  BY DEF StepOn
<1>. DEFINE F(m) == CHOOSE f : f \in Runs(S, start, G, m)
            h == [n \in Nat |-> F(n)[n]]
<1>1. \A m \in Nat : F(m) \in Runs(S, start, G, m)
  BY <1>0, RunsExist
<1>. HIDE DEF F
<1>2. \A m \in Nat : F(m) \in [0 .. m -> S] /\ F(m)[0] = start
  BY <1>1 DEF Runs
<1>3. h \in [Nat -> S] /\ h[0] = start
  BY <1>2
<1>5. \A n, m, k \in Nat : \A f \in Runs(S, start, G, m), g \in Runs(S, start, G, k) :
         n <= m /\ n <= k => f[n] = g[n]
  BY <1>0, RunsAgree
<1>4. \A n \in Nat : h[n + 1] = G[n][h[n]]
  <2>. TAKE n \in Nat
  <2>1. F(n + 1)[n + 1] = G[n][F(n + 1)[n]]
    BY <1>1 DEF Runs
  <2>2. F(n + 1)[n] = F(n)[n]
    <3>1. n + 1 \in Nat /\ n <= n + 1 /\ n <= n
      OBVIOUS
    <3>2. F(n + 1) \in Runs(S, start, G, n + 1) /\ F(n) \in Runs(S, start, G, n)
      BY <1>1, <3>1
    <3>3. \A f \in Runs(S, start, G, n + 1), g \in Runs(S, start, G, n) : f[n] = g[n]
      BY <1>5, <3>1
    <3>. QED BY <3>2, <3>3
  <2>. QED BY <2>1, <2>2
<1>. HIDE DEF h
<1>. QED BY <1>3, <1>4 DEF Iterates

(* The delays doubled by the loop are numbers, and follow its step.        *)
LEMMA DoubledStep ==
  /\ doubled \in [Nat -> Nat]
  /\ doubled[0] = BaseBackoff /\ doubled[1] = BaseBackoff
  /\ \A n \in Nat \ {0} :
       doubled[n + 1] = IF doubled[n] < MaxBackoff THEN 2 * doubled[n] ELSE doubled[n]
<1>. DEFINE Rec(f) == [n \in Nat |-> IF n <= 1 THEN BaseBackoff
                        ELSE IF f[n - 1] < MaxBackoff THEN 2 * f[n - 1] ELSE f[n - 1]]
            G == [n \in Nat |-> [v \in Nat |-> IF n = 0 THEN BaseBackoff
                        ELSE IF v < MaxBackoff THEN 2 * v ELSE v]]
<1>1. BaseBackoff \in Nat /\ G \in [Nat -> [Nat -> Nat]]
  BY OutboxAssumption
<1>2. PICK f : Iterates(f, Nat, BaseBackoff, G)
  <2>1. BaseBackoff \in Nat /\ G \in StepOn(Nat)
    BY <1>1 DEF StepOn
  <2>. HIDE DEF G
  <2>. QED BY <2>1, Iterated, Zenon
<1>3. f = Rec(f)
  <2>1. \A n \in Nat : f[n] = Rec(f)[n]
    <3>. TAKE n \in Nat
    <3>1. CASE n = 0
      BY <1>2, <3>1 DEF Iterates
    <3>2. CASE n # 0
      <4>1. n - 1 \in Nat /\ (n - 1) + 1 = n
        BY <3>2
      <4>2. f[n] = G[n - 1][f[n - 1]]
        <5>. HIDE DEF G
        <5>. QED BY <1>2, <4>1 DEF Iterates
      <4>. QED BY <4>1, <4>2, <1>2 DEF Iterates
    <3>. QED BY <3>1, <3>2
  <2>2. f = [n \in Nat |-> f[n]] /\ Rec(f) = [n \in Nat |-> Rec(f)[n]]
    BY <1>2 DEF Iterates
  <2>. HIDE DEF Rec
  <2>. QED BY <2>1, <2>2
<1>4. doubled = CHOOSE d : d = Rec(d)
  BY DEF doubled
<1>5. doubled = Rec(doubled)
  <2>. HIDE DEF Rec
  <2>. QED BY <1>3, <1>4, Zenon
<1>6. \A n \in Nat : doubled[n] = Rec(doubled)[n]
  <2>. HIDE DEF Rec
  <2>. QED BY <1>5
<1>7. doubled = [n \in Nat |-> doubled[n]]
  <2>1. Rec(doubled) = [n \in Nat |-> Rec(doubled)[n]]
    OBVIOUS
  <2>. HIDE DEF Rec
  <2>. QED BY <1>5, <2>1
<1>8. /\ doubled[0] = BaseBackoff /\ doubled[1] = BaseBackoff
      /\ \A n \in Nat \ {0} :
           doubled[n + 1] = IF doubled[n] < MaxBackoff THEN 2 * doubled[n] ELSE doubled[n]
  BY <1>6
<1>9. \A n \in Nat : doubled[n] \in Nat
  <2>. DEFINE T == {n \in Nat : doubled[n] \in Nat}
  <2>1. 0 \in T
    BY <1>8, OutboxAssumption
  <2>2. ASSUME NEW n \in Nat, n \in T PROVE n + 1 \in T
    BY <1>8, <2>2, OutboxAssumption
  <2>. HIDE DEF T
  <2>3. \A n \in Nat : n \in T
    BY <2>1, <2>2, SetInduction
  <2>. QED BY <2>3 DEF T
<1>. QED BY <1>7, <1>8, <1>9

(* The formula in the comment of backoff, as an equation.                  *)
LEMMA UncappedStep ==
  /\ uncapped \in [Nat -> Nat]
  /\ uncapped[0] = BaseBackoff /\ uncapped[1] = BaseBackoff
  /\ \A n \in Nat \ {0} : uncapped[n + 1] = 2 * uncapped[n]
<1>. DEFINE Rec(f) == [n \in Nat |-> IF n <= 1 THEN BaseBackoff ELSE 2 * f[n - 1]]
            G == [n \in Nat |-> [v \in Nat |-> IF n = 0 THEN BaseBackoff ELSE 2 * v]]
<1>1. BaseBackoff \in Nat /\ G \in [Nat -> [Nat -> Nat]]
  BY OutboxAssumption
<1>2. PICK f : Iterates(f, Nat, BaseBackoff, G)
  <2>1. BaseBackoff \in Nat /\ G \in StepOn(Nat)
    BY <1>1 DEF StepOn
  <2>. HIDE DEF G
  <2>. QED BY <2>1, Iterated, Zenon
<1>3. f = Rec(f)
  <2>1. \A n \in Nat : f[n] = Rec(f)[n]
    <3>. TAKE n \in Nat
    <3>1. CASE n = 0
      BY <1>2, <3>1 DEF Iterates
    <3>2. CASE n # 0
      <4>1. n - 1 \in Nat /\ (n - 1) + 1 = n
        BY <3>2
      <4>2. f[n] = G[n - 1][f[n - 1]]
        <5>. HIDE DEF G
        <5>. QED BY <1>2, <4>1 DEF Iterates
      <4>. QED BY <4>1, <4>2, <1>2, OutboxAssumption DEF Iterates
    <3>. QED BY <3>1, <3>2
  <2>2. f = [n \in Nat |-> f[n]] /\ Rec(f) = [n \in Nat |-> Rec(f)[n]]
    BY <1>2 DEF Iterates
  <2>. HIDE DEF Rec
  <2>. QED BY <2>1, <2>2
<1>4. uncapped = CHOOSE d : d = Rec(d)
  BY DEF uncapped
<1>5. uncapped = Rec(uncapped)
  <2>. HIDE DEF Rec
  <2>. QED BY <1>3, <1>4, Zenon
<1>6. \A n \in Nat : uncapped[n] = Rec(uncapped)[n]
  <2>. HIDE DEF Rec
  <2>. QED BY <1>5
<1>7. uncapped = [n \in Nat |-> uncapped[n]]
  <2>1. Rec(uncapped) = [n \in Nat |-> Rec(uncapped)[n]]
    OBVIOUS
  <2>. HIDE DEF Rec
  <2>. QED BY <1>5, <2>1
<1>8. /\ uncapped[0] = BaseBackoff /\ uncapped[1] = BaseBackoff
      /\ \A n \in Nat \ {0} : uncapped[n + 1] = 2 * uncapped[n]
  BY <1>6
<1>9. \A n \in Nat : uncapped[n] \in Nat
  <2>. DEFINE T == {n \in Nat : uncapped[n] \in Nat}
  <2>1. 0 \in T
    BY <1>8, OutboxAssumption
  <2>2. ASSUME NEW n \in Nat, n \in T PROVE n + 1 \in T
    BY <1>8, <2>2, OutboxAssumption
  <2>. HIDE DEF T
  <2>3. \A n \in Nat : n \in T
    BY <2>1, <2>2, SetInduction
  <2>. QED BY <2>3 DEF T
<1>. QED BY <1>7, <1>8, <1>9

(* The smaller and the larger of two numbers.                              *)
LEMMA MinMax ==
  ASSUME NEW a \in Nat, NEW b \in Nat
  PROVE  /\ Min({a, b}) = IF a <= b THEN a ELSE b
         /\ Max({a, b}) = IF a <= b THEN b ELSE a
<1>1. \E x \in {a, b} : \A y \in {a, b} : x =< y
  OBVIOUS
<1>2. \E x \in {a, b} : \A y \in {a, b} : x >= y
  OBVIOUS
<1>. QED BY <1>1, <1>2 DEF Min, Max

(* What the loop of backoff computes is the formula in its comment: the    *)
(* doubling may stop at the cap, but the capped delay is the same.         *)
LEMMA BackoffIsFormula ==
  \A n \in Nat \ {0} : /\ backoff(n) = Min({uncapped[n], MaxBackoff})
                       /\ backoff(n) \in 0 .. MaxBackoff
<1>. DEFINE Capped(n) == doubled[n] >= MaxBackoff /\ uncapped[n] >= MaxBackoff
            T == {n \in Nat : doubled[n + 1] = uncapped[n + 1] \/ Capped(n + 1)}
<1>1. 0 \in T
  BY DoubledStep, UncappedStep
<1>2. ASSUME NEW n \in Nat, n \in T PROVE n + 1 \in T
  <2>1. n + 1 \in Nat \ {0}
    OBVIOUS
  <2>2. doubled[n + 1] \in Nat /\ uncapped[n + 1] \in Nat
    BY DoubledStep, UncappedStep, <2>1
  <2>3. /\ doubled[(n + 1) + 1] = IF doubled[n + 1] < MaxBackoff THEN 2 * doubled[n + 1]
                                                                 ELSE doubled[n + 1]
        /\ uncapped[(n + 1) + 1] = 2 * uncapped[n + 1]
    BY DoubledStep, UncappedStep, <2>1
  <2>. QED BY <1>2, <2>2, <2>3, OutboxAssumption
<1>. HIDE DEF T
<1>3. \A n \in Nat : n \in T
  BY <1>1, <1>2, SetInduction
<1>. SUFFICES ASSUME NEW n \in Nat \ {0}
              PROVE  backoff(n) = Min({uncapped[n], MaxBackoff}) /\ backoff(n) \in 0 .. MaxBackoff
  OBVIOUS
<1>4. n - 1 \in Nat /\ (n - 1) + 1 = n
  OBVIOUS
<1>5. \/ doubled[n] = uncapped[n]
      \/ doubled[n] >= MaxBackoff /\ uncapped[n] >= MaxBackoff
  <2>1. n - 1 \in T
    BY <1>3, <1>4
  <2>. QED BY <2>1, <1>4 DEF T
<1>6. doubled[n] \in Nat /\ uncapped[n] \in Nat /\ MaxBackoff \in Nat
  BY DoubledStep, UncappedStep, OutboxAssumption
<1>7. Min({uncapped[n], MaxBackoff}) = IF uncapped[n] <= MaxBackoff THEN uncapped[n] ELSE MaxBackoff
  BY <1>6, MinMax
<1>. QED BY <1>5, <1>6, <1>7 DEF backoff


(* The time an event lives through is the sum of its backoffs.             *)
LEMMA EnduredStep ==
  /\ endured \in [Nat -> Nat]
  /\ endured[0] = 0
  /\ \A n \in Nat : endured[n + 1] = endured[n] + backoff(n + 1)
<1>. DEFINE Rec(f) == [n \in Nat |-> IF n = 0 THEN 0 ELSE f[n - 1] + Min({uncapped[n], MaxBackoff})]
            G == [n \in Nat |-> [v \in Nat |-> v + Min({uncapped[n + 1], MaxBackoff})]]
<1>0. \A n \in Nat : /\ Min({uncapped[n + 1], MaxBackoff}) = backoff(n + 1)
                     /\ backoff(n + 1) \in Nat
  <2>. TAKE n \in Nat
  <2>1. n + 1 \in Nat \ {0}
    OBVIOUS
  <2>2. backoff(n + 1) = Min({uncapped[n + 1], MaxBackoff}) /\ backoff(n + 1) \in 0 .. MaxBackoff
    BY <2>1, BackoffIsFormula
  <2>. QED BY <2>2, OutboxAssumption
<1>1. 0 \in Nat /\ G \in [Nat -> [Nat -> Nat]]
  BY <1>0
<1>2. PICK f : Iterates(f, Nat, 0, G)
  <2>1. 0 \in Nat /\ G \in StepOn(Nat)
    BY <1>1 DEF StepOn
  <2>. HIDE DEF G
  <2>. QED BY <2>1, Iterated, Zenon
<1>3. f = Rec(f)
  <2>1. \A n \in Nat : f[n] = Rec(f)[n]
    <3>. TAKE n \in Nat
    <3>1. CASE n = 0
      BY <1>2, <3>1 DEF Iterates
    <3>2. CASE n # 0
      <4>1. n - 1 \in Nat /\ (n - 1) + 1 = n
        BY <3>2
      <4>2. f[n] = G[n - 1][f[n - 1]]
        <5>. HIDE DEF G
        <5>. QED BY <1>2, <4>1 DEF Iterates
      <4>. QED BY <4>1, <4>2, <1>2, <1>0 DEF Iterates
    <3>. QED BY <3>1, <3>2
  <2>2. f = [n \in Nat |-> f[n]] /\ Rec(f) = [n \in Nat |-> Rec(f)[n]]
    BY <1>2 DEF Iterates
  <2>. HIDE DEF Rec
  <2>. QED BY <2>1, <2>2
<1>4. endured = CHOOSE d : d = Rec(d)
  BY DEF endured
<1>5. endured = Rec(endured)
  <2>. HIDE DEF Rec
  <2>. QED BY <1>3, <1>4, Zenon
<1>6. \A n \in Nat : endured[n] = Rec(endured)[n]
  <2>. HIDE DEF Rec
  <2>. QED BY <1>5
<1>7. endured = [n \in Nat |-> endured[n]]
  <2>1. Rec(endured) = [n \in Nat |-> Rec(endured)[n]]
    OBVIOUS
  <2>. HIDE DEF Rec
  <2>. QED BY <1>5, <2>1
<1>8. /\ endured[0] = 0
      /\ \A n \in Nat : endured[n + 1] = endured[n] + backoff(n + 1)
  <2>1. endured[0] = 0
    BY <1>6
  <2>2. ASSUME NEW n \in Nat PROVE endured[n + 1] = endured[n] + backoff(n + 1)
    <3>1. n + 1 \in Nat /\ n + 1 # 0 /\ (n + 1) - 1 = n
      OBVIOUS
    <3>2. endured[n + 1] = endured[(n + 1) - 1] + Min({uncapped[n + 1], MaxBackoff})
      BY <1>6, <3>1
    <3>3. Min({uncapped[n + 1], MaxBackoff}) = backoff(n + 1)
      BY <1>0
    <3>. QED BY <3>1, <3>2, <3>3
  <2>. QED BY <2>1, <2>2
<1>9. \A n \in Nat : endured[n] \in Nat
  <2>. DEFINE T == {n \in Nat : endured[n] \in Nat}
  <2>1. 0 \in T
    BY <1>8, <1>0
  <2>2. ASSUME NEW n \in Nat, n \in T PROVE n + 1 \in T
    <3>1. endured[n] \in Nat /\ backoff(n + 1) \in Nat
      BY <2>2, <1>0
    <3>2. endured[n + 1] = endured[n] + backoff(n + 1)
      BY <1>8
    <3>. QED BY <3>1, <3>2
  <2>. HIDE DEF T
  <2>3. \A n \in Nat : n \in T
    BY <2>1, <2>2, SetInduction
  <2>. QED BY <2>3 DEF T
<1>. QED BY <1>7, <1>8, <1>9
-----------------------------------------------------------------------------
(* The lease and every backoff fit the bound on the wait of a row.         *)
LEMMA WaitBound ==
  /\ Max({Lease, MaxBackoff}) \in Nat
  /\ Lease \in 1 .. Max({Lease, MaxBackoff})
  /\ MaxBackoff \in 1 .. Max({Lease, MaxBackoff})
<1>1. Max({Lease, MaxBackoff}) = IF Lease <= MaxBackoff THEN MaxBackoff ELSE Lease
  BY MinMax, OutboxAssumption
<1>. QED BY <1>1, OutboxAssumption

(* What the end of a delivery does to the pollers (poller.go: the loop     *)
(* over the batch).                                                        *)
LEMMA DoneShrinks ==
  ASSUME TypeOK, NEW p \in Poller, NEW d \in poller[p].batch, Done(p, d)
  PROVE  /\ poller' \in [Poller -> PollerState]
         /\ poller'[p].batch = poller[p].batch \ {d}
         /\ poller'[p].ctx = poller[p].ctx
         /\ \A q \in Poller \ {p} : poller'[q] = poller[q]
         /\ \A q \in Poller : poller'[q].batch \subseteq poller[q].batch
         /\ \A q \in Poller : poller'[q].batch # {} => poller'[q].lease = poller[q].lease
<1>. DEFINE rest == poller[p].batch \ {d}
            left == IF rest = {} THEN 0 ELSE poller[p].lease
<1>1. poller[p] \in PollerState /\ poller \in [Poller -> PollerState]
  BY DEF TypeOK
<1>2. poller' = [poller EXCEPT ![p] = [poller[p] EXCEPT !.batch = rest, !.lease = left]]
  BY <1>1 DEF Done, PollerState
<1>3. left \in Nat /\ rest \subseteq Delivery
  BY <1>1 DEF PollerState
<1>4. (rest # {} => left = poller[p].lease) /\ rest \subseteq poller[p].batch
  OBVIOUS
<1>. HIDE DEF rest, left
<1>5. [poller[p] EXCEPT !.batch = rest, !.lease = left] \in PollerState
  BY <1>1, <1>3 DEF PollerState
<1>6. /\ poller'[p].batch = rest /\ poller'[p].lease = left
      /\ poller'[p].ctx = poller[p].ctx
  BY <1>1, <1>2 DEF PollerState
<1>7. poller' \in [Poller -> PollerState] /\ \A q \in Poller \ {p} : poller'[q] = poller[q]
  BY <1>1, <1>2, <1>5
<1>8. \A q \in Poller : /\ poller'[q].batch \subseteq poller[q].batch
                        /\ poller'[q].batch # {} => poller'[q].lease = poller[q].lease
  BY <1>4, <1>6, <1>7
<1>9. rest = poller[p].batch \ {d}
  BY DEF rest
<1>. QED BY <1>6, <1>7, <1>8, <1>9

(* A change of a row's columns keeps their types.                          *)
LEMMA RowUpdate ==
  ASSUME NEW B, NEW N, NEW W,
         NEW r \in [present: B, published: B, dead: B, attempts: N, wait: W],
         NEW b \in B, NEW n \in N, NEW w \in W
  PROVE  LET R == [present: B, published: B, dead: B, attempts: N, wait: W]
         IN  /\ [r EXCEPT !.published = b] \in R
             /\ [r EXCEPT !.attempts = n, !.dead = b] \in R
             /\ [r EXCEPT !.attempts = n, !.wait = w] \in R
             /\ [r EXCEPT !.wait = w] \in R
OBVIOUS

(* What a claim, a success and a failure write into an outbox row is a row *)
(* (poller.go tick, fail).                                                 *)
LEMMA RowChanges ==
  ASSUME NEW r \in Row, NEW w \in 0 .. Max({Lease, MaxBackoff})
  PROVE  /\ r.attempts \in Nat /\ r.wait \in 0 .. Max({Lease, MaxBackoff})
         /\ [r EXCEPT !.published = TRUE] \in Row
         /\ [r EXCEPT !.attempts = @ + 1, !.dead = TRUE] \in Row
         /\ [r EXCEPT !.attempts = @ + 1, !.wait = w] \in Row
         /\ [r EXCEPT !.wait = w] \in Row
<1>. DEFINE W == 0 .. Max({Lease, MaxBackoff})
<1>1. Row = [present: BOOLEAN, published: BOOLEAN, dead: BOOLEAN, attempts: Nat, wait: W]
  BY DEF Row
<1>2. w \in W
  OBVIOUS
<1>. HIDE DEF W
<1>3. r.attempts \in Nat /\ r.wait \in W
  BY <1>1
<1>4. r.attempts + 1 \in Nat
  BY <1>3
<1>5. \A n \in Nat : /\ [r EXCEPT !.published = TRUE] \in Row
                     /\ [r EXCEPT !.attempts = n, !.dead = TRUE] \in Row
                     /\ [r EXCEPT !.attempts = n, !.wait = w] \in Row
                     /\ [r EXCEPT !.wait = w] \in Row
  BY <1>1, <1>2, RowUpdate
<1>6. /\ [r EXCEPT !.attempts = @ + 1, !.dead = TRUE] = [r EXCEPT !.attempts = r.attempts + 1, !.dead = TRUE]
      /\ [r EXCEPT !.attempts = @ + 1, !.wait = w] = [r EXCEPT !.attempts = r.attempts + 1, !.wait = w]
  OBVIOUS
<1>. QED BY <1>3, <1>4, <1>5, <1>6 DEF W

(* The three statements of the poller keep the table's type and touch one  *)
(* row (queries/switch/outbox.sql).                                        *)
LEMMA WriteTypes ==
  ASSUME row \in [Event -> Row], NEW d \in Delivery
  PROVE  /\ MarkOutboxPublished(d.event) \in [Event -> Row]
         /\ AfterFailure(d) \in [Event -> Row]
<1>. DEFINE e == d.event
<1>1. e \in Event /\ d.att \in Nat
  BY DEF Delivery
<1>2. row[e] \in Row
  BY <1>1
<1>2a. 0 \in 0 .. Max({Lease, MaxBackoff})
  BY WaitBound
<1>3. MarkOutboxPublished(e) \in [Event -> Row]
  <2>1. [row[e] EXCEPT !.published = TRUE] \in Row
    BY <1>2, <1>2a, RowChanges
  <2>. QED BY <1>1, <2>1 DEF MarkOutboxPublished
<1>4. DeadLetterOutbox(e) \in [Event -> Row]
  <2>1. [row[e] EXCEPT !.attempts = @ + 1, !.dead = TRUE] \in Row
    BY <1>2, <1>2a, RowChanges
  <2>. QED BY <1>1, <2>1 DEF DeadLetterOutbox
<1>5. RescheduleOutbox(e, backoff(d.att + 1)) \in [Event -> Row]
  <2>0. d.att + 1 \in Nat \ {0}
    BY <1>1
  <2>1. backoff(d.att + 1) \in 0 .. MaxBackoff
    BY <2>0, BackoffIsFormula
  <2>2. backoff(d.att + 1) \in 0 .. Max({Lease, MaxBackoff})
    BY <2>1, WaitBound
  <2>3. [row[e] EXCEPT !.attempts = @ + 1, !.wait = backoff(d.att + 1)] \in Row
    BY <1>2, <2>2, RowChanges
  <2>. QED BY <1>1, <2>3 DEF RescheduleOutbox
<1>. QED BY <1>3, <1>4, <1>5 DEF AfterFailure

(* What a claim writes (ClaimOutboxBatch): the lease, to rows that were    *)
(* due; and what the poller then holds.                                    *)
Claimed(p, S) ==
    /\ \A e \in S : Due(e)
    /\ row' = Leased(S)
    /\ row' \in [Event -> Row]
    /\ \A e \in S : /\ row'[e].wait = Lease
                    /\ row'[e].present = row[e].present
                    /\ row'[e].published = row[e].published
                    /\ row'[e].dead = row[e].dead
                    /\ row'[e].attempts = row[e].attempts
    /\ \A e \in Event \ S : row'[e] = row[e]
    /\ poller[p].batch = {} /\ poller[p].ctx = "live"
    /\ poller' \in [Poller -> PollerState]
    /\ poller'[p].lease = Lease
    /\ poller'[p].batch = {[event |-> e, att |-> row[e].attempts] : e \in S}
    /\ \A q \in Poller \ {p} : poller'[q] = poller[q]

(* A claim leases the rows it takes and puts them, with their attempts, in *)
(* the batch of its poller, and touches no other poller (poller.go tick).  *)
LEMMA ClaimEffect ==
  ASSUME TypeOK, NEW p \in Poller, Claim(p)
  PROVE  \E S \in SUBSET Event : Claimed(p, S)
<1>1. PICK skip \in SUBSET MayBeLocked(p) :
        LET S == Oldest({e \in Event \ skip : Due(e)})
        IN  /\ S # {}
            /\ row' = Leased(S)
            /\ poller' = [poller EXCEPT ![p] =
                            [@ EXCEPT !.lease = Lease,
                                      !.batch = {[event |-> e, att |-> row[e].attempts] : e \in S}]]
  BY DEF Claim
<1>. DEFINE S == Oldest({e \in Event \ skip : Due(e)})
            B == {[event |-> e, att |-> row[e].attempts] : e \in S}
<1>2. S \in SUBSET Event /\ \A e \in S : Due(e)
  BY DEF Oldest
<1>3. row' = Leased(S) /\ poller' = [poller EXCEPT ![p] = [@ EXCEPT !.lease = Lease, !.batch = B]]
  BY <1>1
<1>. HIDE DEF S
<1>4. row \in [Event -> Row] /\ poller \in [Poller -> PollerState] /\ poller[p] \in PollerState
  BY DEF TypeOK
<1>5. Lease \in 0 .. Max({Lease, MaxBackoff}) /\ Lease \in Nat
  BY WaitBound, OutboxAssumption
<1>6. ASSUME NEW e \in Event PROVE row[e].attempts \in Nat /\ [row[e] EXCEPT !.wait = Lease] \in Row
  <2>1. row[e] \in Row
    BY <1>4
  <2>. QED BY <2>1, <1>5, RowChanges
<1>7. row' \in [Event -> Row] /\ \A e \in Event \ S : row'[e] = row[e]
  BY <1>2, <1>3, <1>4, <1>6 DEF Leased
<1>8. ASSUME NEW e \in S
      PROVE  /\ row'[e].wait = Lease
             /\ row'[e].present = row[e].present
             /\ row'[e].published = row[e].published
             /\ row'[e].dead = row[e].dead
             /\ row'[e].attempts = row[e].attempts
  <2>1. row'[e] = [row[e] EXCEPT !.wait = Lease]
    BY <1>2, <1>3 DEF Leased
  <2>2. row[e] \in Row
    BY <1>2, <1>4
  <2>. QED BY <2>1, <2>2, Zenon DEF Row
<1>9. B \subseteq Delivery
  <2>1. \A e \in S : e \in Event /\ row[e].attempts \in Nat
    BY <1>2, <1>6
  <2>. QED BY <2>1 DEF Delivery
<1>. HIDE DEF B
<1>10. /\ poller' \in [Poller -> PollerState]
       /\ poller'[p].lease = Lease /\ poller'[p].batch = B
       /\ \A q \in Poller \ {p} : poller'[q] = poller[q]
  <2>1. [poller[p] EXCEPT !.lease = Lease, !.batch = B] \in PollerState
    BY <1>4, <1>5, <1>9 DEF PollerState
  <2>2. /\ poller' = [poller EXCEPT ![p] = [poller[p] EXCEPT !.lease = Lease, !.batch = B]]
        /\ poller'[p] = [poller[p] EXCEPT !.lease = Lease, !.batch = B]
    BY <1>3, <1>4
  <2>3. poller'[p].lease = Lease /\ poller'[p].batch = B
    BY <2>2, <1>4 DEF PollerState
  <2>. QED BY <2>1, <2>2, <2>3, <1>4
<1>11. poller[p].batch = {} /\ poller[p].ctx = "live"
  BY DEF Claim
<1>12. B = {[event |-> e, att |-> row[e].attempts] : e \in S}
  BY DEF B
<1>. S \in SUBSET Event
  BY <1>2
<1>. WITNESS S \in SUBSET Event
<1>. QED BY <1>2, <1>3, <1>7, <1>8, <1>10, <1>11, <1>12 DEF Claimed

(* What a tick does (the clock): waits and leases run down together.       *)
LEMMA TickEffect ==
  ASSUME TypeOK, Tick
  PROVE  /\ row' \in [Event -> Row]
         /\ \A e \in Event : /\ row'[e].present = row[e].present
                             /\ row'[e].published = row[e].published
                             /\ row'[e].dead = row[e].dead
                             /\ row'[e].attempts = row[e].attempts
                             /\ Live(e) => row'[e].wait = Less(row[e].wait)
         /\ poller' \in [Poller -> PollerState]
         /\ \A p \in Poller : /\ poller'[p].batch = poller[p].batch
                              /\ poller'[p].lease = Less(poller[p].lease)
<1>1. row \in [Event -> Row] /\ poller \in [Poller -> PollerState]
  BY DEF TypeOK
<1>2. ASSUME NEW e \in Event
      PROVE  /\ row'[e] \in Row
             /\ row'[e].present = row[e].present
             /\ row'[e].published = row[e].published
             /\ row'[e].dead = row[e].dead
             /\ row'[e].attempts = row[e].attempts
             /\ Live(e) => row'[e].wait = Less(row[e].wait)
  <2>1. row[e] \in Row
    BY <1>1
  <2>2. row'[e] = IF Live(e) THEN [row[e] EXCEPT !.wait = Less(row[e].wait)] ELSE row[e]
    BY DEF Tick
  <2>3. Less(row[e].wait) \in 0 .. Max({Lease, MaxBackoff})
    <3>1. row[e].wait \in 0 .. Max({Lease, MaxBackoff})
      <4>1. 0 \in 0 .. Max({Lease, MaxBackoff})
        BY WaitBound
      <4>. QED BY <2>1, <4>1, RowChanges
    <3>. QED BY <3>1, WaitBound DEF Less
  <2>4. [row[e] EXCEPT !.wait = Less(row[e].wait)] \in Row
    BY <2>1, <2>3, RowChanges
  <2>5. /\ [row[e] EXCEPT !.wait = Less(row[e].wait)].present = row[e].present
        /\ [row[e] EXCEPT !.wait = Less(row[e].wait)].published = row[e].published
        /\ [row[e] EXCEPT !.wait = Less(row[e].wait)].dead = row[e].dead
        /\ [row[e] EXCEPT !.wait = Less(row[e].wait)].attempts = row[e].attempts
        /\ [row[e] EXCEPT !.wait = Less(row[e].wait)].wait = Less(row[e].wait)
    BY <2>1, Zenon DEF Row
  <2>. QED BY <2>1, <2>2, <2>4, <2>5
<1>3. row' \in [Event -> Row]
  <2>1. row' = [e \in Event |-> row'[e]]
    BY DEF Tick
  <2>. QED BY <2>1, <1>2
<1>4. ASSUME NEW p \in Poller
      PROVE  /\ poller'[p] \in PollerState
             /\ poller'[p].batch = poller[p].batch
             /\ poller'[p].lease = Less(poller[p].lease)
  <2>1. poller[p] \in PollerState /\ poller'[p] = [poller[p] EXCEPT !.lease = Less(poller[p].lease)]
    BY <1>1 DEF Tick
  <2>2. Less(poller[p].lease) \in Nat
    BY <2>1 DEF PollerState, Less
  <2>. QED BY <2>1, <2>2 DEF PollerState
<1>5. poller' \in [Poller -> PollerState]
  <2>1. poller' = [p \in Poller |-> poller'[p]]
    BY DEF Tick
  <2>. QED BY <2>1, <1>4
<1>. QED BY <1>2, <1>3, <1>4, <1>5

(* What a delivery without error writes to the row, unless the statement   *)
(* fails (poller.go: MarkOutboxPublished).                                 *)
LEMMA SucceedEffect ==
  ASSUME TypeOK, NEW p \in Poller, NEW d \in poller[p].batch, Succeed(p, d)
  PROVE  /\ d.event \in Event /\ d.att \in Nat /\ d \in Delivery
         /\ row' \in [Event -> Row]
         /\ \A e \in Event \ {d.event} : row'[e] = row[e]
         /\ row'[d.event].present = row[d.event].present
         /\ row'[d.event].dead = row[d.event].dead
         /\ row'[d.event].attempts = row[d.event].attempts
         /\ row'[d.event].wait = row[d.event].wait
         /\ row' = row \/ row'[d.event].published
<1>. DEFINE e == d.event
<1>1. d \in Delivery
  BY DEF TypeOK, PollerState
<1>2. e \in Event /\ d.att \in Nat
  BY <1>1 DEF Delivery
<1>3. row \in [Event -> Row] /\ row[e] \in Row
  BY <1>2 DEF TypeOK
<1>. HIDE DEF e
<1>4. CASE row' = row
  BY <1>1, <1>2, <1>3, <1>4 DEF e
<1>5. CASE row' = MarkOutboxPublished(e)
  <2>1. row' \in [Event -> Row]
    BY <1>1, <1>3, <1>5, WriteTypes DEF e
  <2>2. row'[e] = [row[e] EXCEPT !.published = TRUE] /\ \A f \in Event \ {e} : row'[f] = row[f]
    BY <1>2, <1>3, <1>5 DEF MarkOutboxPublished
  <2>3. /\ row'[e].present = row[e].present /\ row'[e].dead = row[e].dead
        /\ row'[e].attempts = row[e].attempts /\ row'[e].wait = row[e].wait
        /\ row'[e].published
    BY <2>2, <1>3, Zenon DEF Row
  <2>. QED BY <1>1, <1>2, <2>1, <2>2, <2>3 DEF e
<1>. QED BY <1>4, <1>5 DEF Succeed, Writes, e

(* What a delivery with an error writes, unless the statement fails        *)
(* (poller.go: fail, with RescheduleOutbox and DeadLetterOutbox).          *)
LEMMA FailEffect ==
  ASSUME TypeOK, NEW p \in Poller, NEW d \in poller[p].batch, Fail(p, d)
  PROVE  /\ d.event \in Event /\ d.att \in Nat /\ d \in Delivery
         /\ row' \in [Event -> Row]
         /\ \A e \in Event \ {d.event} : row'[e] = row[e]
         /\ row'[d.event].present = row[d.event].present
         /\ row'[d.event].published = row[d.event].published
         /\ \/ row' = row
            \/ /\ d.att + 1 >= MaxAttempts
               /\ row'[d.event].attempts = row[d.event].attempts + 1
               /\ row'[d.event].dead
               /\ row'[d.event].wait = row[d.event].wait
            \/ /\ d.att + 1 < MaxAttempts
               /\ row'[d.event].attempts = row[d.event].attempts + 1
               /\ row'[d.event].dead = row[d.event].dead
               /\ row'[d.event].wait = backoff(d.att + 1)
<1>. DEFINE e == d.event
<1>1. d \in Delivery
  BY DEF TypeOK, PollerState
<1>2. e \in Event /\ d.att \in Nat
  BY <1>1 DEF Delivery
<1>3. row \in [Event -> Row] /\ row[e] \in Row
  BY <1>2 DEF TypeOK
<1>. HIDE DEF e
<1>4. CASE row' = row
  BY <1>1, <1>2, <1>3, <1>4 DEF e
<1>5. CASE row' = AfterFailure(d)
  <2>1. row' \in [Event -> Row]
    BY <1>1, <1>3, <1>5, WriteTypes
  <2>2. CASE d.att + 1 >= MaxAttempts
    <3>1. row' = DeadLetterOutbox(e)
      BY <1>5, <2>2 DEF AfterFailure, e
    <3>2. /\ row'[e] = [row[e] EXCEPT !.attempts = row[e].attempts + 1, !.dead = TRUE]
          /\ \A f \in Event \ {e} : row'[f] = row[f]
      BY <1>2, <1>3, <3>1 DEF DeadLetterOutbox
    <3>3. /\ row'[e].present = row[e].present /\ row'[e].published = row[e].published
          /\ row'[e].attempts = row[e].attempts + 1 /\ row'[e].wait = row[e].wait
          /\ row'[e].dead
      BY <3>2, <1>3, Zenon DEF Row
    <3>. QED BY <1>1, <1>2, <2>1, <2>2, <3>2, <3>3 DEF e
  <2>3. CASE d.att + 1 < MaxAttempts
    <3>1. row' = RescheduleOutbox(e, backoff(d.att + 1))
      BY <1>2, <1>5, <2>3, OutboxAssumption DEF AfterFailure, e
    <3>2. /\ row'[e] = [row[e] EXCEPT !.attempts = row[e].attempts + 1, !.wait = backoff(d.att + 1)]
          /\ \A f \in Event \ {e} : row'[f] = row[f]
      BY <1>2, <1>3, <3>1 DEF RescheduleOutbox
    <3>3. /\ row'[e].present = row[e].present /\ row'[e].published = row[e].published
          /\ row'[e].attempts = row[e].attempts + 1 /\ row'[e].dead = row[e].dead
          /\ row'[e].wait = backoff(d.att + 1)
      BY <3>2, <1>3, Zenon DEF Row
    <3>. QED BY <1>1, <1>2, <2>1, <2>3, <3>2, <3>3 DEF e
  <2>. QED BY <1>2, <2>2, <2>3, OutboxAssumption
<1>. QED BY <1>4, <1>5 DEF Fail, Writes

(* A poller's life cycle leaves the other pollers alone, and holds nothing *)
(* it did not hold before.                                                 *)
LEMMA LifeEffect ==
  ASSUME TypeOK, NEW p \in Poller, StopPoller(p) \/ Exit(p) \/ Start(p)
  PROVE  /\ row' = row /\ failures' = failures /\ late' = late /\ age' = age
         /\ poller' \in [Poller -> PollerState]
         /\ \A q \in Poller \ {p} : poller'[q] = poller[q]
         /\ \/ poller'[p].batch = poller[p].batch /\ poller'[p].lease = poller[p].lease
            \/ poller'[p].batch = {}
<1>1. poller \in [Poller -> PollerState] /\ poller[p] \in PollerState
  BY DEF TypeOK
<1>2. CASE StopPoller(p)
  <2>1. poller' = [poller EXCEPT ![p] = [poller[p] EXCEPT !.ctx = "cancelled"]]
    BY <1>1, <1>2 DEF StopPoller
  <2>2. [poller[p] EXCEPT !.ctx = "cancelled"] \in PollerState
    BY <1>1 DEF PollerState
  <2>3. poller'[p].batch = poller[p].batch /\ poller'[p].lease = poller[p].lease
    BY <1>1, <2>1 DEF PollerState
  <2>. QED BY <1>1, <1>2, <2>1, <2>2, <2>3 DEF StopPoller, ghostVars
<1>3. CASE Exit(p) \/ Start(p)
  <2>1. Fresh \in PollerState /\ [Fresh EXCEPT !.ctx = "down"] \in PollerState
    BY DEF Fresh, PollerState
  <2>2. Fresh.batch = {} /\ [Fresh EXCEPT !.ctx = "down"].batch = {}
    BY DEF Fresh
  <2>3. poller' = [poller EXCEPT ![p] = Fresh] \/ poller' = [poller EXCEPT ![p] = [Fresh EXCEPT !.ctx = "down"]]
    BY <1>3 DEF Exit, Start
  <2>. QED BY <1>1, <1>3, <2>1, <2>2, <2>3 DEF Exit, Start, ghostVars
<1>. QED BY <1>2, <1>3
-----------------------------------------------------------------------------
(* The time that the retries of an event last is a number.                 *)
LEMMA EnduranceType == Endurance \in Nat
<1>1. MaxAttempts - 1 \in Nat
  BY OutboxAssumption
<1>. QED BY <1>1, EnduredStep DEF Endurance

(* Every action keeps the types; the interesting part is the wait, which a *)
(* claim, a backoff and the clock keep below its bound.                    *)
LEMMA TypeStep == TypeOK /\ Next => TypeOK'
<1>. SUFFICES ASSUME TypeOK, Next PROVE TypeOK'
  OBVIOUS
<1>1. /\ row \in [Event -> Row] /\ poller \in [Poller -> PollerState]
      /\ failures \in [Event -> Nat] /\ late \subseteq Event
      /\ age \in [Event -> 0 .. Endurance] /\ faults \in 0 .. MaxFaults
  BY DEF TypeOK
<1>2. MaxFaults \in Nat /\ MaxAttempts \in Nat /\ Endurance \in Nat
  BY OutboxAssumption, EnduranceType
<1>3. (FaultBudget => faults' \in 0 .. MaxFaults) /\ (NoFault => faults' \in 0 .. MaxFaults)
  BY <1>1, <1>2 DEF FaultBudget, NoFault
<1>4. CASE Tick
  <2>1. row' \in [Event -> Row] /\ poller' \in [Poller -> PollerState]
    BY <1>4, TickEffect
  <2>2. late' \subseteq Event /\ faults' = faults /\ failures' = failures
    BY <1>1, <1>4 DEF Tick
  <2>3. age' \in [Event -> 0 .. Endurance]
    <3>1. ASSUME NEW e \in Event
          PROVE  (IF e \in late' THEN 0 ELSE IF Ageing(e) THEN age[e] + 1 ELSE age[e]) \in 0 .. Endurance
      <4>1. age[e] \in 0 .. Endurance
        BY <1>1
      <4>2. Ageing(e) => age[e] < Endurance
        BY DEF Ageing
      <4>. QED BY <4>1, <4>2, <1>2
    <3>. QED BY <3>1, <1>4 DEF Tick
  <2>. QED BY <1>1, <2>1, <2>2, <2>3 DEF TypeOK
<1>5. ASSUME NEW e \in Event, Append(e) PROVE TypeOK'
  <2>1. NewRow \in Row
    <3>1. 0 \in 0 .. Max({Lease, MaxBackoff})
      BY WaitBound
    <3>. DEFINE W == 0 .. Max({Lease, MaxBackoff})
    <3>. HIDE DEF W
    <3>2. Row = [present: BOOLEAN, published: BOOLEAN, dead: BOOLEAN, attempts: Nat, wait: W]
      BY DEF Row, W
    <3>3. 0 \in W
      BY <3>1 DEF W
    <3>. QED BY <3>2, <3>3 DEF NewRow
  <2>. QED BY <1>1, <1>5, <2>1 DEF Append, ghostVars, TypeOK
<1>6. ASSUME NEW p \in Poller, PollerNext(p) PROVE TypeOK'
  <2>1. CASE Claim(p)
    <3>1. row' \in [Event -> Row] /\ poller' \in [Poller -> PollerState]
      BY <2>1, ClaimEffect DEF Claimed
    <3>. QED BY <1>1, <2>1, <3>1 DEF Claim, ghostVars, TypeOK
  <2>2. CASE StopPoller(p) \/ Exit(p) \/ Start(p)
    <3>1. /\ row' = row /\ failures' = failures /\ late' = late /\ age' = age
          /\ poller' \in [Poller -> PollerState]
      BY <2>2, LifeEffect
    <3>2. faults' \in 0 .. MaxFaults
      BY <1>1, <1>3, <2>2 DEF StopPoller, Exit, Start
    <3>. QED BY <1>1, <3>1, <3>2 DEF TypeOK
  <2>3. ASSUME NEW d \in poller[p].batch, Succeed(p, d) PROVE TypeOK'
    <3>1. row' \in [Event -> Row] /\ poller' \in [Poller -> PollerState]
      BY <2>3, SucceedEffect, DoneShrinks DEF Succeed
    <3>2. faults' \in 0 .. MaxFaults
      BY <1>3, <2>3 DEF Succeed, Writes
    <3>. QED BY <1>1, <2>3, <3>1, <3>2 DEF Succeed, ghostVars, TypeOK
  <2>4. ASSUME NEW d \in poller[p].batch, Fail(p, d) PROVE TypeOK'
    <3>1. row' \in [Event -> Row] /\ poller' \in [Poller -> PollerState] /\ d.event \in Event
      BY <2>4, FailEffect, DoneShrinks DEF Fail
    <3>2. faults' \in 0 .. MaxFaults
      BY <1>3, <2>4 DEF Fail, Writes
    <3>3. failures' \in [Event -> Nat]
      BY <1>1, <2>4, <3>1 DEF Fail
    <3>. QED BY <1>1, <2>4, <3>1, <3>2, <3>3 DEF Fail, TypeOK
  <2>5. ASSUME NEW d \in poller[p].batch, Abandon(p, d) PROVE TypeOK'
    <3>1. poller' \in [Poller -> PollerState]
      BY <2>5, DoneShrinks DEF Abandon
    <3>. QED BY <1>1, <2>5, <3>1 DEF Abandon, ghostVars, TypeOK
  <2>. QED BY <1>6, <2>1, <2>2, <2>3, <2>4, <2>5 DEF PollerNext
<1>. QED BY <1>4, <1>5, <1>6 DEF Next

(* The empty outbox has its types.                                         *)
LEMMA TypeInit == Init => TypeOK
<1>. SUFFICES ASSUME Init PROVE TypeOK
  OBVIOUS
<1>1. [NewRow EXCEPT !.present = FALSE] \in Row
  <2>1. 0 \in 0 .. Max({Lease, MaxBackoff})
    BY WaitBound
  <2>. DEFINE W == 0 .. Max({Lease, MaxBackoff})
  <2>. HIDE DEF W
  <2>2. Row = [present: BOOLEAN, published: BOOLEAN, dead: BOOLEAN, attempts: Nat, wait: W]
    BY DEF Row, W
  <2>3. 0 \in W
    BY <2>1 DEF W
  <2>. QED BY <2>2, <2>3 DEF NewRow
<1>2. Fresh \in PollerState
  BY DEF Fresh, PollerState
<1>3. 0 \in 0 .. Endurance /\ 0 \in 0 .. MaxFaults
  BY EnduranceType, OutboxAssumption
<1>4. row \in [Event -> Row]
  BY <1>1 DEF Init
<1>5. poller \in [Poller -> PollerState]
  BY <1>2 DEF Init
<1>6. age \in [Event -> 0 .. Endurance]
  BY <1>3 DEF Init
<1>. QED BY <1>3, <1>4, <1>5, <1>6 DEF Init, TypeOK

(* The table, the pollers and the history always have their types, and no  *)
(* row is hidden for longer than the lease or the cap on the backoff:      *)
(* poller.go, backoff, and ClaimOutboxBatch.                               *)
THEOREM OutboxTyped == Spec => []TypeOK
<1>1. TypeOK /\ [Next]_vars => TypeOK'
  <2>1. TypeOK /\ UNCHANGED vars => TypeOK'
    BY DEF TypeOK, vars
  <2>. QED BY <2>1, TypeStep
<1>. QED BY <1>1, TypeInit, PTL DEF Spec
-----------------------------------------------------------------------------
CountInv == TypeOK /\ BatchInv /\ FailureInv

(* A held delivery has its type.                                           *)
LEMMA BatchType ==
  ASSUME TypeOK, NEW p \in Poller, NEW d \in poller[p].batch
  PROVE  /\ d.event \in Event /\ d.att \in Nat /\ d \in Delivery
         /\ row[d.event] \in Row /\ row[d.event].attempts \in Nat
<1>1. d \in Delivery
  BY DEF TypeOK, PollerState
<1>2. d.event \in Event /\ d.att \in Nat
  BY <1>1 DEF Delivery
<1>3. row[d.event] \in Row
  BY <1>2 DEF TypeOK
<1>4. row[d.event].attempts \in Nat
  BY <1>3, Zenon DEF Row
<1>. QED BY <1>1, <1>2, <1>3, <1>4

(* Deliveries that are dropped and counters that grow keep BatchInv.       *)
LEMMA BatchFrame ==
  ASSUME TypeOK, TypeOK', BatchInv,
         \A q \in Poller : poller'[q].batch \subseteq poller[q].batch,
         \A e \in Event : row[e].present =>
            row'[e].present /\ row[e].attempts <= row'[e].attempts
  PROVE  BatchInv'
<1>. SUFFICES ASSUME NEW p \in Poller, NEW d \in poller'[p].batch
              PROVE  /\ row'[d.event].present
                     /\ d.att <= row'[d.event].attempts
                     /\ \A c \in poller'[p].batch : c.event = d.event => c = d
  BY DEF BatchInv
<1>1. d \in poller[p].batch /\ poller'[p].batch \subseteq poller[p].batch
  OBVIOUS
<1>2. d.event \in Event /\ d.att \in Nat /\ row[d.event].attempts \in Nat
  BY <1>1, BatchType
<1>3. row'[d.event].attempts \in Nat
  <2>1. row'[d.event] \in Row
    BY <1>2 DEF TypeOK
  <2>. QED BY <2>1, Zenon DEF Row
<1>4. row[d.event].present /\ d.att <= row[d.event].attempts
  BY <1>1 DEF BatchInv
<1>5. row'[d.event].present /\ row[d.event].attempts <= row'[d.event].attempts
  BY <1>2, <1>4
<1>6. \A c \in poller'[p].batch : c.event = d.event => c = d
  BY <1>1 DEF BatchInv
<1>7. d.att <= row'[d.event].attempts
  BY <1>2, <1>3, <1>4, <1>5
<1>. QED BY <1>5, <1>6, <1>7

(* A table whose attempts and dead marks stay keeps FailureInv.            *)
LEMMA FailureFrame ==
  ASSUME FailureInv, failures' = failures,
         \A e \in Event : row'[e].attempts = row[e].attempts /\ row'[e].dead = row[e].dead
  PROVE  FailureInv'
BY DEF FailureInv

(* The count a delivery carries never exceeds the failures that happened,  *)
(* so the cap it is compared with (poller.go: fail) is reached by them.    *)
LEMMA CountStep == CountInv /\ Next => CountInv'
<1>. SUFFICES ASSUME CountInv, Next PROVE BatchInv' /\ FailureInv'
  BY TypeStep DEF CountInv
<1>1. TypeOK /\ TypeOK' /\ BatchInv /\ FailureInv
  BY TypeStep DEF CountInv
<1>2. /\ row \in [Event -> Row] /\ failures \in [Event -> Nat] /\ MaxAttempts \in Nat \ {0}
      /\ \A e \in Event : row[e].attempts \in Nat
  <2>1. ASSUME NEW e \in Event PROVE row[e].attempts \in Nat
    <3>1. row[e] \in Row
      BY <1>1 DEF TypeOK
    <3>. QED BY <3>1, Zenon DEF Row
  <2>. QED BY <1>1, <2>1, OutboxAssumption DEF TypeOK
<1>3. CASE Tick
  <2>1. /\ \A e \in Event : /\ row'[e].present = row[e].present
                            /\ row'[e].dead = row[e].dead
                            /\ row'[e].attempts = row[e].attempts
        /\ \A p \in Poller : poller'[p].batch = poller[p].batch
    BY <1>1, <1>3, TickEffect
  <2>2. failures' = failures
    BY <1>3 DEF Tick
  <2>3. BatchInv'
    BY <1>1, <1>2, <2>1, BatchFrame
  <2>. QED BY <1>1, <2>1, <2>2, <2>3, FailureFrame
<1>4. ASSUME NEW e \in Event, Append(e) PROVE BatchInv' /\ FailureInv'
  <2>1. /\ ~row[e].present /\ poller' = poller /\ failures' = failures
        /\ \A f \in Event \ {e} : row'[f] = row[f]
        /\ row'[e] = NewRow
    BY <1>2, <1>4 DEF Append, ghostVars
  <2>2. row'[e].attempts = 0 /\ ~row'[e].dead
    BY <2>1 DEF NewRow
  <2>3. BatchInv'
    <3>1. \A f \in Event : row[f].present => row'[f] = row[f]
      BY <2>1
    <3>. QED BY <1>1, <1>2, <2>1, <3>1, BatchFrame
  <2>4. FailureInv'
    BY <1>1, <1>2, <2>1, <2>2 DEF FailureInv
  <2>. QED BY <2>3, <2>4
<1>5. ASSUME NEW p \in Poller, Claim(p) PROVE BatchInv' /\ FailureInv'
  <2>1. PICK S \in SUBSET Event : Claimed(p, S)
    BY <1>1, <1>5, ClaimEffect
  <2>. USE DEF Claimed
  <2>2. \A e \in Event : /\ row'[e].present = row[e].present
                         /\ row'[e].dead = row[e].dead
                         /\ row'[e].attempts = row[e].attempts
    BY <2>1
  <2>3. FailureInv'
    BY <1>1, <1>5, <2>2, FailureFrame DEF Claim, ghostVars
  <2>4. ASSUME NEW q \in Poller, NEW d \in poller'[q].batch
        PROVE  /\ row'[d.event].present
               /\ d.att <= row'[d.event].attempts
               /\ \A c \in poller'[q].batch : c.event = d.event => c = d
    <3>1. CASE q = p
      <4>1. PICK e \in S : d = [event |-> e, att |-> row[e].attempts]
        BY <2>1, <2>4, <3>1
      <4>2. d.event = e /\ d.att = row[e].attempts /\ e \in Event
        BY <4>1
      <4>3. row[e].present
        BY <2>1, <4>1 DEF Due, Live
      <4>4. \A c \in poller'[q].batch : c.event = d.event => c = d
        BY <2>1, <3>1, <4>1
      <4>5. row'[e].present /\ row'[e].attempts = row[e].attempts
        BY <2>2, <4>2, <4>3
      <4>6. d.att <= row'[e].attempts
        BY <1>2, <4>2, <4>5
      <4>. QED BY <4>2, <4>4, <4>5, <4>6
    <3>2. CASE q # p
      <4>1. poller'[q] = poller[q] /\ d \in poller[q].batch
        BY <2>1, <2>4, <3>2
      <4>2. d.event \in Event
        BY <1>1, <4>1, BatchType
      <4>. QED BY <1>1, <2>2, <4>1, <4>2 DEF BatchInv
    <3>. QED BY <3>1, <3>2
  <2>5. BatchInv'
    BY <2>4 DEF BatchInv
  <2>. QED BY <2>3, <2>5
<1>6. ASSUME NEW p \in Poller, StopPoller(p) \/ Exit(p) \/ Start(p) PROVE BatchInv' /\ FailureInv'
  <2>1. /\ row' = row /\ failures' = failures
        /\ \A q \in Poller : poller'[q].batch \subseteq poller[q].batch
    BY <1>1, <1>6, LifeEffect
  <2>2. BatchInv'
    BY <1>1, <1>2, <2>1, BatchFrame
  <2>. QED BY <1>1, <2>1, <2>2, FailureFrame
<1>7. ASSUME NEW p \in Poller, NEW d \in poller[p].batch, Succeed(p, d) PROVE BatchInv' /\ FailureInv'
  <2>1. \A e \in Event : /\ row'[e].present = row[e].present
                         /\ row'[e].dead = row[e].dead
                         /\ row'[e].attempts = row[e].attempts
    BY <1>1, <1>7, SucceedEffect
  <2>2. \A q \in Poller : poller'[q].batch \subseteq poller[q].batch
    BY <1>1, <1>7, DoneShrinks DEF Succeed
  <2>3. failures' = failures
    BY <1>7 DEF Succeed, ghostVars
  <2>4. BatchInv'
    BY <1>1, <1>2, <2>1, <2>2, BatchFrame
  <2>. QED BY <1>1, <2>1, <2>3, <2>4, FailureFrame
<1>8. ASSUME NEW p \in Poller, NEW d \in poller[p].batch, Fail(p, d) PROVE BatchInv' /\ FailureInv'
  <2>. DEFINE e == d.event
  <2>1. /\ e \in Event /\ d.att \in Nat
        /\ \A f \in Event \ {e} : row'[f] = row[f]
        /\ row'[e].present = row[e].present
    BY <1>1, <1>8, FailEffect
  <2>2. \/ row' = row
        \/ /\ d.att + 1 >= MaxAttempts
           /\ row'[e].attempts = row[e].attempts + 1
        \/ /\ row'[e].attempts = row[e].attempts + 1
           /\ row'[e].dead = row[e].dead
    BY <1>1, <1>8, FailEffect
  <2>3. \A q \in Poller : poller'[q].batch \subseteq poller[q].batch
    BY <1>1, <1>8, DoneShrinks DEF Fail
  <2>4. /\ failures'[e] = IF failures[e] < MaxAttempts THEN failures[e] + 1 ELSE failures[e]
        /\ \A f \in Event \ {e} : failures'[f] = failures[f]
    BY <1>2, <1>8, <2>1 DEF Fail
  <2>5. d.att <= row[e].attempts
    BY <1>1, <1>8 DEF BatchInv
  <2>. HIDE DEF e
  <2>6. row[e].attempts \in Nat /\ failures[e] \in Nat
    BY <1>2, <2>1
  <2>7. BatchInv'
    <3>1. \A f \in Event : row[f].present =>
             row'[f].present /\ row[f].attempts <= row'[f].attempts
      BY <1>2, <2>1, <2>2
    <3>. QED BY <1>1, <2>3, <3>1, BatchFrame
  <2>8. FailureInv'
    <3>1. /\ failures[e] <= MaxAttempts
          /\ row[e].attempts <= failures[e] \/ failures[e] = MaxAttempts
          /\ row[e].dead => failures[e] = MaxAttempts
      BY <1>1, <2>1 DEF FailureInv
    <3>2. /\ failures'[e] <= MaxAttempts
          /\ row'[e].attempts <= failures'[e] \/ failures'[e] = MaxAttempts
      BY <1>2, <2>2, <2>4, <2>6, <3>1
    <3>3. row'[e].dead => failures'[e] = MaxAttempts
      <4>1. CASE row'[e].dead = row[e].dead
        BY <1>2, <2>4, <2>6, <3>1, <4>1
      <4>2. CASE d.att + 1 >= MaxAttempts
        BY <1>2, <2>1, <2>4, <2>5, <2>6, <3>1, <4>2
      <4>. QED BY <2>2, <4>1, <4>2
    <3>. QED BY <1>1, <2>1, <2>4, <3>2, <3>3 DEF FailureInv
  <2>. QED BY <2>7, <2>8
<1>9. ASSUME NEW p \in Poller, NEW d \in poller[p].batch, Abandon(p, d) PROVE BatchInv' /\ FailureInv'
  <2>1. row' = row /\ failures' = failures
    BY <1>9 DEF Abandon, ghostVars
  <2>2. \A q \in Poller : poller'[q].batch \subseteq poller[q].batch
    BY <1>1, <1>9, DoneShrinks DEF Abandon
  <2>3. BatchInv'
    BY <1>1, <1>2, <2>1, <2>2, BatchFrame
  <2>. QED BY <1>1, <2>1, <2>3, FailureFrame
<1>. QED BY <1>3, <1>4, <1>5, <1>6, <1>7, <1>8, <1>9 DEF Next, PollerNext

(* The counters of every row are those of its failures, in every state.    *)
LEMMA CountAlways == Spec => []CountInv
<1>1. Init => CountInv
  <2>1. Init => BatchInv
    BY DEF Init, BatchInv, Fresh
  <2>2. Init => FailureInv
    BY OutboxAssumption DEF Init, FailureInv, NewRow
  <2>. QED BY <2>1, <2>2, TypeInit DEF CountInv
<1>2. CountInv /\ [Next]_vars => CountInv'
  <2>1. CountInv /\ UNCHANGED vars => CountInv'
    BY DEF CountInv, TypeOK, BatchInv, FailureInv, vars
  <2>. QED BY <2>1, CountStep
<1>. QED BY <1>1, <1>2, PTL DEF Spec

(* An event is parked only after MaxAttempts failures of its handler in a  *)
(* process that was not being stopped, although the cap is compared with   *)
(* the attempts the claim has read (poller.go: fail).                      *)
THEOREM ParkedByFailures == Spec => []ParkedForCause
<1>1. CountInv => ParkedForCause
  <2>. SUFFICES ASSUME CountInv, NEW e \in Event, row[e].dead PROVE failures[e] >= MaxAttempts
    BY DEF ParkedForCause
  <2>1. failures[e] = MaxAttempts
    BY DEF CountInv, FailureInv
  <2>. QED BY <2>1, OutboxAssumption
<1>. QED BY <1>1, CountAlways, PTL
-----------------------------------------------------------------------------
OutboxInv == CountInv /\ LeaseInv /\ AgeInv

(* The counters of a row and its age are numbers.                          *)
LEMMA RowTypes ==
  ASSUME TypeOK, NEW e \in Event
  PROVE  row[e].attempts \in Nat /\ row[e].wait \in Nat /\ age[e] \in Nat
<1>1. row[e] \in Row /\ age[e] \in 0 .. Endurance
  BY DEF TypeOK
<1>2. row[e].attempts \in Nat /\ row[e].wait \in 0 .. Max({Lease, MaxBackoff})
  BY <1>1, Zenon DEF Row
<1>. QED BY <1>1, <1>2, WaitBound, EnduranceType

(* A step that keeps the rows of the deliveries it keeps, with their       *)
(* leases, keeps LeaseInv.                                                 *)
LEMMA LeaseFrame ==
  ASSUME LeaseInv, late' = late,
         \A q \in Poller : /\ poller'[q].batch \subseteq poller[q].batch
                           /\ poller'[q].batch # {} => poller'[q].lease = poller[q].lease,
         \A q \in Poller : \A c \in poller'[q].batch :
            c.event \notin late => row'[c.event] = row[c.event]
  PROVE  LeaseInv'
<1>. SUFFICES ASSUME NEW p \in Poller, NEW d \in poller'[p].batch, d.event \notin late
              PROVE  /\ Live(d.event)'
                     /\ d.att = row'[d.event].attempts
                     /\ poller'[p].lease > 0
                     /\ poller'[p].lease <= row'[d.event].wait
                     /\ \A q \in Poller : Holds(q, d.event)' => q = p
  BY DEF LeaseInv
<1>1. d \in poller[p].batch /\ poller'[p].lease = poller[p].lease /\ row'[d.event] = row[d.event]
  OBVIOUS
<1>2. /\ Live(d.event) /\ d.att = row[d.event].attempts
      /\ poller[p].lease > 0 /\ poller[p].lease <= row[d.event].wait
      /\ \A q \in Poller : Holds(q, d.event) => q = p
  BY <1>1 DEF LeaseInv
<1>3. \A q \in Poller : Holds(q, d.event)' => Holds(q, d.event)
  BY DEF Holds
<1>. QED BY <1>1, <1>2, <1>3 DEF Live

(* While leases are kept, a delivery is the only one of its event.         *)
LEMMA SoleDelivery ==
  ASSUME BatchInv, LeaseInv, NEW p \in Poller, NEW d \in poller[p].batch, d.event \notin late,
         NEW q \in Poller, NEW c \in poller[q].batch, c.event = d.event
  PROVE  q = p /\ c = d
<1>1. Holds(q, d.event)
  BY DEF Holds
<1>2. q = p
  BY <1>1 DEF LeaseInv
<1>. QED BY <1>2 DEF BatchInv

(* A row in the batch of a live poller stays leased to it: no step hands   *)
(* it to another one before the lease has run out.                         *)
LEMMA LeaseStep ==
  ASSUME CountInv, LeaseInv, Next
  PROVE  LeaseInv'
<1>1. TypeOK /\ TypeOK' /\ BatchInv
  BY TypeStep DEF CountInv
<1>2. CASE Tick
  <2>1. /\ \A e \in Event : /\ row'[e].present = row[e].present
                            /\ row'[e].published = row[e].published
                            /\ row'[e].dead = row[e].dead
                            /\ row'[e].attempts = row[e].attempts
                            /\ Live(e) => row'[e].wait = Less(row[e].wait)
        /\ \A p \in Poller : /\ poller'[p].batch = poller[p].batch
                             /\ poller'[p].lease = Less(poller[p].lease)
    BY <1>1, <1>2, TickEffect
  <2>2. late' = late \cup {e \in Event : \E p \in Poller : Holds(p, e) /\ poller[p].lease <= 1}
    BY <1>2 DEF Tick
  <2>. SUFFICES ASSUME NEW p \in Poller, NEW d \in poller'[p].batch, d.event \notin late'
                PROVE  /\ Live(d.event)'
                       /\ d.att = row'[d.event].attempts
                       /\ poller'[p].lease > 0
                       /\ poller'[p].lease <= row'[d.event].wait
                       /\ \A q \in Poller : Holds(q, d.event)' => q = p
    BY DEF LeaseInv
  <2>3. d \in poller[p].batch /\ d.event \notin late
    BY <2>1, <2>2
  <2>4. d.event \in Event /\ row[d.event].wait \in Nat /\ poller[p].lease \in Nat
    <3>1. d.event \in Event
      BY <1>1, <2>3, BatchType
    <3>2. poller[p].lease \in Nat
      BY <1>1 DEF TypeOK, PollerState
    <3>. QED BY <1>1, <3>1, <3>2, RowTypes
  <2>5. /\ Live(d.event) /\ d.att = row[d.event].attempts
        /\ poller[p].lease > 0 /\ poller[p].lease <= row[d.event].wait
        /\ \A q \in Poller : Holds(q, d.event) => q = p
    BY <2>3 DEF LeaseInv
  <2>6. ~(poller[p].lease <= 1)
    BY <2>2, <2>3, <2>4 DEF Holds
  <2>7. poller'[p].lease > 0 /\ poller'[p].lease <= row'[d.event].wait
    BY <2>1, <2>4, <2>5, <2>6 DEF Less
  <2>8. Live(d.event)' /\ d.att = row'[d.event].attempts
    BY <2>1, <2>4, <2>5 DEF Live
  <2>9. \A q \in Poller : Holds(q, d.event)' => q = p
    BY <2>1, <2>5 DEF Holds
  <2>. QED BY <2>7, <2>8, <2>9
<1>3. ASSUME NEW e \in Event, Append(e) PROVE LeaseInv'
  <2>1. /\ ~row[e].present /\ poller' = poller /\ late' = late
        /\ \A f \in Event \ {e} : row'[f] = row[f]
    BY <1>1, <1>3 DEF Append, ghostVars, TypeOK
  <2>2. \A q \in Poller : \A c \in poller'[q].batch : row'[c.event] = row[c.event]
    <3>. SUFFICES ASSUME NEW q \in Poller, NEW c \in poller[q].batch PROVE row'[c.event] = row[c.event]
      BY <2>1
    <3>1. c.event \in Event /\ row[c.event].present
      BY <1>1, BatchType DEF BatchInv
    <3>. QED BY <2>1, <3>1
  <2>. QED BY <2>1, <2>2, LeaseFrame
<1>4. ASSUME NEW p \in Poller, Claim(p) PROVE LeaseInv'
  <2>1. PICK S \in SUBSET Event : Claimed(p, S)
    BY <1>1, <1>4, ClaimEffect
  <2>. USE DEF Claimed
  <2>2. late' = late
    BY <1>4 DEF Claim, ghostVars
  <2>3. ASSUME NEW q \in Poller, NEW c \in poller[q].batch, c.event \in S, c.event \notin late
        PROVE  FALSE
    <3>1. row[c.event].wait = 0
      BY <2>1, <2>3 DEF Due
    <3>2. poller[q].lease > 0 /\ poller[q].lease <= row[c.event].wait /\ poller[q].lease \in Nat
      BY <1>1, <2>3 DEF LeaseInv, TypeOK, PollerState
    <3>. QED BY <3>1, <3>2
  <2>. SUFFICES ASSUME NEW q \in Poller, NEW d \in poller'[q].batch, d.event \notin late
                PROVE  /\ Live(d.event)'
                       /\ d.att = row'[d.event].attempts
                       /\ poller'[q].lease > 0
                       /\ poller'[q].lease <= row'[d.event].wait
                       /\ \A r \in Poller : Holds(r, d.event)' => r = q
    BY <2>2 DEF LeaseInv
  <2>4. CASE q = p
    <3>1. PICK e \in S : d = [event |-> e, att |-> row[e].attempts]
      BY <2>1, <2>4
    <3>2. d.event = e /\ d.att = row[e].attempts
      BY <3>1
    <3>3. Live(e)'
      BY <2>1, <3>1 DEF Due, Live
    <3>4. poller'[q].lease > 0 /\ poller'[q].lease <= row'[e].wait
      BY <2>1, <2>4, <3>1, OutboxAssumption
    <3>5. ASSUME NEW r \in Poller, r # p, Holds(r, e)' PROVE FALSE
      <4>1. PICK c \in poller[r].batch : c.event = e
        BY <2>1, <3>5 DEF Holds
      <4>. QED BY <2>3, <3>2, <4>1
    <3>6. d.att = row'[e].attempts
      BY <2>1, <3>2
    <3>. QED BY <2>4, <3>2, <3>3, <3>4, <3>5, <3>6
  <2>5. CASE q # p
    <3>1. poller'[q] = poller[q] /\ d \in poller[q].batch
      BY <2>1, <2>5
    <3>2. d.event \in Event /\ d.event \notin S
      BY <1>1, <2>3, <3>1, BatchType
    <3>3. row'[d.event] = row[d.event]
      BY <2>1, <3>2
    <3>4. /\ Live(d.event) /\ d.att = row[d.event].attempts
          /\ poller[q].lease > 0 /\ poller[q].lease <= row[d.event].wait
          /\ \A r \in Poller : Holds(r, d.event) => r = q
      BY <3>1 DEF LeaseInv
    <3>5. ~Holds(p, d.event)'
      BY <2>1, <3>2 DEF Holds
    <3>6. \A r \in Poller \ {p} : Holds(r, d.event)' => Holds(r, d.event)
      BY <2>1 DEF Holds
    <3>. QED BY <3>1, <3>3, <3>4, <3>5, <3>6 DEF Live
  <2>. QED BY <2>4, <2>5
<1>5. ASSUME NEW p \in Poller, StopPoller(p) \/ Exit(p) \/ Start(p) PROVE LeaseInv'
  <2>1. /\ row' = row /\ late' = late
        /\ \A q \in Poller : /\ poller'[q].batch \subseteq poller[q].batch
                             /\ poller'[q].batch # {} => poller'[q].lease = poller[q].lease
    BY <1>1, <1>5, LifeEffect
  <2>. QED BY <2>1, LeaseFrame
<1>6. ASSUME NEW p \in Poller, NEW d \in poller[p].batch, Succeed(p, d) \/ Fail(p, d) \/ Abandon(p, d)
      PROVE  LeaseInv'
  <2>1. /\ poller'[p].batch = poller[p].batch \ {d}
        /\ \A q \in Poller : /\ poller'[q].batch \subseteq poller[q].batch
                             /\ poller'[q].batch # {} => poller'[q].lease = poller[q].lease
    BY <1>1, <1>6, DoneShrinks DEF Succeed, Fail, Abandon
  <2>2. \A e \in Event \ {d.event} : row'[e] = row[e]
    BY <1>1, <1>6, SucceedEffect, FailEffect DEF Abandon
  <2>3. late' = late
    BY <1>6 DEF Succeed, Fail, Abandon, ghostVars
  <2>4. ASSUME NEW q \in Poller, NEW c \in poller'[q].batch, c.event \notin late
        PROVE  row'[c.event] = row[c.event]
    <3>1. c \in poller[q].batch /\ c.event \in Event
      BY <1>1, <2>1, <2>4, BatchType
    <3>2. CASE c.event # d.event
      BY <2>2, <3>1, <3>2
    <3>3. CASE c.event = d.event
      <4>1. q = p /\ c = d
        BY <1>1, <1>6, <2>4, <3>1, <3>3, SoleDelivery
      <4>. QED BY <2>1, <2>4, <4>1
    <3>. QED BY <3>2, <3>3
  <2>. QED BY <2>1, <2>3, <2>4, LeaseFrame
<1>. QED BY <1>2, <1>3, <1>4, <1>5, <1>6 DEF Next, PollerNext

(* An event that is neither served nor parked, and that has lived long     *)
(* enough for its attempts or will have when its wait is over.             *)
Endures(e) ==
    /\ row[e].attempts < MaxAttempts
    /\ \/ age[e] >= Endurance
       \/ age[e] >= endured[row[e].attempts]
       \/ ~Held(e) /\ age[e] + row[e].wait >= endured[row[e].attempts]

(* An event whose row and age stay, and that nobody newly holds, keeps its *)
(* part of AgeInv.                                                         *)
LEMMA AgeFrame ==
  ASSUME AgeInv, NEW e \in Event, e \notin late, row'[e] = row[e], age'[e] = age[e],
         \A q \in Poller : Holds(q, e)' => Holds(q, e)
  PROVE  (row'[e].dead => age'[e] >= Endurance) /\ (Live(e)' => Endures(e)')
<1>1. (row[e].dead => age[e] >= Endurance) /\ (Live(e) => Endures(e))
  BY DEF AgeInv, Endures
<1>2. Live(e)' = Live(e)
  BY DEF Live
<1>3. Held(e)' => Held(e)
  BY DEF Held
<1>. QED BY <1>1, <1>2, <1>3 DEF Endures

(* No step uses up attempts faster than the backoffs allow: a live event   *)
(* has lived as long as its attempts account for, or will have when its    *)
(* wait is over (poller.go fail, backoff).                                 *)
LEMMA AgeStep ==
  ASSUME CountInv, LeaseInv, AgeInv, Next
  PROVE  AgeInv'
<1>1. TypeOK /\ TypeOK' /\ BatchInv
  BY TypeStep DEF CountInv
<1>2. Endurance \in Nat /\ endured \in [Nat -> Nat] /\ endured[0] = 0 /\ MaxAttempts \in Nat \ {0}
  BY EnduranceType, EnduredStep, OutboxAssumption
<1>. SUFFICES ASSUME NEW e \in Event, e \notin late'
              PROVE  (row'[e].dead => age'[e] >= Endurance) /\ (Live(e)' => Endures(e)')
  BY DEF AgeInv, Endures
<1>3. e \notin late
  BY DEF Next, PollerNext, Tick, Append, Claim, StopPoller, Exit, Start, Succeed, Fail, Abandon, ghostVars
<1>4. row[e].attempts \in Nat /\ row[e].wait \in Nat /\ age[e] \in Nat
  BY <1>1, RowTypes
<1>5. (row[e].dead => age[e] >= Endurance) /\ (Live(e) => Endures(e))
  BY <1>3 DEF AgeInv, Endures
<1>6. CASE Tick
  <2>1. /\ row'[e].present = row[e].present
        /\ row'[e].published = row[e].published
        /\ row'[e].dead = row[e].dead
        /\ row'[e].attempts = row[e].attempts
        /\ Live(e) => row'[e].wait = Less(row[e].wait)
        /\ \A p \in Poller : poller'[p].batch = poller[p].batch
    BY <1>1, <1>6, TickEffect
  <2>2. age'[e] = IF Ageing(e) THEN age[e] + 1 ELSE age[e]
    BY <1>6 DEF Tick
  <2>3. row'[e].dead => age'[e] >= Endurance
    BY <1>2, <1>4, <1>5, <2>1, <2>2
  <2>4. ASSUME Live(e)' PROVE Endures(e)'
    <3>1. Live(e) /\ Endures(e) /\ row'[e].wait = Less(row[e].wait)
      BY <1>5, <2>1, <2>4 DEF Live
    <3>2. Held(e)' = Held(e)
      BY <2>1 DEF Held, Holds
    <3>3. CASE row[e].attempts = 0
      <4>1. row'[e].attempts < MaxAttempts /\ endured[row'[e].attempts] = 0
        BY <1>2, <2>1, <3>3
      <4>2. age'[e] >= 0
        BY <1>4, <2>2
      <4>. QED BY <4>1, <4>2 DEF Endures
    <3>4. CASE row[e].attempts # 0
      <4>1. age[e] < Endurance => age'[e] = age[e] + 1
        BY <1>3, <1>4, <2>2, <3>1, <3>4 DEF Ageing
      <4>2. age'[e] = age[e] \/ age'[e] = age[e] + 1
        BY <2>2
      <4>3. endured[row[e].attempts] \in Nat
        BY <1>2, <1>4
      <4>4. age[e] >= Endurance => age'[e] >= Endurance
        BY <1>2, <1>4, <4>2
      <4>5. age[e] >= endured[row[e].attempts] => age'[e] >= endured[row[e].attempts]
        BY <1>4, <4>2, <4>3
      <4>6. age[e] + row[e].wait >= endured[row[e].attempts] =>
              age[e] >= Endurance \/ age'[e] + row'[e].wait >= endured[row[e].attempts]
        BY <1>2, <1>4, <3>1, <4>1, <4>3 DEF Less
      <4>. QED BY <2>1, <3>1, <3>2, <4>4, <4>5, <4>6 DEF Endures
    <3>. QED BY <3>3, <3>4
  <2>. QED BY <2>3, <2>4
<1>7. ASSUME NEW f \in Event, Append(f)
      PROVE  (row'[e].dead => age'[e] >= Endurance) /\ (Live(e)' => Endures(e)')
  <2>1. /\ poller' = poller /\ age' = age /\ row'[f] = NewRow
        /\ \A g \in Event \ {f} : row'[g] = row[g]
    BY <1>1, <1>7 DEF Append, ghostVars, TypeOK
  <2>2. CASE e = f
    <3>1. row'[e].attempts = 0 /\ ~row'[e].dead
      BY <2>1, <2>2 DEF NewRow
    <3>2. row'[e].attempts < MaxAttempts /\ age'[e] >= endured[row'[e].attempts]
      BY <1>2, <1>4, <2>1, <3>1
    <3>. QED BY <3>1, <3>2 DEF Endures
  <2>3. CASE e # f
    <3>1. row'[e] = row[e] /\ \A q \in Poller : Holds(q, e)' => Holds(q, e)
      BY <2>1, <2>3 DEF Holds
    <3>. QED BY <1>3, <2>1, <3>1, AgeFrame
  <2>. QED BY <2>2, <2>3
<1>8. ASSUME NEW p \in Poller, Claim(p)
      PROVE  (row'[e].dead => age'[e] >= Endurance) /\ (Live(e)' => Endures(e)')
  <2>1. PICK S \in SUBSET Event : Claimed(p, S)
    BY <1>1, <1>8, ClaimEffect
  <2>. USE DEF Claimed
  <2>2. age' = age
    BY <1>8 DEF Claim, ghostVars
  <2>3. CASE e \in S
    <3>1. Live(e) /\ row[e].wait = 0
      BY <2>1, <2>3 DEF Due
    <3>2. row'[e].attempts = row[e].attempts /\ row'[e].dead = row[e].dead
      BY <2>1, <2>3
    <3>3. row[e].attempts < MaxAttempts /\ endured[row[e].attempts] \in Nat
      BY <1>2, <1>4, <1>5, <3>1 DEF Endures
    <3>4. age[e] >= Endurance \/ age[e] >= endured[row[e].attempts]
      BY <1>4, <1>5, <3>1, <3>3 DEF Endures
    <3>. QED BY <1>5, <2>2, <3>2, <3>3, <3>4 DEF Endures
  <2>4. CASE e \notin S
    <3>1. \A q \in Poller : Holds(q, e)' => Holds(q, e)
      BY <2>1, <2>4 DEF Holds
    <3>. QED BY <1>3, <2>1, <2>2, <2>4, <3>1, AgeFrame
  <2>. QED BY <2>3, <2>4
<1>9. ASSUME NEW p \in Poller, StopPoller(p) \/ Exit(p) \/ Start(p)
      PROVE  (row'[e].dead => age'[e] >= Endurance) /\ (Live(e)' => Endures(e)')
  <2>1. /\ row' = row /\ age' = age
        /\ \A q \in Poller : poller'[q].batch \subseteq poller[q].batch
    BY <1>1, <1>9, LifeEffect
  <2>2. \A q \in Poller : Holds(q, e)' => Holds(q, e)
    BY <2>1 DEF Holds
  <2>. QED BY <1>3, <2>1, <2>2, AgeFrame
<1>10. ASSUME NEW p \in Poller, NEW d \in poller[p].batch, Succeed(p, d) \/ Fail(p, d) \/ Abandon(p, d)
       PROVE  (row'[e].dead => age'[e] >= Endurance) /\ (Live(e)' => Endures(e)')
  <2>1. /\ poller'[p].batch = poller[p].batch \ {d}
        /\ \A q \in Poller : poller'[q].batch \subseteq poller[q].batch
    BY <1>1, <1>10, DoneShrinks DEF Succeed, Fail, Abandon
  <2>2. age' = age
    BY <1>10 DEF Succeed, Fail, Abandon, ghostVars
  <2>3. \A q \in Poller : Holds(q, e)' => Holds(q, e)
    BY <2>1 DEF Holds
  <2>4. CASE row'[e] = row[e]
    BY <1>3, <2>2, <2>3, <2>4, AgeFrame
  <2>5. CASE row'[e] # row[e]
    <3>1. d.event = e /\ d.att \in Nat
      BY <1>1, <1>10, <2>5, SucceedEffect, FailEffect DEF Abandon
    <3>2. Live(e) /\ d.att = row[e].attempts
      BY <1>3, <1>10, <3>1 DEF LeaseInv
    <3>3. Held(e)
      BY <1>10, <3>1 DEF Held, Holds
    <3>4. /\ row[e].attempts < MaxAttempts
          /\ age[e] >= Endurance \/ age[e] >= endured[row[e].attempts]
      BY <1>5, <3>2, <3>3 DEF Endures
    <3>5. ~Held(e)'
      <4>. SUFFICES ASSUME NEW q \in Poller, NEW c \in poller'[q].batch, c.event = e PROVE FALSE
        BY DEF Held, Holds
      <4>1. c \in poller[q].batch
        BY <2>1
      <4>2. q = p /\ c = d
        BY <1>1, <1>3, <1>10, <3>1, <4>1, SoleDelivery
      <4>. QED BY <2>1, <4>2
    <3>6. CASE Succeed(p, d)
      <4>1. row'[e].published /\ row'[e].dead = row[e].dead
        BY <1>1, <1>10, <2>5, <3>1, <3>6, SucceedEffect
      <4>. QED BY <1>5, <2>2, <4>1 DEF Live
    <3>7. CASE Fail(p, d)
      <4>1. \/ /\ d.att + 1 >= MaxAttempts
               /\ row'[e].dead
            \/ /\ d.att + 1 < MaxAttempts
               /\ row'[e].attempts = row[e].attempts + 1
               /\ row'[e].dead = row[e].dead
               /\ row'[e].wait = backoff(d.att + 1)
        BY <1>1, <1>10, <2>5, <3>1, <3>7, FailEffect
      <4>2. CASE d.att + 1 >= MaxAttempts /\ row'[e].dead
        <5>1. row[e].attempts = MaxAttempts - 1
          BY <1>2, <1>4, <3>2, <3>4, <4>2
        <5>2. age[e] >= Endurance
          BY <1>2, <1>4, <3>4, <5>1 DEF Endurance
        <5>. QED BY <2>2, <4>2, <5>2 DEF Live
      <4>3. CASE /\ d.att + 1 < MaxAttempts
                 /\ row'[e].attempts = row[e].attempts + 1
                 /\ row'[e].dead = row[e].dead
                 /\ row'[e].wait = backoff(d.att + 1)
        <5>1. ~row'[e].dead
          BY <3>2, <4>3 DEF Live
        <5>2. row'[e].attempts < MaxAttempts /\ row'[e].wait = backoff(row[e].attempts + 1)
          BY <3>2, <4>3
        <5>3. endured[row'[e].attempts] = endured[row[e].attempts] + row'[e].wait
          BY <1>4, <4>3, <5>2, EnduredStep
        <5>4. endured[row[e].attempts] \in Nat /\ row'[e].wait \in Nat
          <6>1. row'[e] \in Row
            BY <1>1 DEF TypeOK
          <6>2. row'[e].wait \in 0 .. Max({Lease, MaxBackoff})
            BY <6>1, Zenon DEF Row
          <6>. QED BY <1>2, <1>4, <6>2, WaitBound
        <5>5. age[e] >= Endurance \/ age'[e] + row'[e].wait >= endured[row'[e].attempts]
          BY <1>4, <2>2, <3>4, <5>3, <5>4
        <5>. QED BY <2>2, <3>5, <5>1, <5>2, <5>5 DEF Endures
      <4>. QED BY <4>1, <4>2, <4>3
    <3>8. ~Abandon(p, d)
      BY <2>5 DEF Abandon
    <3>. QED BY <1>10, <3>6, <3>7, <3>8
  <2>. QED BY <2>4, <2>5
<1>. QED BY <1>6, <1>7, <1>8, <1>9, <1>10 DEF Next, PollerNext

(* The invariant of the outbox holds in every state.                       *)
LEMMA OutboxAlways == Spec => []OutboxInv
<1>1. Init => OutboxInv
  <2>. SUFFICES ASSUME Init PROVE OutboxInv
    OBVIOUS
  <2>1. BatchInv /\ LeaseInv
    BY DEF Init, BatchInv, LeaseInv, Fresh
  <2>2. FailureInv /\ AgeInv
    <3>1. \A e \in Event : ~row[e].dead /\ ~Live(e) /\ row[e].attempts = 0 /\ failures[e] = 0
      BY DEF Init, NewRow, Live
    <3>. QED BY <3>1, OutboxAssumption DEF FailureInv, AgeInv
  <2>. QED BY <2>1, <2>2, TypeInit DEF OutboxInv, CountInv
<1>2. OutboxInv /\ [Next]_vars => OutboxInv'
  <2>. SUFFICES ASSUME OutboxInv, [Next]_vars PROVE OutboxInv'
    OBVIOUS
  <2>1. CASE Next
    BY <2>1, CountStep, LeaseStep, AgeStep DEF OutboxInv
  <2>2. CASE UNCHANGED vars
    <3>1. CountInv'
      BY <2>2 DEF OutboxInv, CountInv, TypeOK, BatchInv, FailureInv, vars
    <3>2. LeaseInv'
      BY <2>2 DEF OutboxInv, LeaseInv, Live, Holds, vars
    <3>3. AgeInv'
      BY <2>2 DEF OutboxInv, AgeInv, Live, Held, Holds, vars
    <3>. QED BY <3>1, <3>2, <3>3 DEF OutboxInv
  <2>. QED BY <2>1, <2>2
<1>. QED BY <1>1, <1>2, PTL DEF Spec

(* Two pollers never work on one event while every worker finishes within  *)
(* its lease, whatever crashes, shutdowns and lost writes happen           *)
(* (poller.go: Lease; ClaimOutboxBatch).                                   *)
THEOREM HeldOnce == Spec => []OneHolder
<1>1. OutboxInv => OneHolder
  <2>. SUFFICES ASSUME OutboxInv, NEW e \in Event \ late, NEW p \in Poller, NEW q \in Poller,
                       Holds(p, e), Holds(q, e)
                PROVE  p = q
    BY DEF OneHolder
  <2>1. PICK d \in poller[p].batch : d.event = e
    BY DEF Holds
  <2>. QED BY <2>1 DEF OutboxInv, LeaseInv
<1>. QED BY <1>1, OutboxAlways, PTL

(* No event is parked before its handler has failed for as long as the sum *)
(* of the backoffs, computed from the formula in the comment of backoff,   *)
(* while workers keep their leases (poller.go: fail, backoff).             *)
THEOREM OutagesSurvived == Spec => []OutageSurvived
<1>1. OutboxInv => OutageSurvived
  BY DEF OutboxInv, AgeInv, OutageSurvived
<1>. QED BY <1>1, OutboxAlways, PTL
-----------------------------------------------------------------------------
(* The refinement mapping of DeliversLikeQueue, by name.                   *)
Marks == [e \in Event |-> Mark(row[e])]
Attempts == [e \in Event |-> row[e].attempts]
Record(p, d) == [worker |-> p, event |-> d.event, att |-> d.att]
Taken == UNION {{[worker |-> p, event |-> d.event, att |-> d.att] : d \in poller[p].batch}
                : p \in Poller}

(* The deliveries under way are those of the batches.                      *)
LEMMA TakenIs == \A x : x \in Taken <=> \E p \in Poller : \E d \in poller[p].batch : x = Record(p, d)
BY DEF Taken, Record

(* ... after a step as well.                                               *)
LEMMA TakenIsNext ==
  \A x : x \in Taken' <=> \E p \in Poller : \E d \in poller'[p].batch : x = Record(p, d)
BY DEF Taken, Record

(* A delivery under way is of one poller and one entry of its batch.       *)
LEMMA RecordOne ==
  ASSUME NEW p, NEW q, NEW c \in Delivery, NEW d \in Delivery, Record(p, d) = Record(q, c)
  PROVE  p = q /\ d = c
<1>1. /\ Record(p, d).worker = p /\ Record(p, d).event = d.event /\ Record(p, d).att = d.att
      /\ Record(q, c).worker = q /\ Record(q, c).event = c.event /\ Record(q, c).att = c.att
  BY DEF Record
<1>2. p = q /\ d.event = c.event /\ d.att = c.att
  BY <1>1
<1>. QED BY <1>2 DEF Delivery

(* The end of a delivery takes it out of the queue's deliveries.           *)
LEMMA TakenDone ==
  ASSUME TypeOK, NEW p \in Poller, NEW d \in poller[p].batch, Done(p, d)
  PROVE  Taken' = Taken \ {Record(p, d)} /\ Record(p, d) \in Taken
<1>1. /\ poller'[p].batch = poller[p].batch \ {d}
      /\ \A q \in Poller \ {p} : poller'[q] = poller[q]
  BY DoneShrinks
<1>2. \A q \in Poller : \A c \in poller[q].batch : c \in Delivery
  BY DEF TypeOK, PollerState
<1>3. Record(p, d) \in Taken
  BY TakenIs
<1>4. ASSUME NEW x \in Taken' PROVE x \in Taken \ {Record(p, d)}
  <2>1. PICK q \in Poller : \E c \in poller'[q].batch : x = Record(q, c)
    BY TakenIsNext
  <2>1a. PICK c \in poller'[q].batch : x = Record(q, c)
    BY <2>1
  <2>2. c \in poller[q].batch /\ ~(q = p /\ c = d)
    BY <1>1, <2>1a
  <2>3. x # Record(p, d)
    BY <1>2, <2>1a, <2>2, RecordOne
  <2>. QED BY <2>1a, <2>2, <2>3, TakenIs
<1>5. ASSUME NEW x \in Taken \ {Record(p, d)} PROVE x \in Taken'
  <2>1. PICK q \in Poller : \E c \in poller[q].batch : x = Record(q, c)
    BY TakenIs
  <2>1a. PICK c \in poller[q].batch : x = Record(q, c)
    BY <2>1
  <2>2. c \in poller'[q].batch
    BY <1>1, <2>1a
  <2>. QED BY <2>1a, <2>2, TakenIsNext
<1>. QED BY <1>3, <1>4, <1>5

(* The queue's view of a table that keeps its marks and attempts.          *)
LEMMA SameView ==
  ASSUME \A e \in Event : /\ row'[e].present = row[e].present
                          /\ row'[e].published = row[e].published
                          /\ row'[e].dead = row[e].dead
                          /\ row'[e].attempts = row[e].attempts
  PROVE  Marks' = Marks /\ Attempts' = Attempts
<1>1. \A e \in Event : Mark(row[e])' = Mark(row[e])
  BY DEF Mark
<1>. QED BY <1>1 DEF Marks, Attempts

(* A claim takes what it found due: Take.                                  *)
LEMMA ClaimTakes ==
  ASSUME TypeOK, NEW p \in Poller, Claim(p)
  PROVE  \E S \in SUBSET Event : Queue!Take(p, S)
<1>1. PICK S \in SUBSET Event : Claimed(p, S)
  BY ClaimEffect
<1>. USE DEF Claimed
<1>. DEFINE D == {[worker |-> p, event |-> e, att |-> Attempts[e]] : e \in S}
<1>2. Marks' = Marks /\ Attempts' = Attempts
  BY <1>1, SameView
<1>3. \A e \in S : e \in Event /\ Marks[e] = "live" /\ Attempts[e] = row[e].attempts
  BY <1>1 DEF Due, Live, Marks, Mark, Attempts
<1>5. ASSUME NEW x \in Taken' PROVE x \in Taken \cup D
  <2>1. PICK q \in Poller : \E c \in poller'[q].batch : x = Record(q, c)
    BY TakenIsNext
  <2>2. PICK c \in poller'[q].batch : x = Record(q, c)
    BY <2>1
  <2>3. CASE q = p
    <3>1. PICK e \in S : c = [event |-> e, att |-> row[e].attempts]
      BY <1>1, <2>2, <2>3
    <3>2. x = [worker |-> p, event |-> e, att |-> Attempts[e]]
      BY <1>3, <2>2, <2>3, <3>1 DEF Record
    <3>. QED BY <3>2
  <2>4. CASE q # p
    BY <1>1, <2>2, <2>4, TakenIs
  <2>. QED BY <2>3, <2>4
<1>6. ASSUME NEW x \in Taken PROVE x \in Taken'
  <2>1. PICK q \in Poller : \E c \in poller[q].batch : x = Record(q, c)
    BY TakenIs
  <2>2. q # p
    BY <1>1, <2>1
  <2>. QED BY <1>1, <2>1, <2>2, TakenIsNext
<1>7. ASSUME NEW x \in D PROVE x \in Taken'
  <2>1. PICK e \in S : x = [worker |-> p, event |-> e, att |-> Attempts[e]]
    OBVIOUS
  <2>. DEFINE c == [event |-> e, att |-> row[e].attempts]
  <2>2. c \in poller'[p].batch /\ x = Record(p, c)
    BY <1>1, <1>3, <2>1 DEF Record
  <2>. QED BY <2>2, TakenIsNext
<1>8. Taken' = Taken \cup D
  BY <1>5, <1>6, <1>7
<1>9. Queue!Take(p, S)
  BY <1>2, <1>3, <1>8 DEF Queue!Take, Marks, Attempts, Taken
<1>. QED BY <1>9

(* A delivery that ends is acknowledged, retried or parked, or dropped if  *)
(* nothing was written.                                                    *)
LEMMA DeliveryEnds ==
  ASSUME TypeOK, BatchInv, NEW p \in Poller, NEW d \in poller[p].batch,
         Succeed(p, d) \/ Fail(p, d) \/ Abandon(p, d)
  PROVE  LET r == Record(p, d)
         IN  r \in Taken /\ (Queue!Ack(r) \/ Queue!Retry(r) \/ Queue!Park(r) \/ Queue!Drop({r}))
<1>. DEFINE r == Record(p, d)
            e == d.event
<1>1. Taken' = Taken \ {r} /\ r \in Taken
  BY TakenDone DEF Succeed, Fail, Abandon
<1>2. r.event = e /\ r.att = d.att /\ row[e].present
  BY DEF Record, BatchInv
<1>3. e \in Event /\ d.att \in Nat
  BY BatchType
<1>. HIDE DEF r, e
<1>4. CASE row' = row
  <2>1. Marks' = Marks /\ Attempts' = Attempts
    BY <1>4, SameView
  <2>2. Queue!Drop({r})
    BY <1>1, <2>1 DEF Queue!Drop, Marks, Attempts, Taken
  <2>. QED BY <1>1, <2>2 DEF r
<1>5. CASE Succeed(p, d) /\ row' # row
  <2>1. /\ \A f \in Event \ {e} : row'[f] = row[f]
        /\ row'[e].present = row[e].present /\ row'[e].dead = row[e].dead
        /\ row'[e].attempts = row[e].attempts /\ row'[e].published
    BY <1>5, SucceedEffect DEF e
  <2>2. Attempts' = Attempts
    BY <1>3, <2>1 DEF Attempts
  <2>3. \A f \in Event \ {e} : Mark(row'[f]) = Mark(row[f])
    BY <2>1
  <2>4. Mark(row'[e]) = IF Mark(row[e]) = "parked" THEN "both" ELSE
                        IF Mark(row[e]) = "live" THEN "published" ELSE Mark(row[e])
    BY <1>2, <2>1 DEF Mark
  <2>5. Marks' = [Marks EXCEPT ![e] = IF Marks[e] = "parked" THEN "both" ELSE
                                      IF Marks[e] = "live" THEN "published" ELSE Marks[e]]
    BY <1>3, <2>3, <2>4 DEF Marks
  <2>6. Queue!Ack(r)
    BY <1>1, <1>2, <2>2, <2>5 DEF Queue!Ack, Marks, Attempts, Taken
  <2>. QED BY <1>1, <2>6 DEF r
<1>6. CASE Fail(p, d) /\ row' # row
  <2>1. /\ \A f \in Event \ {e} : row'[f] = row[f]
        /\ row'[e].present = row[e].present /\ row'[e].published = row[e].published
        /\ row'[e].attempts = row[e].attempts + 1
        /\ \/ d.att + 1 >= MaxAttempts /\ row'[e].dead
           \/ d.att + 1 < MaxAttempts /\ row'[e].dead = row[e].dead
    BY <1>6, FailEffect DEF e
  <2>2. Attempts' = [Attempts EXCEPT ![e] = Attempts[e] + 1]
    BY <1>3, <2>1 DEF Attempts
  <2>3. \A f \in Event \ {e} : Mark(row'[f]) = Mark(row[f])
    BY <2>1
  <2>4. CASE d.att + 1 >= MaxAttempts /\ row'[e].dead
    <3>1. Mark(row'[e]) = IF Mark(row[e]) = "published" THEN "both" ELSE
                          IF Mark(row[e]) = "live" THEN "parked" ELSE Mark(row[e])
      BY <1>2, <2>1, <2>4 DEF Mark
    <3>2. Marks' = [Marks EXCEPT ![e] = IF Marks[e] = "published" THEN "both" ELSE
                                        IF Marks[e] = "live" THEN "parked" ELSE Marks[e]]
      BY <1>3, <2>3, <3>1 DEF Marks
    <3>3. Queue!Park(r)
      BY <1>1, <1>2, <2>2, <2>4, <3>2 DEF Queue!Park, Marks, Attempts, Taken
    <3>. QED BY <1>1, <3>3 DEF r
  <2>5. CASE d.att + 1 < MaxAttempts /\ row'[e].dead = row[e].dead
    <3>1. Mark(row'[e]) = Mark(row[e])
      BY <2>1, <2>5 DEF Mark
    <3>2. Marks' = Marks
      BY <2>3, <3>1 DEF Marks
    <3>3. Queue!Retry(r)
      BY <1>1, <1>2, <2>2, <2>5, <3>2 DEF Queue!Retry, Marks, Attempts, Taken
    <3>. QED BY <1>1, <3>3 DEF r
  <2>. QED BY <2>1, <2>4, <2>5
<1>. QED BY <1>4, <1>5, <1>6 DEF Abandon

(* A row that is not yet written has no attempts.                          *)
AbsentInv == \A e \in Event : ~row[e].present => row[e].attempts = 0

(* ... and keeps none until it is written.                                 *)
LEMMA AbsentStep ==
  ASSUME TypeOK, BatchInv, AbsentInv, Next
  PROVE  AbsentInv'
<1>1. CASE Tick
  BY <1>1, TickEffect DEF AbsentInv
<1>2. ASSUME NEW e \in Event, Append(e) PROVE AbsentInv'
  <2>1. row'[e] = NewRow /\ \A f \in Event \ {e} : row'[f] = row[f]
    BY <1>2 DEF Append, TypeOK
  <2>2. row'[e].present
    BY <2>1 DEF NewRow
  <2>. QED BY <2>1, <2>2 DEF AbsentInv
<1>3. ASSUME NEW p \in Poller, Claim(p) PROVE AbsentInv'
  <2>1. \E S \in SUBSET Event :
          /\ \A e \in S : row'[e].present = row[e].present /\ row'[e].attempts = row[e].attempts
          /\ \A e \in Event \ S : row'[e] = row[e]
    <3>1. PICK S \in SUBSET Event : Claimed(p, S)
      BY <1>3, ClaimEffect
    <3>. QED BY <3>1 DEF Claimed
  <2>. QED BY <2>1 DEF AbsentInv
<1>4. ASSUME NEW p \in Poller, StopPoller(p) \/ Exit(p) \/ Start(p) PROVE AbsentInv'
  <2>1. row' = row
    BY <1>4 DEF StopPoller, Exit, Start
  <2>. QED BY <2>1 DEF AbsentInv
<1>5. ASSUME NEW p \in Poller, NEW d \in poller[p].batch, Succeed(p, d) \/ Fail(p, d) \/ Abandon(p, d)
      PROVE  AbsentInv'
  <2>1. row[d.event].present
    BY <1>5 DEF BatchInv
  <2>2. /\ \A e \in Event \ {d.event} : row'[e] = row[e]
        /\ row'[d.event].present = row[d.event].present
    BY <1>5, SucceedEffect, FailEffect DEF Abandon
  <2>. QED BY <2>1, <2>2 DEF AbsentInv
<1>. QED BY <1>1, <1>2, <1>3, <1>4, <1>5 DEF Next, PollerNext

(* Every step of the pollers is a step of the queue, or none.              *)
LEMMA QueueStep == TypeOK /\ BatchInv /\ AbsentInv /\ [Next]_vars => [Queue!Next]_(Queue!vars)
<1>. SUFFICES ASSUME TypeOK, BatchInv, AbsentInv, [Next]_vars PROVE Queue!Next \/ UNCHANGED <<Marks, Attempts, Taken>>
  BY DEF Queue!vars, Marks, Attempts, Taken
<1>1. CASE UNCHANGED vars
  BY <1>1 DEF vars, Marks, Attempts, Taken
<1>2. CASE Tick
  <2>1. /\ \A e \in Event : /\ row'[e].present = row[e].present
                            /\ row'[e].published = row[e].published
                            /\ row'[e].dead = row[e].dead
                            /\ row'[e].attempts = row[e].attempts
        /\ \A p \in Poller : poller'[p].batch = poller[p].batch
    BY <1>2, TickEffect
  <2>2. Marks' = Marks /\ Attempts' = Attempts
    BY <2>1, SameView
  <2>3. \A x : x \in Taken' <=> x \in Taken
    BY <2>1, TakenIs, TakenIsNext
  <2>. QED BY <2>2, <2>3
<1>3. ASSUME NEW e \in Event, Append(e) PROVE Queue!Next
  <2>1. /\ ~row[e].present /\ poller' = poller /\ row'[e] = NewRow
        /\ \A f \in Event \ {e} : row'[f] = row[f]
    BY <1>3 DEF Append, TypeOK
  <2>2. Mark(row[e]) = "absent" /\ Mark(row'[e]) = "live" /\ row'[e].attempts = 0
    BY <2>1 DEF Mark, NewRow
  <2>3. row[e].attempts = 0
    BY <2>1 DEF AbsentInv
  <2>4. Marks[e] = "absent" /\ Marks' = [Marks EXCEPT ![e] = "live"]
    <3>1. \A f \in Event \ {e} : Mark(row'[f]) = Mark(row[f])
      BY <2>1
    <3>. QED BY <2>2, <3>1 DEF Marks
  <2>5. Attempts' = Attempts
    BY <2>1, <2>2, <2>3 DEF Attempts
  <2>6. Taken' = Taken
    BY <2>1 DEF Taken
  <2>7. Queue!Append(e)
    BY <2>4, <2>5, <2>6 DEF Queue!Append, Marks, Attempts, Taken
  <2>. QED BY <2>7 DEF Queue!Next
<1>4. ASSUME NEW p \in Poller, Claim(p) PROVE Queue!Next
  <2>1. \E S \in SUBSET Event : Queue!Take(p, S)
    BY <1>4, ClaimTakes
  <2>. QED BY <2>1 DEF Queue!Next
<1>5. ASSUME NEW p \in Poller, StopPoller(p) \/ Exit(p) \/ Start(p) PROVE Queue!Next
  <2>1. /\ row' = row
        /\ \A q \in Poller : poller'[q].batch \subseteq poller[q].batch
    BY <1>5, LifeEffect
  <2>2. Marks' = Marks /\ Attempts' = Attempts
    BY <2>1, SameView
  <2>3. Taken' \subseteq Taken
    BY <2>1, TakenIs, TakenIsNext
  <2>4. PICK D : D \in SUBSET Taken /\ Taken' = Taken \ D
    <3>1. Taken' = Taken \ (Taken \ Taken')
      BY <2>3
    <3>. QED BY <3>1
  <2>5. Queue!Drop(D)
    BY <2>2, <2>4 DEF Queue!Drop, Marks, Attempts, Taken
  <2>6. \E E \in SUBSET Taken : Queue!Drop(E)
    <3>. HIDE DEF Taken
    <3>. QED BY <2>4, <2>5
  <2>. QED BY <2>6, Zenon DEF Queue!Next, Taken
<1>6. ASSUME NEW p \in Poller, NEW d \in poller[p].batch, Succeed(p, d) \/ Fail(p, d) \/ Abandon(p, d)
      PROVE  Queue!Next
  <2>. DEFINE r == Record(p, d)
  <2>1. r \in Taken /\ (Queue!Ack(r) \/ Queue!Retry(r) \/ Queue!Park(r) \/ Queue!Drop({r}))
    BY <1>6, DeliveryEnds
  <2>2. {r} \in SUBSET Taken
    BY <2>1
  <2>. HIDE DEF r
  <2>. QED BY <2>1, <2>2 DEF Queue!Next, Taken
<1>. QED BY <1>1, <1>2, <1>3, <1>4, <1>5, <1>6 DEF Next, PollerNext

(* The outbox with its clock, leases, batches and backoff delivers by the  *)
(* rules module Switch assumes of it: a live event may be delivered, by    *)
(* several workers at once, until a delivery publishes or parks it, and a  *)
(* crash, a shutdown or a lost write leaves no trace (poller.go).          *)
THEOREM QueueKept == Spec => DeliversLikeQueue
<1>1. Init => Queue!Init
  <2>. SUFFICES ASSUME Init PROVE Queue!Init
    OBVIOUS
  <2>1. \A e \in Event : ~row[e].present /\ row[e].attempts = 0
    BY DEF Init, NewRow
  <2>2. Marks = [e \in Event |-> "absent"] /\ Attempts = [e \in Event |-> 0]
    BY <2>1 DEF Marks, Mark, Attempts
  <2>3. \A p \in Poller : poller[p].batch = {}
    BY DEF Init, Fresh
  <2>4. Taken = {}
    BY <2>3, TakenIs
  <2>. QED BY <2>2, <2>4 DEF Queue!Init, Marks, Attempts, Taken
<1>2. Init => AbsentInv
  BY DEF Init, AbsentInv, NewRow
<1>3. CountInv /\ AbsentInv /\ [Next]_vars => AbsentInv'
  <2>1. AbsentInv /\ UNCHANGED vars => AbsentInv'
    BY DEF AbsentInv, vars
  <2>. QED BY <2>1, AbsentStep DEF CountInv
<1>4. CountInv /\ AbsentInv /\ [Next]_vars => [Queue!Next]_(Queue!vars)
  BY QueueStep DEF CountInv
<1>. QED BY <1>1, <1>2, <1>3, <1>4, CountAlways, PTL DEF Spec, DeliversLikeQueue, Queue!Spec

=============================================================================

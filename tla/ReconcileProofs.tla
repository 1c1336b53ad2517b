-------------------------- MODULE ReconcileProofs --------------------------
(***************************************************************************)
(* Proofs about module Reconcile, for any files, jobs, faults and          *)
(* tolerance: what the matcher has counted after each row, that the stable *)
(* sort only puts the exceptions in order, and what a job has fed back and *)
(* recorded. The report is determined by the records of the two files.     *)
(***************************************************************************)
EXTENDS Reconcile, FiniteSetTheorems, SequenceTheorems, TLAPS

Cats == {"amount_mismatch", "duplicate", "pending_reversal",
         "unmatched_external", "unmatched_internal"}

Gaps == [category: Cats, ref: Ref, int: Seq(Record), ext: Seq(Record), delta: Int]

(* What Match and the index make of two files: the references in both, in  *)
(* one of them only, those whose records agree, and what is owed.          *)
Both(f) == {r \in Indexed(f.internal) : Rows(f.external, r) # {}}
Missing(f) == Indexed(f.internal) \ Both(f)
Foreign(f) == {r \in Ref : Rows(f.external, r) # {}} \ Indexed(f.internal)

Agreed(f) == {r \in Both(f) : Agree(EntryOf(f.internal, r), FirstOf(f.external, r))}

Owed(f) ==
    {r \in Missing(f) : /\ EntryOf(f.internal, r).type = "transfer"
                        /\ EntryOf(f.internal, r).status \in {"failed", "timed_out"}
                        /\ r \notin settledReversals(f.internal)}

Has(r, S) == IF r \in S THEN 1 ELSE 0

Computed(f, r) ==
    [amount_mismatch    |-> Has(r, Both(f) \ Agreed(f)),
     duplicate          |-> IF Rows(f.external, r) = {} THEN 0
                              ELSE Cardinality(Rows(f.external, r)) - 1,
     pending_reversal   |-> Has(r, Owed(f)),
     unmatched_external |-> Has(r, Foreign(f)),
     unmatched_internal |-> Has(r, Missing(f) \ Owed(f))]

Computes(f, n, ex) ==
    /\ n = Cardinality(Agreed(f))
    /\ \A r \in Ref : \A c \in DOMAIN Computed(f, r) :
         Cardinality({k \in DOMAIN ex : ex[k].category = c /\ ex[k].ref = r}) = Computed(f, r)[c]
    /\ \A k, l \in DOMAIN ex : k < l => ~Before(ex[l], ex[k])
-----------------------------------------------------------------------------
(* Finite sets.                                                            *)

(* A set that holds 0 and the successor of each of its numbers holds every *)
(* number.                                                                 *)
LEMMA CountingUp ==
  ASSUME NEW T, 0 \in T, \A n \in Nat : n \in T => n + 1 \in T
  PROVE  \A n \in Nat : n \in T
<1>. DEFINE R == {ss \in Nat \X Nat : ss[1] < ss[2]}
            B == Nat \ T
<1>1. IsWellFoundedOn(R, Nat)
  BY NatLessThanWellFounded DEF OpToRel
<1>2. \A x, y \in Nat : x < y => <<x, y>> \in R
  OBVIOUS
<1>3. SUFFICES ASSUME B # {} PROVE FALSE
  OBVIOUS
<1>4. B \subseteq Nat
  OBVIOUS
<1>. HIDE DEF R
<1>5. PICK x \in B : \A y \in B : ~(<<y, x>> \in R)
  <2>. HIDE DEF B
  <2>. QED BY <1>1, <1>3, <1>4, WFMin
<1>6. x \in Nat /\ x # 0
  OBVIOUS
<1>7. x - 1 \in Nat /\ x - 1 < x /\ (x - 1) + 1 = x
  BY <1>6
<1>8. x - 1 \notin B
  BY <1>5, <1>7, <1>2, <1>6
<1>. QED BY <1>5, <1>7, <1>8

(* A set of row numbers has a first and a last one.                        *)
LEMMA Extremes ==
  ASSUME NEW n \in Nat, NEW s \in SUBSET (1 .. n), s # {}
  PROVE  /\ \E k \in s : \A l \in s : k <= l
         /\ \E k \in s : \A l \in s : l <= k
<1>. DEFINE T == {m \in Nat : \A u \in SUBSET (1 .. m) : u # {} =>
                    /\ \E k \in u : \A l \in u : k <= l
                    /\ \E k \in u : \A l \in u : l <= k}
<1>1. 0 \in T
  <2>1. 1 .. 0 = {}
    OBVIOUS
  <2>. QED BY <2>1
<1>2. ASSUME NEW m \in Nat, m \in T PROVE m + 1 \in T
  <2>. SUFFICES ASSUME NEW u \in SUBSET (1 .. m + 1), u # {}
                PROVE  /\ \E k \in u : \A l \in u : k <= l
                       /\ \E k \in u : \A l \in u : l <= k
    OBVIOUS
  <2>1. CASE m + 1 \notin u
    <3>1. u \in SUBSET (1 .. m)
      BY <2>1
    <3>. QED BY <1>2, <3>1
  <2>2. CASE u = {m + 1}
    BY <2>2
  <2>3. CASE m + 1 \in u /\ u # {m + 1}
    <3>. DEFINE v == u \ {m + 1}
    <3>1. v \in SUBSET (1 .. m) /\ v # {}
      BY <2>3
    <3>2. PICK k \in v : \A l \in v : k <= l
      BY <1>2, <3>1
    <3>3. \A l \in u : k <= l
      BY <3>1, <3>2
    <3>4. \A l \in u : l <= m + 1
      OBVIOUS
    <3>. QED BY <2>3, <3>2, <3>3, <3>4
  <2>. QED BY <2>1, <2>2, <2>3
<1>. HIDE DEF T
<1>3. n \in T
  BY <1>1, <1>2, CountingUp
<1>. QED BY <1>3 DEF T
-----------------------------------------------------------------------------
(* The order of the exceptions.                                            *)

(* The rank of a category is its place in the list.                        *)
LEMMA Ranks ==
  /\ RankOf("amount_mismatch") = 1 /\ RankOf("duplicate") = 2 /\ RankOf("pending_reversal") = 3
  /\ RankOf("unmatched_external") = 4 /\ RankOf("unmatched_internal") = 5
<1>1. /\ DOMAIN Category = 1 .. 5
      /\ Category[1] = "amount_mismatch" /\ Category[2] = "duplicate"
      /\ Category[3] = "pending_reversal" /\ Category[4] = "unmatched_external"
      /\ Category[5] = "unmatched_internal"
  BY DEF Category
<1>2. \A k \in 1 .. 5 : k = 1 \/ k = 2 \/ k = 3 \/ k = 4 \/ k = 5
  OBVIOUS
<1>3. ASSUME NEW c, NEW m \in 1 .. 5, Category[m] = c, \A k \in 1 .. 5 : Category[k] = c => k = m
      PROVE  RankOf(c) = m
  BY <1>1, <1>3 DEF RankOf
<1>4. RankOf("amount_mismatch") = 1
  BY <1>1, <1>2, <1>3
<1>5. RankOf("duplicate") = 2
  BY <1>1, <1>2, <1>3
<1>6. RankOf("pending_reversal") = 3
  BY <1>1, <1>2, <1>3
<1>7. RankOf("unmatched_external") = 4
  BY <1>1, <1>2, <1>3
<1>8. RankOf("unmatched_internal") = 5
  BY <1>1, <1>2, <1>3
<1>. QED BY <1>4, <1>5, <1>6, <1>7, <1>8

(* Different categories have different ranks.                              *)
LEMMA RankInjective ==
  /\ \A c \in Cats : RankOf(c) \in Int
  /\ \A c, d \in Cats : RankOf(c) = RankOf(d) => c = d
BY Ranks DEF Cats

(* The comparison of sortExceptions is a strict weak order.                *)
LEMMA WeakOrder ==
  ASSUME NEW x \in Gaps, NEW y \in Gaps, NEW z \in Gaps
  PROVE  /\ ~Before(x, x)
         /\ Before(x, y) => ~Before(y, x)
         /\ Before(x, y) /\ ~Before(z, y) => Before(x, z)
         /\ ~Before(y, x) /\ Before(y, z) => Before(x, z)
         /\ ~Before(y, x) /\ ~Before(z, y) => ~Before(z, x)
<1>1. /\ x.category \in Cats /\ y.category \in Cats /\ z.category \in Cats
      /\ x.ref \in Nat /\ y.ref \in Nat /\ z.ref \in Nat
      /\ x.delta \in Int /\ y.delta \in Int /\ z.delta \in Int
  BY ReconcileAssumption DEF Gaps
<1>2. /\ RankOf(x.category) \in Int /\ RankOf(y.category) \in Int /\ RankOf(z.category) \in Int
      /\ RankOf(x.category) = RankOf(y.category) <=> x.category = y.category
      /\ RankOf(x.category) = RankOf(z.category) <=> x.category = z.category
      /\ RankOf(y.category) = RankOf(z.category) <=> y.category = z.category
  BY <1>1, RankInjective
<1>. QED BY <1>1, <1>2 DEF Before

(* Exception k comes before exception i in the report; ties keep the order *)
(* in which they were found.                                               *)
Ahead(ex, k, i) == Before(ex[k], ex[i]) \/ (k < i /\ ~Before(ex[i], ex[k]))
AheadOf(ex, i) == {k \in DOMAIN ex : Ahead(ex, k, i)}
Place(ex, i) == 1 + Cardinality(AheadOf(ex, i))

(* The comparison with its ties broken is a strict total order.            *)
LEMMA TotalOrder ==
  ASSUME NEW ex \in Seq(Gaps), NEW i \in DOMAIN ex, NEW j \in DOMAIN ex, NEW k \in DOMAIN ex
  PROVE  /\ ~Ahead(ex, i, i)
         /\ i # j => Ahead(ex, i, j) \/ Ahead(ex, j, i)
         /\ Ahead(ex, i, j) /\ Ahead(ex, j, k) => Ahead(ex, i, k)
         /\ Ahead(ex, i, j) => ~Before(ex[j], ex[i])
<1>1. i \in Nat /\ j \in Nat /\ k \in Nat
  OBVIOUS
<1>2. ex[i] \in Gaps /\ ex[j] \in Gaps /\ ex[k] \in Gaps
  OBVIOUS
<1>3. /\ ~Before(ex[i], ex[i])
      /\ Before(ex[i], ex[j]) => ~Before(ex[j], ex[i])
      /\ Before(ex[i], ex[j]) /\ ~Before(ex[k], ex[j]) => Before(ex[i], ex[k])
      /\ ~Before(ex[j], ex[i]) /\ Before(ex[j], ex[k]) => Before(ex[i], ex[k])
      /\ ~Before(ex[j], ex[i]) /\ ~Before(ex[k], ex[j]) => ~Before(ex[k], ex[i])
  BY <1>2, WeakOrder
<1>4. Before(ex[j], ex[k]) => ~Before(ex[k], ex[j])
  BY <1>2, WeakOrder
<1>. QED BY <1>1, <1>3, <1>4 DEF Ahead

(* Sorting puts the exceptions in order and changes nothing else: it moves *)
(* each of them to a place of its own, and keeps the order of ties.        *)
LEMMA Sorting ==
  ASSUME NEW ex \in Seq(Gaps)
  PROVE  /\ sortExceptions(ex) \in Seq(Gaps)
         /\ DOMAIN sortExceptions(ex) = DOMAIN ex
         /\ \E p \in Bijection(DOMAIN ex, DOMAIN ex) :
              /\ \A m \in DOMAIN ex : sortExceptions(ex)[m] = ex[p[m]]
              /\ \A k, l \in DOMAIN ex : k < l => Ahead(ex, p[k], p[l])
         /\ \A k, l \in DOMAIN ex : k < l =>
              ~Before(sortExceptions(ex)[l], sortExceptions(ex)[k])
<1>. DEFINE D == DOMAIN ex
            n == Len(ex)
            At(m) == CHOOSE i \in D : Place(ex, i) = m
            q == [i \in D |-> Place(ex, i)]
            p == [m \in D |-> At(m)]
            s == sortExceptions(ex)
<1>1. n \in Nat /\ D = 1 .. n /\ \A i \in D : ex[i] \in Gaps
  OBVIOUS
<1>2. s = [m \in D |-> ex[At(m)]]
  BY DEF sortExceptions, Place, AheadOf, Ahead
<1>3. IsFiniteSet(D) /\ Cardinality(D) = n
  BY <1>1, FS_Interval
<1>. HIDE DEF s, D, n
<1>4. ASSUME NEW i \in D PROVE /\ IsFiniteSet(AheadOf(ex, i)) /\ Cardinality(AheadOf(ex, i)) \in Nat
                               /\ Cardinality(AheadOf(ex, i)) <= n - 1
  <2>1. AheadOf(ex, i) \in SUBSET (D \ {i})
    BY TotalOrder DEF AheadOf, D
  <2>2. IsFiniteSet(D \ {i}) /\ Cardinality(D \ {i}) = n - 1
    BY <1>3, FS_RemoveElement
  <2>3. IsFiniteSet(AheadOf(ex, i)) /\ Cardinality(AheadOf(ex, i)) <= n - 1
    BY <2>1, <2>2, FS_Subset
  <2>. QED BY <2>3, FS_CardinalityType
<1>5. ASSUME NEW i \in D, NEW j \in D, Ahead(ex, i, j) PROVE Place(ex, i) < Place(ex, j)
  <2>1. AheadOf(ex, i) \in SUBSET AheadOf(ex, j)
    <3>. SUFFICES ASSUME NEW k \in D, Ahead(ex, k, i) PROVE Ahead(ex, k, j)
      BY DEF AheadOf, D
    <3>. QED BY <1>5, TotalOrder DEF D
  <2>2. i \in AheadOf(ex, j) /\ i \notin AheadOf(ex, i)
    BY <1>5, TotalOrder DEF AheadOf, D
  <2>3. /\ IsFiniteSet(AheadOf(ex, j)) /\ Cardinality(AheadOf(ex, j)) \in Nat
        /\ Cardinality(AheadOf(ex, i)) \in Nat
    BY <1>4
  <2>4. Cardinality(AheadOf(ex, i)) <= Cardinality(AheadOf(ex, j))
    BY <2>1, <2>3, FS_Subset
  <2>5. Cardinality(AheadOf(ex, i)) # Cardinality(AheadOf(ex, j))
    BY <2>1, <2>2, <2>3, FS_Subset
  <2>. QED BY <2>3, <2>4, <2>5 DEF Place
<1>6. \A i \in D : Place(ex, i) \in D
  BY <1>1, <1>4 DEF Place
<1>7. \A i, j \in D : Place(ex, i) = Place(ex, j) => i = j
  <2>. SUFFICES ASSUME NEW i \in D, NEW j \in D, i # j PROVE Place(ex, i) # Place(ex, j)
    OBVIOUS
  <2>1. Place(ex, i) \in Int /\ Place(ex, j) \in Int
    BY <1>1, <1>6
  <2>2. Ahead(ex, i, j) \/ Ahead(ex, j, i)
    BY TotalOrder DEF D
  <2>. QED BY <1>5, <2>1, <2>2
<1>8. \A m \in D : \E i \in D : Place(ex, i) = m
  <2>1. q \in Injection(D, D)
    BY <1>6, <1>7 DEF Injection, IsInjective
  <2>2. q \in Surjection(D, D)
    <3>. HIDE DEF q
    <3>. QED BY <1>3, <2>1, FS_Injection
  <2>. QED BY <2>2 DEF Surjection
<1>9. \A m \in D : At(m) \in D /\ Place(ex, At(m)) = m
  BY <1>8
<1>. HIDE DEF At
<1>10. p \in Bijection(D, D)
  <2>1. p \in [D -> D]
    BY <1>9
  <2>2. \A k, l \in D : p[k] = p[l] => k = l
    BY <1>9
  <2>3. \A i \in D : p[Place(ex, i)] = i
    BY <1>6, <1>7, <1>9
  <2>. HIDE DEF p
  <2>. QED BY <1>6, <2>1, <2>2, <2>3 DEF Bijection, Injection, Surjection, IsInjective
<1>11. \A m \in D : s[m] = ex[p[m]]
  BY <1>2
<1>12. s \in Seq(Gaps) /\ DOMAIN s = D
  <2>1. s \in [1 .. n -> Gaps]
    BY <1>1, <1>2, <1>9
  <2>. QED BY <1>1, <2>1
<1>13. ASSUME NEW k \in D, NEW l \in D, k < l
       PROVE  ~Before(s[l], s[k]) /\ Ahead(ex, p[k], p[l])
  <2>1. /\ At(k) \in D /\ At(l) \in D /\ Place(ex, At(k)) = k /\ Place(ex, At(l)) = l
        /\ s[k] = ex[At(k)] /\ s[l] = ex[At(l)]
    BY <1>2, <1>9
  <2>2. k \in Int /\ l \in Int
    BY <1>1
  <2>3. ASSUME Ahead(ex, At(l), At(k)) PROVE FALSE
    <3>1. Place(ex, At(l)) < Place(ex, At(k))
      BY <1>5, <2>1, <2>3, Zenon
    <3>. QED BY <1>13, <2>1, <2>2, <3>1
  <2>4. At(k) # At(l)
    BY <1>13, <2>1, <2>2
  <2>5. Ahead(ex, At(k), At(l))
    BY <2>1, <2>3, <2>4, TotalOrder DEF D
  <2>6. p[k] = At(k) /\ p[l] = At(l)
    OBVIOUS
  <2>. QED BY <2>1, <2>5, <2>6, TotalOrder DEF D
<1>. HIDE DEF p
<1>. QED BY <1>10, <1>11, <1>12, <1>13, Zenon DEF D, s

(* How often a reference is reported in a category.                        *)
Hits(ex, c, r) == {k \in DOMAIN ex : ex[k].category = c /\ ex[k].ref = r}
Count(ex, c, r) == Cardinality(Hits(ex, c, r))

(* Sorting changes no count.                                               *)
LEMMA SortCounts ==
  ASSUME NEW ex \in Seq(Gaps), NEW c, NEW r
  PROVE  Count(sortExceptions(ex), c, r) = Count(ex, c, r)
<1>. DEFINE s == sortExceptions(ex)
            D == DOMAIN ex
<1>1. PICK p \in Bijection(D, D) : \A m \in D : s[m] = ex[p[m]]
  BY Sorting
<1>2. DOMAIN s = D
  BY Sorting
<1>3. p \in [D -> D] /\ (\A k, l \in D : p[k] = p[l] => k = l) /\ \A i \in D : \E m \in D : p[m] = i
  BY <1>1 DEF Bijection, Injection, Surjection, IsInjective
<1>. HIDE DEF s
<1>. DEFINE A == Hits(s, c, r)
            B == Hits(ex, c, r)
            q == [m \in A |-> p[m]]
<1>4. A \subseteq D /\ B \subseteq D /\ \A m \in D : m \in A <=> p[m] \in B
  BY <1>1, <1>2, <1>3 DEF Hits
<1>. HIDE DEF A, B, D
<1>5. q \in Bijection(A, B)
  <2>1. q \in [A -> B] /\ \A k, l \in A : q[k] = q[l] => k = l
    BY <1>3, <1>4
  <2>2. \A i \in B : \E m \in A : q[m] = i
    BY <1>3, <1>4
  <2>. HIDE DEF q
  <2>. QED BY <2>1, <2>2 DEF Bijection, Injection, Surjection, IsInjective
<1>6. IsFiniteSet(A)
  <2>1. IsFiniteSet(D)
    BY FS_Interval DEF D
  <2>. QED BY <1>4, <2>1, FS_Subset
<1>7. Cardinality(B) = Cardinality(A)
  BY <1>5, <1>6, FS_Bijection DEF ExistsBijection
<1>. QED BY <1>7 DEF Count, A, B, s

(* The hits of a category are finitely many.                               *)
LEMMA HitsFinite ==
  ASSUME NEW ex \in Seq(Gaps), NEW c, NEW r
  PROVE  IsFiniteSet(Hits(ex, c, r)) /\ Count(ex, c, r) \in Nat
<1>1. IsFiniteSet(DOMAIN ex) /\ Hits(ex, c, r) \in SUBSET DOMAIN ex
  BY FS_Interval DEF Hits
<1>2. IsFiniteSet(Hits(ex, c, r))
  BY <1>1, FS_Subset
<1>. QED BY <1>2, FS_CardinalityType DEF Count

(* One more exception is counted once, in its category.                    *)
LEMMA CountAppend ==
  ASSUME NEW ex \in Seq(Gaps), NEW e \in Gaps
  PROVE  /\ ex \o <<e>> \in Seq(Gaps) /\ Append(ex, e) = ex \o <<e>>
         /\ Count(ex \o <<e>>, e.category, e.ref) = Count(ex, e.category, e.ref) + 1
         /\ \A c, r : c # e.category \/ r # e.ref => Count(ex \o <<e>>, c, r) = Count(ex, c, r)
<1>. DEFINE s == ex \o <<e>>
            n == Len(ex)
<1>1. /\ s \in Seq(Gaps) /\ n \in Nat /\ DOMAIN ex = 1 .. n /\ DOMAIN s = 1 .. n + 1
      /\ s[n + 1] = e /\ \A k \in 1 .. n : s[k] = ex[k]
  OBVIOUS
<1>2. Append(ex, e) = s
  OBVIOUS
<1>. HIDE DEF s, n
<1>3. Count(s, e.category, e.ref) = Count(ex, e.category, e.ref) + 1
  <2>. DEFINE H == Hits(ex, e.category, e.ref)
  <2>1. IsFiniteSet(H)
    BY HitsFinite
  <2>2. n + 1 \notin H
    BY <1>1 DEF Hits
  <2>3. Hits(s, e.category, e.ref) = H \cup {n + 1}
    BY <1>1 DEF Hits
  <2>. HIDE DEF H
  <2>4. Cardinality(Hits(s, e.category, e.ref)) = Cardinality(H) + 1
    BY <2>1, <2>2, <2>3, FS_AddElement
  <2>. QED BY <2>4 DEF Count, H
<1>4. ASSUME NEW c, NEW r, c # e.category \/ r # e.ref PROVE Count(s, c, r) = Count(ex, c, r)
  <2>1. Hits(s, c, r) = Hits(ex, c, r)
    BY <1>1, <1>4 DEF Hits
  <2>. QED BY <2>1 DEF Count
<1>. QED BY <1>1, <1>2, <1>3, <1>4 DEF s
-----------------------------------------------------------------------------
(* The files.                                                              *)

Read(in, k) == NextRecord(in.external, k)[1]

(* A row that is not refused is a record.                                  *)
LEMMA RowIsRecord ==
  ASSUME NEW in \in Inputs, NEW k \in DOMAIN in.external.rows, NextRecord(in.external, k) # <<>>
  PROVE  Read(in, k) \in Record /\ NextRecord(in.external, k) = <<Read(in, k)>>
<1>. DEFINE f == in.external
            raw == f.rows[k]
<1>1. in \in [internal: Seq(Record), external: File(Ref)]
  BY ReconcileAssumption
<1>2. f \in File(Ref) /\ raw \in Raw(Ref)
  <2>1. f \in File(Ref)
    BY <1>1
  <2>2. f.rows \in Seq(Raw(Ref)) /\ k \in DOMAIN f.rows
    BY <2>1 DEF File
  <2>. HIDE DEF f
  <2>3. raw \in Raw(Ref)
    BY <2>2
  <2>. QED BY <2>1, <2>3
<1>3. NextRecord(f, k) = <<Transfer(raw)>> /\ parseStatus(raw.token) # <<>>
  <2>1. nibssNext(raw) # <<>> => nibssNext(raw) = <<Transfer(raw)>> /\ parseStatus(raw.token) # <<>>
    BY DEF nibssNext
  <2>2. csvNext(raw) # <<>> => csvNext(raw) = <<Transfer(raw)>> /\ parseStatus(raw.token) # <<>>
    BY DEF csvNext
  <2>3. NextRecord(f, k) = nibssNext(raw) \/ NextRecord(f, k) = csvNext(raw)
    BY DEF NextRecord
  <2>. QED BY <2>1, <2>2, <2>3, Zenon
<1>4. parseStatus(raw.token)[1] \in Status
  <2>1. DOMAIN statusTokens \subseteq Status
    BY DEF statusTokens, Status
  <2>2. CASE raw.token = ""
    BY <2>2 DEF parseStatus, Status
  <2>3. CASE raw.token # ""
    <3>1. \E x \in DOMAIN statusTokens : raw.token \in statusTokens[x]
      BY <1>3, <2>3 DEF parseStatus
    <3>2. parseStatus(raw.token) = <<CHOOSE x \in DOMAIN statusTokens : raw.token \in statusTokens[x]>>
      BY <2>3, <3>1 DEF parseStatus
    <3>3. (CHOOSE x \in DOMAIN statusTokens : raw.token \in statusTokens[x]) \in DOMAIN statusTokens
      BY <3>1
    <3>. QED BY <2>1, <3>2, <3>3
  <2>. QED BY <2>2, <2>3
<1>5. Transfer(raw) \in Record
  BY <1>2, <1>4 DEF Transfer, Record, Raw, Type
<1>. QED BY <1>3, <1>5 DEF Read

(* The index holds, for each of its references, a record of that reference *)
(* that is not a reversal.                                                 *)
LEMMA IndexEntry ==
  ASSUME NEW s \in Seq(Record), NEW r \in Indexed(s)
  PROVE  /\ EntryOf(s, r) \in Record /\ EntryOf(s, r).ref = r /\ EntryOf(s, r).type # "reversal" /\ r \in Ref
         /\ \E k \in DOMAIN s : EntryOf(s, r) = s[k]
<1>. DEFINE at == {k \in DOMAIN s : s[k].type # "reversal" /\ s[k].ref = r}
            last == CHOOSE k \in at : \A l \in at : l <= k
<1>1. at # {}
  BY DEF Indexed
<1>2. Len(s) \in Nat /\ at \in SUBSET (1 .. Len(s))
  OBVIOUS
<1>3. \E k \in at : \A l \in at : l <= k
  <2>. HIDE DEF at
  <2>. QED BY <1>1, <1>2, Extremes
<1>4. last \in at
  <2>. HIDE DEF at
  <2>. QED BY <1>3
<1>5. EntryOf(s, r) = s[last]
  BY DEF EntryOf
<1>6. s[last] \in Record /\ s[last].ref = r /\ s[last].type # "reversal"
  <2>. HIDE DEF last
  <2>. QED BY <1>4
<1>7. r \in Ref
  BY <1>6 DEF Record
<1>8. last \in DOMAIN s
  <2>. HIDE DEF last
  <2>. QED BY <1>4
<1>. QED BY <1>5, <1>6, <1>7, <1>8
-----------------------------------------------------------------------------
(* What Match has counted when it has read the rows before row m.          *)

Upto(in, m, r) == {k \in 1 .. m - 1 : Read(in, k).ref = r}
SeenBy(in, m) == {r \in Ref : Upto(in, m, r) # {}}

(* The references whose first row agrees with the index, or does not.      *)
AgreeUpto(in, m) ==
    {r \in Indexed(in.internal) : \E k \in Upto(in, m, r) :
        /\ \A l \in Upto(in, m, r) : k <= l
        /\ Agree(EntryOf(in.internal, r), Read(in, k))}
DiffUpto(in, m) == (Indexed(in.internal) \cap SeenBy(in, m)) \ AgreeUpto(in, m)

Dups(in, m, r) == IF Upto(in, m, r) = {} THEN 0 ELSE Cardinality(Upto(in, m, r)) - 1

(* The unmatched entries that are pending reversals; those reported so far.*)
Pending(in) ==
    {r \in Indexed(in.internal) :
        classifyUnmatchedInternal(EntryOf(in.internal, r), settledReversals(in.internal)) = "pending_reversal"}
Listed(in, m, left) == (Indexed(in.internal) \ SeenBy(in, m)) \ left

Counts(in, m, left, ex) ==
    \A r \in Ref :
      /\ Count(ex, "amount_mismatch", r) = Has(r, DiffUpto(in, m))
      /\ Count(ex, "duplicate", r) = Dups(in, m, r)
      /\ Count(ex, "pending_reversal", r) = Has(r, Listed(in, m, left) \cap Pending(in))
      /\ Count(ex, "unmatched_external", r) = Has(r, SeenBy(in, m) \ Indexed(in.internal))
      /\ Count(ex, "unmatched_internal", r) = Has(r, Listed(in, m, left) \ Pending(in))

Tally(in, x, m) ==
    /\ x.exceptions \in Seq(Gaps)
    /\ x.seen = SeenBy(in, m)
    /\ x.left \subseteq Indexed(in.internal) \ SeenBy(in, m)
    /\ IsFiniteSet(AgreeUpto(in, m))
    /\ x.matched = Cardinality(AgreeUpto(in, m))
    /\ Counts(in, m, x.left, x.exceptions)

(* The exceptions of Match are gaps.                                       *)
LEMMA GapTypes ==
  ASSUME NEW c \in Cats, NEW e \in Record, NEW d \in Int
  PROVE  /\ Gap(c, <<>>, <<e>>, d) \in Gaps
         /\ Gap(c, <<>>, <<e>>, d).category = c /\ Gap(c, <<>>, <<e>>, d).ref = e.ref
         /\ Gap(c, <<e>>, <<>>, d) \in Gaps
         /\ Gap(c, <<e>>, <<>>, d).category = c /\ Gap(c, <<e>>, <<>>, d).ref = e.ref
         /\ \A i \in Record : /\ Gap(c, <<i>>, <<e>>, d) \in Gaps
                              /\ Gap(c, <<i>>, <<e>>, d).category = c
                              /\ Gap(c, <<i>>, <<e>>, d).ref = e.ref
<1>1. e.ref \in Ref
  BY DEF Record
<1>2. <<>> \in Seq(Record) /\ \A i \in Record : <<i>> \in Seq(Record) /\ <<i>> # <<>> /\ <<i>>[1] = i
  OBVIOUS
<1>. HIDE DEF Record
<1>3. Gap(c, <<>>, <<e>>, d) = [category |-> c, ref |-> e.ref, int |-> <<>>, ext |-> <<e>>, delta |-> d]
  BY <1>2 DEF Gap
<1>4. Gap(c, <<e>>, <<>>, d) = [category |-> c, ref |-> e.ref, int |-> <<e>>, ext |-> <<>>, delta |-> d]
  BY <1>2 DEF Gap
<1>5. \A i \in Record : Gap(c, <<i>>, <<e>>, d) =
        [category |-> c, ref |-> e.ref, int |-> <<i>>, ext |-> <<e>>, delta |-> d]
  BY <1>2 DEF Gap
<1>6. \A i, x \in Seq(Record) : [category |-> c, ref |-> e.ref, int |-> i, ext |-> x, delta |-> d] \in Gaps
  BY <1>1 DEF Gaps
<1>7. \A i, x : LET g == [category |-> c, ref |-> e.ref, int |-> i, ext |-> x, delta |-> d]
                IN  g.category = c /\ g.ref = e.ref
  OBVIOUS
<1>8. /\ Gap(c, <<>>, <<e>>, d) \in Gaps
      /\ Gap(c, <<>>, <<e>>, d).category = c /\ Gap(c, <<>>, <<e>>, d).ref = e.ref
  BY <1>2, <1>3, <1>6, <1>7, Zenon
<1>9. /\ Gap(c, <<e>>, <<>>, d) \in Gaps
      /\ Gap(c, <<e>>, <<>>, d).category = c /\ Gap(c, <<e>>, <<>>, d).ref = e.ref
  BY <1>2, <1>4, <1>6, <1>7, Zenon
<1>10. ASSUME NEW i \in Record
       PROVE  /\ Gap(c, <<i>>, <<e>>, d) \in Gaps
              /\ Gap(c, <<i>>, <<e>>, d).category = c
              /\ Gap(c, <<i>>, <<e>>, d).ref = e.ref
  <2>1. <<i>> \in Seq(Record) /\ <<e>> \in Seq(Record)
    BY <1>2
  <2>2. Gap(c, <<i>>, <<e>>, d) = [category |-> c, ref |-> e.ref, int |-> <<i>>, ext |-> <<e>>, delta |-> d]
    BY <1>5
  <2>3. [category |-> c, ref |-> e.ref, int |-> <<i>>, ext |-> <<e>>, delta |-> d] \in Gaps
    BY <1>6, <2>1
  <2>. QED BY <2>2, <2>3, <1>7, Zenon
<1>. QED BY <1>8, <1>9, <1>10

(* One more row: what changes for its reference, and for no other.         *)
LEMMA OneMoreRow ==
  ASSUME NEW in \in Inputs, NEW m \in Nat \ {0}, NEW q \in Ref, Read(in, m).ref = q
  PROVE  /\ Upto(in, m + 1, q) = Upto(in, m, q) \cup {m}
         /\ \A r : r # q => Upto(in, m + 1, r) = Upto(in, m, r)
         /\ SeenBy(in, m + 1) = SeenBy(in, m) \cup {q}
         /\ \A r : r # q => (r \in AgreeUpto(in, m + 1) <=> r \in AgreeUpto(in, m))
         /\ \A r : r # q => (r \in DiffUpto(in, m + 1) <=> r \in DiffUpto(in, m))
         /\ q \in SeenBy(in, m) => (q \in AgreeUpto(in, m + 1) <=> q \in AgreeUpto(in, m))
         /\ q \notin SeenBy(in, m) =>
              /\ q \notin AgreeUpto(in, m)
              /\ q \in AgreeUpto(in, m + 1) <=>
                   q \in Indexed(in.internal) /\ Agree(EntryOf(in.internal, q), Read(in, m))
<1>1. Upto(in, m + 1, q) = Upto(in, m, q) \cup {m}
  BY DEF Upto
<1>2. \A r : r # q => Upto(in, m + 1, r) = Upto(in, m, r)
  BY DEF Upto
<1>3. SeenBy(in, m + 1) = SeenBy(in, m) \cup {q}
  BY <1>1, <1>2 DEF SeenBy
<1>4. \A r : r # q => (r \in AgreeUpto(in, m + 1) <=> r \in AgreeUpto(in, m))
  BY <1>2 DEF AgreeUpto
<1>5. \A r : r # q => (r \in DiffUpto(in, m + 1) <=> r \in DiffUpto(in, m))
  BY <1>3, <1>4 DEF DiffUpto
<1>6. \A k \in Upto(in, m, q) : k \in Int /\ k <= m /\ ~(m <= k)
  BY DEF Upto
<1>7. ASSUME q \in SeenBy(in, m) PROVE q \in AgreeUpto(in, m + 1) <=> q \in AgreeUpto(in, m)
  <2>1. Upto(in, m, q) # {}
    BY <1>7 DEF SeenBy
  <2>2. \A k : /\ k \in Upto(in, m + 1, q) /\ (\A l \in Upto(in, m + 1, q) : k <= l)
               <=> k \in Upto(in, m, q) /\ (\A l \in Upto(in, m, q) : k <= l)
    BY <1>1, <1>6, <2>1
  <2>. QED BY <2>2 DEF AgreeUpto
<1>8. ASSUME q \notin SeenBy(in, m)
      PROVE  /\ q \notin AgreeUpto(in, m)
             /\ q \in AgreeUpto(in, m + 1) <=>
                  q \in Indexed(in.internal) /\ Agree(EntryOf(in.internal, q), Read(in, m))
  <2>1. Upto(in, m, q) = {} /\ Upto(in, m + 1, q) = {m}
    BY <1>1, <1>8 DEF SeenBy
  <2>. QED BY <2>1 DEF AgreeUpto
<1>. QED BY <1>1, <1>2, <1>3, <1>4, <1>5, <1>7, <1>8

(* The duplicates, one row later.                                          *)
LEMMA OneMoreDup ==
  ASSUME NEW in \in Inputs, NEW m \in Nat \ {0}, NEW q \in Ref, Read(in, m).ref = q
  PROVE  /\ \A r : r # q => Dups(in, m + 1, r) = Dups(in, m, r)
         /\ q \in SeenBy(in, m) => Dups(in, m + 1, q) = Dups(in, m, q) + 1 /\ Dups(in, m, q) \in Nat
         /\ q \notin SeenBy(in, m) => Dups(in, m + 1, q) = 0 /\ Dups(in, m, q) = 0
<1>1. Upto(in, m + 1, q) = Upto(in, m, q) \cup {m} /\ \A r : r # q => Upto(in, m + 1, r) = Upto(in, m, r)
  BY OneMoreRow
<1>2. IsFiniteSet(Upto(in, m, q)) /\ m \notin Upto(in, m, q)
  <2>1. IsFiniteSet(1 .. m - 1) /\ Upto(in, m, q) \in SUBSET (1 .. m - 1)
    BY FS_Interval DEF Upto
  <2>2. m \notin 1 .. m - 1
    OBVIOUS
  <2>. QED BY <2>1, <2>2, FS_Subset
<1>3. Cardinality(Upto(in, m, q)) \in Nat /\ (Cardinality(Upto(in, m, q)) = 0 <=> Upto(in, m, q) = {})
  BY <1>2, FS_CardinalityType, FS_EmptySet
<1>4. Cardinality(Upto(in, m + 1, q)) = Cardinality(Upto(in, m, q)) + 1
  BY <1>1, <1>2, FS_AddElement
<1>5. q \in SeenBy(in, m) <=> Upto(in, m, q) # {}
  BY DEF SeenBy
<1>6. Upto(in, m + 1, q) # {}
  BY <1>1
<1>. QED BY <1>1, <1>3, <1>4, <1>5, <1>6 DEF Dups

(* While the rows are read, no unmatched entry has been reported.          *)
Matching(in, x, m) ==
    /\ x.exceptions \in Seq(Gaps)
    /\ x.seen = SeenBy(in, m)
    /\ x.left = Indexed(in.internal) \ SeenBy(in, m)
    /\ IsFiniteSet(AgreeUpto(in, m))
    /\ x.matched = Cardinality(AgreeUpto(in, m))
    /\ \A r \in Ref :
         /\ Count(x.exceptions, "amount_mismatch", r) = Has(r, DiffUpto(in, m))
         /\ Count(x.exceptions, "duplicate", r) = Dups(in, m, r)
         /\ Count(x.exceptions, "pending_reversal", r) = 0
         /\ Count(x.exceptions, "unmatched_external", r) = Has(r, SeenBy(in, m) \ Indexed(in.internal))
         /\ Count(x.exceptions, "unmatched_internal", r) = 0

(* How Match changes its counters at a row.                                *)
Step(x, y, exs, hits, n) ==
    /\ y.seen = x.seen \cup hits /\ y.left = x.left \ hits
    /\ y.matched = x.matched + n /\ y.exceptions = x.exceptions \o exs

(* A further row of a reference is a duplicate.                            *)
LEMMA MatchDuplicate ==
  ASSUME NEW in \in Inputs, NEW m \in Nat \ {0}, NEW e \in Record, e = Read(in, m), NEW x, NEW y,
         Matching(in, x, m), e.ref \in SeenBy(in, m),
         Step(x, y, <<Gap("duplicate", <<>>, <<e>>, 0)>>, {}, 0)
  PROVE  Matching(in, y, m + 1)
<1>. DEFINE g == Gap("duplicate", <<>>, <<e>>, 0)
            q == e.ref
<1>1. q \in Ref /\ Read(in, m).ref = q
  BY DEF Record
<1>2. g \in Gaps /\ g.category = "duplicate" /\ g.ref = q
  BY GapTypes DEF Cats
<1>3. x.exceptions \in Seq(Gaps) /\ Cardinality(AgreeUpto(in, m)) \in Int
  BY FS_CardinalityType DEF Matching
<1>4. y.exceptions = x.exceptions \o <<g>>
  BY DEF Step
<1>. HIDE DEF g
<1>5. /\ y.exceptions \in Seq(Gaps)
      /\ Count(y.exceptions, "duplicate", q) = Count(x.exceptions, "duplicate", q) + 1
      /\ \A c, r : c # "duplicate" \/ r # q => Count(y.exceptions, c, r) = Count(x.exceptions, c, r)
  BY <1>2, <1>3, <1>4, CountAppend
<1>6. SeenBy(in, m + 1) = SeenBy(in, m)
  BY <1>1, OneMoreRow
<1>7. AgreeUpto(in, m + 1) = AgreeUpto(in, m)
  <2>1. \A r : r \in AgreeUpto(in, m + 1) <=> r \in AgreeUpto(in, m)
    BY <1>1, OneMoreRow
  <2>. QED BY <2>1
<1>8. DiffUpto(in, m + 1) = DiffUpto(in, m)
  BY <1>6, <1>7 DEF DiffUpto
<1>9. \A r : r # q => Dups(in, m + 1, r) = Dups(in, m, r)
  BY <1>1, OneMoreDup
<1>10. Dups(in, m + 1, q) = Dups(in, m, q) + 1
  BY <1>1, OneMoreDup
<1>11. y.seen = x.seen /\ y.left = x.left /\ y.matched = x.matched
  BY <1>3 DEF Step, Matching
<1>12. \A r \in Ref : Count(y.exceptions, "duplicate", r) = Dups(in, m + 1, r)
  BY <1>5, <1>9, <1>10 DEF Matching
<1>13. /\ y.seen = SeenBy(in, m + 1) /\ y.left = Indexed(in.internal) \ SeenBy(in, m + 1)
       /\ IsFiniteSet(AgreeUpto(in, m + 1)) /\ y.matched = Cardinality(AgreeUpto(in, m + 1))
  BY <1>6, <1>7, <1>8, <1>11 DEF Matching
<1>14. ASSUME NEW r \in Ref, NEW c \in Cats, c # "duplicate"
       PROVE  Count(y.exceptions, c, r) = Count(x.exceptions, c, r)
  BY <1>5, <1>14, Zenon
<1>15. ASSUME NEW r \in Ref
       PROVE  /\ Count(y.exceptions, "amount_mismatch", r) = Has(r, DiffUpto(in, m + 1))
              /\ Count(y.exceptions, "pending_reversal", r) = 0
              /\ Count(y.exceptions, "unmatched_external", r)
                    = Has(r, SeenBy(in, m + 1) \ Indexed(in.internal))
              /\ Count(y.exceptions, "unmatched_internal", r) = 0
  <2>1. /\ Count(x.exceptions, "amount_mismatch", r) = Has(r, DiffUpto(in, m))
        /\ Count(x.exceptions, "pending_reversal", r) = 0
        /\ Count(x.exceptions, "unmatched_external", r) = Has(r, SeenBy(in, m) \ Indexed(in.internal))
        /\ Count(x.exceptions, "unmatched_internal", r) = 0
    BY <1>15, Zenon DEF Matching
  <2>. QED BY <1>6, <1>8, <1>14, <1>15, <2>1 DEF Cats
<1>. QED BY <1>5, <1>12, <1>13, <1>15, Zenon DEF Matching

(* The first row of a reference: what is known before it is compared.      *)
Agreeing(in, e) == e.ref \in Indexed(in.internal) /\ Agree(EntryOf(in.internal, e.ref), e)
Differing(in, e) == e.ref \in Indexed(in.internal) /\ ~Agree(EntryOf(in.internal, e.ref), e)

FirstRow(in, m, e) ==
    /\ e.ref \in Ref
    /\ SeenBy(in, m + 1) = SeenBy(in, m) \cup {e.ref}
    /\ \A r : Dups(in, m + 1, r) = Dups(in, m, r)
    /\ Agreeing(in, e) => AgreeUpto(in, m + 1) = AgreeUpto(in, m) \cup {e.ref}
    /\ ~Agreeing(in, e) => AgreeUpto(in, m + 1) = AgreeUpto(in, m)
    /\ Differing(in, e) => DiffUpto(in, m + 1) = DiffUpto(in, m) \cup {e.ref}
    /\ ~Differing(in, e) => DiffUpto(in, m + 1) = DiffUpto(in, m)
    /\ e.ref \notin AgreeUpto(in, m) /\ e.ref \notin DiffUpto(in, m)

(* The first row of a reference adds the reference to what was seen, and   *)
(* to the references that agree or differ.                                 *)
LEMMA FirstRowFacts ==
  ASSUME NEW in \in Inputs, NEW m \in Nat \ {0}, NEW e \in Record, e = Read(in, m),
         e.ref \notin SeenBy(in, m)
  PROVE  FirstRow(in, m, e)
<1>. DEFINE q == e.ref
<1>1. q \in Ref /\ Read(in, m).ref = q
  BY DEF Record
<1>2. /\ SeenBy(in, m + 1) = SeenBy(in, m) \cup {q}
      /\ \A r : r # q => (r \in AgreeUpto(in, m + 1) <=> r \in AgreeUpto(in, m))
      /\ \A r : r # q => (r \in DiffUpto(in, m + 1) <=> r \in DiffUpto(in, m))
      /\ q \notin AgreeUpto(in, m)
      /\ q \in AgreeUpto(in, m + 1) <=>
            q \in Indexed(in.internal) /\ Agree(EntryOf(in.internal, q), e)
  BY <1>1, OneMoreRow
<1>3. q \notin DiffUpto(in, m)
  BY DEF DiffUpto
<1>4. q \in DiffUpto(in, m + 1) <=> q \in Indexed(in.internal) /\ ~Agree(EntryOf(in.internal, q), e)
  BY <1>2 DEF DiffUpto
<1>5. \A r : Dups(in, m + 1, r) = Dups(in, m, r)
  BY <1>1, OneMoreDup
<1>. HIDE DEF q
<1>6. q \in AgreeUpto(in, m + 1) <=> Agreeing(in, e)
  BY <1>2 DEF Agreeing, q
<1>7. q \in DiffUpto(in, m + 1) <=> Differing(in, e)
  BY <1>4 DEF Differing, q
<1>8. /\ Agreeing(in, e) => AgreeUpto(in, m + 1) = AgreeUpto(in, m) \cup {q}
      /\ ~Agreeing(in, e) => AgreeUpto(in, m + 1) = AgreeUpto(in, m)
  <2>1. \A r : r # q => (r \in AgreeUpto(in, m + 1) <=> r \in AgreeUpto(in, m))
    BY <1>2
  <2>2. q \notin AgreeUpto(in, m)
    BY <1>2
  <2>. QED BY <1>6, <2>1, <2>2
<1>9. /\ Differing(in, e) => DiffUpto(in, m + 1) = DiffUpto(in, m) \cup {q}
      /\ ~Differing(in, e) => DiffUpto(in, m + 1) = DiffUpto(in, m)
  BY <1>2, <1>3, <1>7
<1>. QED BY <1>1, <1>2, <1>3, <1>5, <1>8, <1>9, Zenon DEF q, FirstRow

(* A reference the ledger does not know.                                   *)
LEMMA MatchForeign ==
  ASSUME NEW in \in Inputs, NEW m \in Nat \ {0}, NEW e \in Record, e = Read(in, m), NEW x, NEW y,
         Matching(in, x, m), e.ref \notin SeenBy(in, m), e.ref \notin Indexed(in.internal),
         Step(x, y, <<Gap("unmatched_external", <<>>, <<e>>, 0)>>, {e.ref}, 0)
  PROVE  Matching(in, y, m + 1)
<1>. DEFINE g == Gap("unmatched_external", <<>>, <<e>>, 0)
            q == e.ref
<1>1. /\ q \in Ref /\ SeenBy(in, m + 1) = SeenBy(in, m) \cup {q}
      /\ \A r : Dups(in, m + 1, r) = Dups(in, m, r)
      /\ AgreeUpto(in, m + 1) = AgreeUpto(in, m) /\ DiffUpto(in, m + 1) = DiffUpto(in, m)
  <2>1. ~Agreeing(in, e) /\ ~Differing(in, e)
    BY DEF Agreeing, Differing
  <2>2. FirstRow(in, m, e)
    BY FirstRowFacts, Zenon
  <2>. QED BY <2>1, <2>2, Zenon DEF FirstRow
<1>2. g \in Gaps /\ g.category = "unmatched_external" /\ g.ref = q
  BY GapTypes DEF Cats
<1>3. x.exceptions \in Seq(Gaps) /\ Cardinality(AgreeUpto(in, m)) \in Int
  BY FS_CardinalityType DEF Matching
<1>4. y.exceptions = x.exceptions \o <<g>>
  BY DEF Step
<1>. HIDE DEF g
<1>5. /\ y.exceptions \in Seq(Gaps)
      /\ Count(y.exceptions, "unmatched_external", q) = Count(x.exceptions, "unmatched_external", q) + 1
      /\ \A c, r : c # "unmatched_external" \/ r # q => Count(y.exceptions, c, r) = Count(x.exceptions, c, r)
  BY <1>2, <1>3, <1>4, CountAppend
<1>6. y.seen = SeenBy(in, m + 1) /\ y.left = Indexed(in.internal) \ SeenBy(in, m + 1) /\ y.matched = x.matched
  BY <1>1, <1>3 DEF Step, Matching
<1>7. ASSUME NEW r \in Ref
      PROVE  Count(y.exceptions, "unmatched_external", r) = Has(r, SeenBy(in, m + 1) \ Indexed(in.internal))
  <2>1. Count(x.exceptions, "unmatched_external", r) = Has(r, SeenBy(in, m) \ Indexed(in.internal))
    BY DEF Matching
  <2>2. CASE r = q
    BY <1>1, <1>5, <2>1, <2>2 DEF Has
  <2>3. CASE r # q
    BY <1>1, <1>5, <2>1, <2>3 DEF Has
  <2>. QED BY <2>2, <2>3
<1>8. \A r \in Ref :
         /\ Count(y.exceptions, "amount_mismatch", r) = Has(r, DiffUpto(in, m + 1))
         /\ Count(y.exceptions, "duplicate", r) = Dups(in, m + 1, r)
         /\ Count(y.exceptions, "pending_reversal", r) = 0
         /\ Count(y.exceptions, "unmatched_internal", r) = 0
  BY <1>1, <1>5 DEF Matching
<1>9. IsFiniteSet(AgreeUpto(in, m + 1)) /\ y.matched = Cardinality(AgreeUpto(in, m + 1))
  BY <1>1, <1>6 DEF Matching
<1>. QED BY <1>5, <1>6, <1>7, <1>8, <1>9 DEF Matching

(* A reference whose amounts or times differ.                              *)
LEMMA MatchDiffers ==
  ASSUME NEW in \in Inputs, NEW m \in Nat \ {0}, NEW e \in Record, e = Read(in, m), NEW x, NEW y,
         in.internal \in Seq(Record),
         Matching(in, x, m), e.ref \notin SeenBy(in, m), e.ref \in Indexed(in.internal),
         ~Agree(EntryOf(in.internal, e.ref), e),
         Step(x, y, <<Gap("amount_mismatch", <<EntryOf(in.internal, e.ref)>>, <<e>>,
                          e.amount - EntryOf(in.internal, e.ref).amount)>>, {e.ref}, 0)
  PROVE  Matching(in, y, m + 1)
<1>. DEFINE i == EntryOf(in.internal, e.ref)
            g == Gap("amount_mismatch", <<i>>, <<e>>, e.amount - i.amount)
            q == e.ref
<1>1. /\ q \in Ref /\ SeenBy(in, m + 1) = SeenBy(in, m) \cup {q}
      /\ \A r : Dups(in, m + 1, r) = Dups(in, m, r)
      /\ AgreeUpto(in, m + 1) = AgreeUpto(in, m) /\ DiffUpto(in, m + 1) = DiffUpto(in, m) \cup {q}
      /\ q \notin DiffUpto(in, m)
  <2>1. ~Agreeing(in, e) /\ Differing(in, e)
    BY DEF Agreeing, Differing
  <2>2. FirstRow(in, m, e)
    BY FirstRowFacts, Zenon
  <2>. QED BY <2>1, <2>2, Zenon DEF FirstRow
<1>2. g \in Gaps /\ g.category = "amount_mismatch" /\ g.ref = q
  <2>1. i \in Record
    BY IndexEntry
  <2>2. e.amount - i.amount \in Int
    BY <2>1 DEF Record
  <2>. HIDE DEF i
  <2>. QED BY <2>1, <2>2, GapTypes DEF Cats
<1>3. x.exceptions \in Seq(Gaps) /\ Cardinality(AgreeUpto(in, m)) \in Int
  BY FS_CardinalityType DEF Matching
<1>4. y.exceptions = x.exceptions \o <<g>>
  BY DEF Step
<1>. HIDE DEF g
<1>5. /\ y.exceptions \in Seq(Gaps)
      /\ Count(y.exceptions, "amount_mismatch", q) = Count(x.exceptions, "amount_mismatch", q) + 1
      /\ \A c, r : c # "amount_mismatch" \/ r # q => Count(y.exceptions, c, r) = Count(x.exceptions, c, r)
  BY <1>2, <1>3, <1>4, CountAppend
<1>6. y.seen = SeenBy(in, m + 1) /\ y.left = Indexed(in.internal) \ SeenBy(in, m + 1) /\ y.matched = x.matched
  BY <1>1, <1>3 DEF Step, Matching
<1>7. ASSUME NEW r \in Ref PROVE Count(y.exceptions, "amount_mismatch", r) = Has(r, DiffUpto(in, m + 1))
  <2>1. Count(x.exceptions, "amount_mismatch", r) = Has(r, DiffUpto(in, m))
    BY DEF Matching
  <2>2. CASE r = q
    BY <1>1, <1>5, <2>1, <2>2 DEF Has
  <2>3. CASE r # q
    BY <1>1, <1>5, <2>1, <2>3 DEF Has
  <2>. QED BY <2>2, <2>3
<1>8. SeenBy(in, m + 1) \ Indexed(in.internal) = SeenBy(in, m) \ Indexed(in.internal)
  BY <1>1
<1>9. \A r \in Ref :
         /\ Count(y.exceptions, "unmatched_external", r) = Has(r, SeenBy(in, m + 1) \ Indexed(in.internal))
         /\ Count(y.exceptions, "duplicate", r) = Dups(in, m + 1, r)
         /\ Count(y.exceptions, "pending_reversal", r) = 0
         /\ Count(y.exceptions, "unmatched_internal", r) = 0
  <2>. TAKE r \in Ref
  <2>1. \A c : c # "amount_mismatch" => Count(y.exceptions, c, r) = Count(x.exceptions, c, r)
    BY <1>5, Zenon
  <2>2. /\ Count(x.exceptions, "unmatched_external", r) = Has(r, SeenBy(in, m) \ Indexed(in.internal))
        /\ Count(x.exceptions, "duplicate", r) = Dups(in, m, r)
        /\ Count(x.exceptions, "pending_reversal", r) = 0
        /\ Count(x.exceptions, "unmatched_internal", r) = 0
    BY DEF Matching
  <2>3. Dups(in, m + 1, r) = Dups(in, m, r)
    BY <1>1
  <2>. QED BY <1>8, <2>1, <2>2, <2>3, Zenon
<1>10. IsFiniteSet(AgreeUpto(in, m + 1)) /\ y.matched = Cardinality(AgreeUpto(in, m + 1))
  BY <1>1, <1>6 DEF Matching
<1>. QED BY <1>5, <1>6, <1>7, <1>9, <1>10 DEF Matching

(* A reference that is matched.                                            *)
LEMMA MatchAgrees ==
  ASSUME NEW in \in Inputs, NEW m \in Nat \ {0}, NEW e \in Record, e = Read(in, m), NEW x, NEW y,
         Matching(in, x, m), e.ref \notin SeenBy(in, m), e.ref \in Indexed(in.internal),
         Agree(EntryOf(in.internal, e.ref), e), Step(x, y, <<>>, {e.ref}, 1)
  PROVE  Matching(in, y, m + 1)
<1>. DEFINE q == e.ref
<1>1. /\ q \in Ref /\ SeenBy(in, m + 1) = SeenBy(in, m) \cup {q}
      /\ \A r : Dups(in, m + 1, r) = Dups(in, m, r)
      /\ AgreeUpto(in, m + 1) = AgreeUpto(in, m) \cup {q} /\ DiffUpto(in, m + 1) = DiffUpto(in, m)
      /\ q \notin AgreeUpto(in, m)
  <2>1. Agreeing(in, e) /\ ~Differing(in, e)
    BY DEF Agreeing, Differing
  <2>2. FirstRow(in, m, e)
    BY FirstRowFacts, Zenon
  <2>. QED BY <2>1, <2>2, Zenon DEF FirstRow
<1>2. x.exceptions \in Seq(Gaps) /\ IsFiniteSet(AgreeUpto(in, m)) /\ x.matched = Cardinality(AgreeUpto(in, m))
  BY DEF Matching
<1>3. /\ IsFiniteSet(AgreeUpto(in, m + 1))
      /\ Cardinality(AgreeUpto(in, m + 1)) = Cardinality(AgreeUpto(in, m)) + 1
  BY <1>1, <1>2, FS_AddElement
<1>4. y.exceptions = x.exceptions
  BY <1>2 DEF Step
<1>5. y.seen = SeenBy(in, m + 1) /\ y.left = Indexed(in.internal) \ SeenBy(in, m + 1)
  BY <1>1 DEF Step, Matching
<1>6. y.matched = Cardinality(AgreeUpto(in, m + 1))
  BY <1>2, <1>3 DEF Step
<1>7. SeenBy(in, m + 1) \ Indexed(in.internal) = SeenBy(in, m) \ Indexed(in.internal)
  BY <1>1
<1>. QED BY <1>1, <1>3, <1>4, <1>5, <1>6, <1>7 DEF Matching

(* At the end of the file the unmatched entries are still to be listed.    *)
LEMMA TallyStart ==
  ASSUME NEW in \in Inputs, NEW m, NEW x, Matching(in, x, m)
  PROVE  Tally(in, x, m)
<1>1. Listed(in, m, x.left) = {}
  BY DEF Listed, Matching
<1>2. Listed(in, m, x.left) \cap Pending(in) = {} /\ Listed(in, m, x.left) \ Pending(in) = {}
  BY <1>1
<1>3. \A r : Has(r, {}) = 0
  BY DEF Has
<1>4. Counts(in, m, x.left, x.exceptions)
  BY <1>2, <1>3 DEF Counts, Matching
<1>. QED BY <1>4 DEF Tally, Matching

(* An unmatched entry is listed once, in its category.                     *)
LEMMA TallyLeft ==
  ASSUME NEW in \in Inputs, in.internal \in Seq(Record), NEW m, NEW x, NEW y, Tally(in, x, m),
         NEW q \in x.left, NEW c,
         c = classifyUnmatchedInternal(EntryOf(in.internal, q), settledReversals(in.internal)),
         y.left = x.left \ {q}, y.seen = x.seen, y.matched = x.matched,
         y.exceptions = Append(x.exceptions, Gap(c, <<EntryOf(in.internal, q)>>, <<>>, 0))
  PROVE  Tally(in, y, m)
<1>. DEFINE rec == EntryOf(in.internal, q)
            g == Gap(c, <<rec>>, <<>>, 0)
<1>1. q \in Indexed(in.internal) /\ q \notin SeenBy(in, m)
  BY DEF Tally
<1>2. rec \in Record /\ rec.ref = q /\ q \in Ref
  BY <1>1, IndexEntry
<1>3. c \in {"pending_reversal", "unmatched_internal"} /\ (c = "pending_reversal" <=> q \in Pending(in))
  BY <1>1 DEF classifyUnmatchedInternal, Pending
<1>4. g \in Gaps /\ g.category = c /\ g.ref = q
  <2>1. c \in Cats /\ 0 \in Int
    BY <1>3 DEF Cats
  <2>. HIDE DEF rec
  <2>. QED BY <1>2, <2>1, GapTypes
<1>5. x.exceptions \in Seq(Gaps)
  BY DEF Tally
<1>6. y.exceptions = Append(x.exceptions, g)
  OBVIOUS
<1>. HIDE DEF g
<1>7. /\ y.exceptions \in Seq(Gaps)
      /\ Count(y.exceptions, c, q) = Count(x.exceptions, c, q) + 1
      /\ \A d, r : d # c \/ r # q => Count(y.exceptions, d, r) = Count(x.exceptions, d, r)
  <2>. DEFINE ex == x.exceptions
  <2>. HIDE DEF ex
  <2>1. /\ ex \o <<g>> \in Seq(Gaps) /\ Append(ex, g) = ex \o <<g>>
        /\ Count(ex \o <<g>>, g.category, g.ref) = Count(ex, g.category, g.ref) + 1
        /\ \A d, r : d # g.category \/ r # g.ref => Count(ex \o <<g>>, d, r) = Count(ex, d, r)
    <3>1. ex \in Seq(Gaps) /\ g \in Gaps
      BY <1>4, <1>5 DEF ex
    <3>. QED BY <3>1, CountAppend, Zenon
  <2>2. y.exceptions = ex \o <<g>>
    BY <1>6, <2>1 DEF ex
  <2>. QED BY <1>4, <2>1, <2>2, Zenon DEF ex
<1>8. Listed(in, m, y.left) = Listed(in, m, x.left) \cup {q} /\ q \notin Listed(in, m, x.left)
  BY <1>1 DEF Listed
<1>9. ASSUME NEW r \in Ref
      PROVE  /\ Count(y.exceptions, "pending_reversal", r) = Has(r, Listed(in, m, y.left) \cap Pending(in))
             /\ Count(y.exceptions, "unmatched_internal", r) = Has(r, Listed(in, m, y.left) \ Pending(in))
  <2>1. /\ Count(x.exceptions, "pending_reversal", r) = Has(r, Listed(in, m, x.left) \cap Pending(in))
        /\ Count(x.exceptions, "unmatched_internal", r) = Has(r, Listed(in, m, x.left) \ Pending(in))
    BY DEF Tally, Counts
  <2>2. CASE r # q
    BY <1>7, <1>8, <2>1, <2>2 DEF Has
  <2>3. CASE r = q /\ c = "pending_reversal"
    <3>1. /\ Count(x.exceptions, "pending_reversal", r) = 0
          /\ Count(x.exceptions, "unmatched_internal", r) = 0
      BY <1>8, <2>1, <2>3 DEF Has
    <3>2. /\ Count(y.exceptions, "pending_reversal", r) = 1
          /\ Count(y.exceptions, "unmatched_internal", r) = 0
      BY <1>7, <2>3, <3>1
    <3>. QED BY <1>3, <1>8, <2>3, <3>2 DEF Has
  <2>4. CASE r = q /\ c = "unmatched_internal"
    <3>1. /\ Count(x.exceptions, "pending_reversal", r) = 0
          /\ Count(x.exceptions, "unmatched_internal", r) = 0
      BY <1>8, <2>1, <2>4 DEF Has
    <3>2. /\ Count(y.exceptions, "pending_reversal", r) = 0
          /\ Count(y.exceptions, "unmatched_internal", r) = 1
      BY <1>7, <2>4, <3>1
    <3>. QED BY <1>3, <1>8, <2>4, <3>2 DEF Has
  <2>. QED BY <1>3, <2>2, <2>3, <2>4
<1>10. ASSUME NEW r \in Ref
       PROVE  /\ Count(y.exceptions, "amount_mismatch", r) = Has(r, DiffUpto(in, m))
              /\ Count(y.exceptions, "duplicate", r) = Dups(in, m, r)
              /\ Count(y.exceptions, "unmatched_external", r) = Has(r, SeenBy(in, m) \ Indexed(in.internal))
  <2>1. \A d : d \in {"amount_mismatch", "duplicate", "unmatched_external"} =>
            Count(y.exceptions, d, r) = Count(x.exceptions, d, r)
    BY <1>3, <1>7
  <2>2. /\ Count(x.exceptions, "amount_mismatch", r) = Has(r, DiffUpto(in, m))
        /\ Count(x.exceptions, "duplicate", r) = Dups(in, m, r)
        /\ Count(x.exceptions, "unmatched_external", r) = Has(r, SeenBy(in, m) \ Indexed(in.internal))
    BY DEF Tally, Counts
  <2>. QED BY <2>1, <2>2, Zenon
<1>11. Counts(in, m, y.left, y.exceptions)
  BY <1>9, <1>10, Zenon DEF Counts
<1>12. /\ y.seen = SeenBy(in, m) /\ IsFiniteSet(AgreeUpto(in, m)) /\ y.matched = Cardinality(AgreeUpto(in, m))
       /\ y.left \subseteq Indexed(in.internal) \ SeenBy(in, m)
  BY DEF Tally
<1>. QED BY <1>7, <1>11, <1>12, Zenon DEF Tally

LeastOf(S) == CHOOSE k \in S : \A l \in S : k <= l

(* The rows of a file that was read to its end are those of its view.      *)
LEMMA WholeFile ==
  ASSUME NEW in \in Inputs, in.internal \in Seq(Record), NEW n \in Nat,
         DOMAIN in.external.rows = 1 .. n, Readable(in.external)
  PROVE  /\ \A r : Rows(View(in).external, r) = Upto(in, n + 1, r)
         /\ View(in).internal = in.internal
         /\ Both(View(in)) = Indexed(in.internal) \cap SeenBy(in, n + 1)
         /\ Missing(View(in)) = Indexed(in.internal) \ SeenBy(in, n + 1)
         /\ Foreign(View(in)) = SeenBy(in, n + 1) \ Indexed(in.internal)
         /\ Agreed(View(in)) = AgreeUpto(in, n + 1)
         /\ Both(View(in)) \ Agreed(View(in)) = DiffUpto(in, n + 1)
         /\ Owed(View(in)) = Missing(View(in)) \cap Pending(in)
<1>. DEFINE f == View(in)
            ix == Indexed(in.internal)
            m == n + 1
<1>1. f.internal = in.internal /\ f.external = [k \in 1 .. n |-> Read(in, k)]
  BY DEF View, Parsed, Read
<1>2. DOMAIN f.external = 1 .. n /\ \A k \in 1 .. n : f.external[k] = Read(in, k)
  BY <1>1
<1>3. 1 .. m - 1 = 1 .. n
  OBVIOUS
<1>. HIDE DEF f
<1>4. \A r : Rows(f.external, r) = Upto(in, m, r)
  BY <1>2, <1>3 DEF Rows, Upto
<1>5. \A r \in ix : r \in Ref
  BY IndexEntry
<1>. HIDE DEF ix, m
<1>5a. f.internal = in.internal /\ Indexed(f.internal) = ix
  BY <1>1 DEF ix
<1>5b. \A r : r \in SeenBy(in, m) <=> r \in Ref /\ Rows(f.external, r) # {}
  BY <1>4, Zenon DEF SeenBy
<1>6. Both(f) = ix \cap SeenBy(in, m)
  <2>1. \A r : r \in Both(f) <=> r \in ix /\ Rows(f.external, r) # {}
    BY <1>5a, Zenon DEF Both
  <2>. QED BY <1>5, <1>5b, <2>1
<1>7. Missing(f) = ix \ SeenBy(in, m)
  BY <1>5a, <1>6 DEF Missing
<1>8. Foreign(f) = SeenBy(in, m) \ ix
  <2>1. \A r : r \in Foreign(f) <=> (r \in Ref /\ Rows(f.external, r) # {}) /\ r \notin ix
    BY <1>5a, Zenon DEF Foreign
  <2>. QED BY <1>5b, <2>1
<1>9. ASSUME NEW r, r \in Both(f)
      PROVE  Agree(EntryOf(in.internal, r), FirstOf(f.external, r)) <=>
             \E k \in Upto(in, m, r) : /\ \A l \in Upto(in, m, r) : k <= l
                                       /\ Agree(EntryOf(in.internal, r), Read(in, k))
  <2>1. Upto(in, m, r) # {} /\ Upto(in, m, r) \in SUBSET (1 .. n)
    BY <1>3, <1>6, <1>9 DEF SeenBy, Upto, m
  <2>2. \E k \in Upto(in, m, r) : \A l \in Upto(in, m, r) : k <= l
    BY <2>1, Extremes
  <2>. DEFINE k0 == LeastOf(Upto(in, m, r))
  <2>3. k0 \in Upto(in, m, r) /\ \A l \in Upto(in, m, r) : k0 <= l
    BY <2>2, Zenon DEF LeastOf
  <2>4. FirstOf(f.external, r) = f.external[k0]
    <3>1. FirstOf(f.external, r) = f.external[LeastOf(Rows(f.external, r))]
      BY Zenon DEF FirstOf, LeastOf
    <3>. QED BY <1>4, <3>1, Zenon
  <2>. HIDE DEF k0
  <2>5. f.external[k0] = Read(in, k0)
    BY <1>2, <2>1, <2>3
  <2>6. \A k \in Upto(in, m, r) : (\A l \in Upto(in, m, r) : k <= l) => k = k0
    <3>1. \A k \in Upto(in, m, r) : k \in Int
      BY <2>1
    <3>. QED BY <2>3, <3>1
  <2>. QED BY <2>3, <2>4, <2>5, <2>6
<1>10. Agreed(f) = AgreeUpto(in, m)
  <2>1. \A r : r \in AgreeUpto(in, m) => r \in Both(f)
    BY <1>4, <1>5, <1>6 DEF AgreeUpto, SeenBy, ix
  <2>2. \A r \in Both(f) : r \in Agreed(f) <=> r \in AgreeUpto(in, m)
    BY <1>1, <1>6, <1>9 DEF Agreed, AgreeUpto, ix
  <2>3. \A r : r \in Agreed(f) => r \in Both(f)
    BY DEF Agreed
  <2>. QED BY <2>1, <2>2, <2>3
<1>11. Both(f) \ Agreed(f) = DiffUpto(in, m)
  BY <1>6, <1>10 DEF DiffUpto, ix
<1>12. Owed(f) = Missing(f) \cap Pending(in)
  <2>1. \A r \in ix : EntryOf(in.internal, r).ref = r
    BY IndexEntry DEF ix
  <2>2. ASSUME NEW r \in ix
        PROVE  r \in Pending(in) <=> /\ EntryOf(in.internal, r).type = "transfer"
                                     /\ EntryOf(in.internal, r).status \in {"failed", "timed_out"}
                                     /\ r \notin settledReversals(in.internal)
    BY <2>1 DEF Pending, classifyUnmatchedInternal, ix
  <2>3. Missing(f) \subseteq ix
    BY <1>7
  <2>. QED BY <1>1, <2>2, <2>3 DEF Owed
<1>. QED BY <1>1, <1>4, <1>6, <1>7, <1>8, <1>10, <1>11, <1>12 DEF f, ix, m

(* The report of a file that was read to its end is right.                 *)
LEMMA ReportRight ==
  ASSUME NEW in \in Inputs, in.internal \in Seq(Record), NEW n \in Nat,
         DOMAIN in.external.rows = 1 .. n, Readable(in.external),
         NEW x, Tally(in, x, n + 1), x.left = {}
  PROVE  Computes(View(in), x.matched, sortExceptions(x.exceptions))
<1>. DEFINE f == View(in)
            m == n + 1
            s == sortExceptions(x.exceptions)
<1>1. /\ \A r : Rows(f.external, r) = Upto(in, m, r)
      /\ Missing(f) = Indexed(in.internal) \ SeenBy(in, m)
      /\ Foreign(f) = SeenBy(in, m) \ Indexed(in.internal)
      /\ Agreed(f) = AgreeUpto(in, m)
      /\ Both(f) \ Agreed(f) = DiffUpto(in, m)
      /\ Owed(f) = Missing(f) \cap Pending(in)
  BY WholeFile
<1>2. x.exceptions \in Seq(Gaps) /\ x.matched = Cardinality(Agreed(f))
  BY <1>1 DEF Tally
<1>3. DOMAIN s = DOMAIN x.exceptions /\ \A k, l \in DOMAIN s : k < l => ~Before(s[l], s[k])
  BY <1>2, Sorting
<1>4. \A c, r : Cardinality({k \in DOMAIN s : s[k].category = c /\ s[k].ref = r}) = Count(x.exceptions, c, r)
  <2>1. \A c, r : Count(s, c, r) = Count(x.exceptions, c, r)
    BY <1>2, SortCounts
  <2>2. \A c, r : Count(s, c, r) = Cardinality({k \in DOMAIN s : s[k].category = c /\ s[k].ref = r})
    <3>. HIDE DEF s
    <3>. QED BY DEF Count, Hits
  <2>. HIDE DEF s
  <2>. QED BY <2>1, <2>2
<1>5. Listed(in, m, x.left) = Missing(f)
  BY <1>1 DEF Listed
<1>. HIDE DEF s, f, m
<1>6. Missing(f) \ Pending(in) = Missing(f) \ Owed(f)
  BY <1>1
<1>7. ASSUME NEW r \in Ref
      PROVE  /\ Count(x.exceptions, "amount_mismatch", r) = Has(r, Both(f) \ Agreed(f))
             /\ Count(x.exceptions, "duplicate", r) = IF Rows(f.external, r) = {} THEN 0
                                                      ELSE Cardinality(Rows(f.external, r)) - 1
             /\ Count(x.exceptions, "pending_reversal", r) = Has(r, Owed(f))
             /\ Count(x.exceptions, "unmatched_external", r) = Has(r, Foreign(f))
             /\ Count(x.exceptions, "unmatched_internal", r) = Has(r, Missing(f) \ Owed(f))
  BY <1>1, <1>5, <1>6 DEF Tally, Counts, Dups, m
<1>8. ASSUME NEW r \in Ref, NEW c \in DOMAIN Computed(f, r)
      PROVE  Count(x.exceptions, c, r) = Computed(f, r)[c]
  <2>1. c \in Cats
    BY <1>8 DEF Computed, Cats
  <2>2. c = "amount_mismatch" => Computed(f, r)[c] = Has(r, Both(f) \ Agreed(f))
    BY DEF Computed
  <2>3. c = "duplicate" => Computed(f, r)[c] = IF Rows(f.external, r) = {} THEN 0
                                               ELSE Cardinality(Rows(f.external, r)) - 1
    BY DEF Computed
  <2>4. c = "pending_reversal" => Computed(f, r)[c] = Has(r, Owed(f))
    BY DEF Computed
  <2>5. c = "unmatched_external" => Computed(f, r)[c] = Has(r, Foreign(f))
    BY DEF Computed
  <2>6. c = "unmatched_internal" => Computed(f, r)[c] = Has(r, Missing(f) \ Owed(f))
    BY DEF Computed
  <2>. QED BY <1>7, <2>1, <2>2, <2>3, <2>4, <2>5, <2>6 DEF Cats
<1>9. \A r \in Ref : \A c \in DOMAIN Computed(f, r) :
        Cardinality({k \in DOMAIN s : s[k].category = c /\ s[k].ref = r}) = Computed(f, r)[c]
  BY <1>4, <1>8
<1>. QED BY <1>2, <1>3, <1>9 DEF Computes, f, s
-----------------------------------------------------------------------------
(* The jobs.                                                               *)

Doing == [pc: {"idle", "match", "leftover", "feedback", "find", "persist", "done", "error"},
          pos: Nat, seen: SUBSET Ref, left: SUBSET Ref, matched: Nat, exceptions: Seq(Gaps),
          failed: Nat]

(* The rows of the external file before row m have been read.              *)
RowsOf(in) == in.external.rows
ReadTo(in, m) ==
    /\ Opens(in.external) /\ m \in 1 .. Len(RowsOf(in)) + 1
    /\ \A k \in 1 .. m - 1 : NextRecord(in.external, k) # <<>>

(* The pending reversals before exception m of the report ex are in cs.    *)
FedTo(ex, m, cs) ==
    \A k \in DOMAIN ex : k < m /\ ex[k].category = "pending_reversal" => ex[k].ref \in cs

Dues(in) == IF Readable(in.external) THEN Owed(View(in)) ELSE {}

(* A report on the files in, and the part of it that was fed back.         *)
Told(in, x) ==
    /\ Readable(in.external)
    /\ Computes(View(in), x.matched, x.exceptions)
Feeds(x, cs) ==
    /\ x.pos \in 1 .. Len(x.exceptions) + 1
    /\ x.failed = 0 => FedTo(x.exceptions, x.pos, cs)

(* The job j does x with the files in and has asked for the reversals cs.  *)
JobOK(j, in, x, cs) ==
    /\ in \in Inputs /\ x \in Doing /\ cs \subseteq Dues(in)
    /\ x.pc = "match" => ReadTo(in, x.pos) /\ Matching(in, x, x.pos)
    /\ x.pc = "leftover" => Readable(in.external) /\ Tally(in, x, Len(RowsOf(in)) + 1)
    /\ x.pc \in {"feedback", "find", "persist", "done"} => Told(in, x)
    /\ x.pc = "feedback" => Feeds(x, cs)
    /\ x.pc \in {"find", "persist", "done"} /\ j \in Feeding => Dues(in) \subseteq cs

(* A row of recon_runs.                                                    *)
RunRow == [by: Job, input: Inputs, matched: Nat, exceptions: Seq(Gaps)]
RunOK(row, in, cs) ==
    /\ row.input = in /\ Readable(in.external)
    /\ row.by \in Feeding => Dues(in) \subseteq cs

(* The inductive invariant.                                                *)
JobsOK ==
    /\ input \in [Job -> Inputs] /\ job \in [Job -> Doing] /\ called \in [Job -> SUBSET Ref]
    /\ \A j \in Job : JobOK(j, input[j], job[j], called[j])

RunsOK ==
    /\ runs \in Seq(RunRow)
    /\ \A k \in DOMAIN runs : RunOK(runs[k], input[runs[k].by], called[runs[k].by])

ReconcileInv == JobsOK /\ RunsOK

(* The counters of a job.                                                  *)
LEMMA DoingTypes ==
  ASSUME NEW x \in Doing
  PROVE  x.matched \in Nat /\ x.exceptions \in Seq(Gaps)
BY DEF Doing

(* What the files of a job are.                                            *)
LEMMA InputTypes ==
  ASSUME NEW in \in Inputs
  PROVE  /\ in.internal \in Seq(Record) /\ RowsOf(in) \in Seq(Raw(Ref))
         /\ Len(RowsOf(in)) \in Nat /\ DOMAIN RowsOf(in) = 1 .. Len(RowsOf(in))
<1>1. in \in [internal: Seq(Record), external: File(Ref)]
  BY ReconcileAssumption
<1>2. in.internal \in Seq(Record) /\ in.external \in File(Ref)
  BY <1>1
<1>3. in.external.rows \in Seq(Raw(Ref))
  <2>. HIDE DEF Raw
  <2>. QED BY <1>2 DEF File
<1>4. \A s \in Seq(Raw(Ref)) : Len(s) \in Nat /\ DOMAIN s = 1 .. Len(s)
  <2>. HIDE DEF Raw
  <2>. QED OBVIOUS
<1>. QED BY <1>2, <1>3, <1>4, Zenon DEF RowsOf

(* A job that has ended, or starts again, owes nothing new.                *)
LEMMA JobStops ==
  ASSUME NEW j \in Job, NEW in, NEW x, NEW cs, JobOK(j, in, x, cs), NEW y \in Doing,
         y.pc \in {"idle", "error"}
  PROVE  JobOK(j, in, y, cs)
<1>1. in \in Inputs /\ cs \subseteq Dues(in)
  BY DEF JobOK
<1>. QED BY <1>1 DEF JobOK

(* Open: nothing has been read.                                            *)
LEMMA JobOpens ==
  ASSUME NEW j \in Job, NEW in, NEW x, NEW cs, JobOK(j, in, x, cs), Opens(in.external), NEW y,
         y = [pc |-> "match", pos |-> 1, seen |-> {}, left |-> Indexed(in.internal), matched |-> 0,
              exceptions |-> <<>>, failed |-> 0]
  PROVE  JobOK(j, in, y, cs)
<1>1. in \in Inputs /\ cs \subseteq Dues(in)
  BY DEF JobOK
<1>2. Len(RowsOf(in)) \in Nat /\ \A r \in Indexed(in.internal) : r \in Ref
  BY <1>1, InputTypes, IndexEntry
<1>3. /\ y.pc = "match" /\ y.pos = 1 /\ y.seen = {} /\ y.left = Indexed(in.internal)
      /\ y.matched = 0 /\ y.exceptions = <<>>
  OBVIOUS
<1>4. y \in Doing
  BY <1>2 DEF Doing
<1>5. ReadTo(in, 1)
  BY <1>2 DEF ReadTo
<1>6. Matching(in, y, 1)
  <2>1. \A r : Upto(in, 1, r) = {}
    BY DEF Upto
  <2>2. SeenBy(in, 1) = {} /\ AgreeUpto(in, 1) = {}
    BY <2>1 DEF SeenBy, AgreeUpto
  <2>3. DiffUpto(in, 1) = {} /\ \A r : Dups(in, 1, r) = 0
    BY <2>1, <2>2 DEF DiffUpto, Dups
  <2>4. IsFiniteSet({}) /\ Cardinality({}) = 0
    BY FS_EmptySet
  <2>5. \A c, r : Count(<<>>, c, r) = 0
    <3>1. \A c, r : Hits(<<>>, c, r) = {}
      BY DEF Hits
    <3>. QED BY <2>4, <3>1 DEF Count
  <2>6. \A r : Has(r, {}) = 0
    BY DEF Has
  <2>7. y.exceptions = <<>> /\ y.seen = {} /\ y.left = Indexed(in.internal) /\ y.matched = 0
    BY <1>3
  <2>8. <<>> \in Seq(Gaps) /\ SeenBy(in, 1) \ Indexed(in.internal) = {}
        /\ Indexed(in.internal) \ SeenBy(in, 1) = Indexed(in.internal)
    BY <2>2
  <2>. QED BY <2>2, <2>3, <2>4, <2>5, <2>6, <2>7, <2>8 DEF Matching
<1>7. y.pc = "match" /\ y.pos = 1
  BY <1>3
<1>. QED BY <1>1, <1>4, <1>5, <1>6, <1>7 DEF JobOK

(* MatchNext: the row is counted in its category.                          *)
LEMMA JobMatches ==
  ASSUME NEW j \in Job, NEW in, NEW x, NEW cs, JobOK(j, in, x, cs), x.pc = "match",
         x.pos <= Len(RowsOf(in)), NextRecord(in.external, x.pos) # <<>>, NEW e,
         e = NextRecord(in.external, x.pos)[1], NEW y, NEW exs, NEW hits, NEW n,
         y = [x EXCEPT !.pos = x.pos + 1, !.seen = x.seen \cup hits, !.left = x.left \ hits,
                       !.matched = x.matched + n, !.exceptions = x.exceptions \o exs],
         \/ e.ref \in x.seen /\ exs = <<Gap("duplicate", <<>>, <<e>>, 0)>> /\ hits = {} /\ n = 0
         \/ /\ e.ref \notin x.seen /\ e.ref \notin Indexed(in.internal)
            /\ exs = <<Gap("unmatched_external", <<>>, <<e>>, 0)>> /\ hits = {e.ref} /\ n = 0
         \/ /\ e.ref \notin x.seen /\ e.ref \in Indexed(in.internal)
            /\ ~Agree(EntryOf(in.internal, e.ref), e)
            /\ exs = <<Gap("amount_mismatch", <<EntryOf(in.internal, e.ref)>>, <<e>>,
                           e.amount - EntryOf(in.internal, e.ref).amount)>>
            /\ hits = {e.ref} /\ n = 0
         \/ /\ e.ref \notin x.seen /\ e.ref \in Indexed(in.internal)
            /\ Agree(EntryOf(in.internal, e.ref), e)
            /\ exs = <<>> /\ hits = {e.ref} /\ n = 1
  PROVE  JobOK(j, in, y, cs)
<1>. DEFINE m == x.pos
<1>1. in \in Inputs /\ x \in Doing /\ cs \subseteq Dues(in) /\ ReadTo(in, m) /\ Matching(in, x, m)
  BY DEF JobOK
<1>2. in.internal \in Seq(Record) /\ Len(RowsOf(in)) \in Nat /\ DOMAIN RowsOf(in) = 1 .. Len(RowsOf(in))
  BY <1>1, InputTypes
<1>3. m \in Nat \ {0} /\ m \in DOMAIN RowsOf(in)
  BY <1>1, <1>2 DEF ReadTo
<1>4. e \in Record /\ e = Read(in, m)
  BY <1>1, <1>3, RowIsRecord DEF Read, RowsOf
<1>5. /\ y.pc = "match" /\ y.pos = m + 1 /\ y.failed = x.failed /\ Step(x, y, exs, hits, n)
      /\ DOMAIN y = DOMAIN x
  BY <1>1 DEF Doing, Step
<1>6. x.seen = SeenBy(in, m)
  BY <1>1 DEF Matching
<1>. HIDE DEF m
<1>7. Matching(in, y, m + 1)
  <2>1. CASE e.ref \in x.seen
    <3>1. Step(x, y, <<Gap("duplicate", <<>>, <<e>>, 0)>>, {}, 0)
      BY <1>5, <2>1, Zenon
    <3>. QED BY <1>1, <1>3, <1>4, <1>6, <2>1, <3>1, MatchDuplicate, Zenon
  <2>2. CASE e.ref \notin x.seen /\ e.ref \notin Indexed(in.internal)
    <3>1. Step(x, y, <<Gap("unmatched_external", <<>>, <<e>>, 0)>>, {e.ref}, 0)
      BY <1>5, <2>2, Zenon
    <3>. QED BY <1>1, <1>3, <1>4, <1>6, <2>2, <3>1, MatchForeign, Zenon
  <2>3. CASE /\ e.ref \notin x.seen /\ e.ref \in Indexed(in.internal)
             /\ ~Agree(EntryOf(in.internal, e.ref), e)
    <3>1. Step(x, y, <<Gap("amount_mismatch", <<EntryOf(in.internal, e.ref)>>, <<e>>,
                           e.amount - EntryOf(in.internal, e.ref).amount)>>, {e.ref}, 0)
      BY <1>5, <2>3, Zenon
    <3>. QED BY <1>1, <1>2, <1>3, <1>4, <1>6, <2>3, <3>1, MatchDiffers, Zenon
  <2>4. CASE /\ e.ref \notin x.seen /\ e.ref \in Indexed(in.internal)
             /\ Agree(EntryOf(in.internal, e.ref), e)
    <3>1. Step(x, y, <<>>, {e.ref}, 1)
      BY <1>5, <2>4, Zenon
    <3>. QED BY <1>1, <1>3, <1>4, <1>6, <2>4, <3>1, MatchAgrees, Zenon
  <2>. QED BY <2>1, <2>2, <2>3, <2>4, Zenon
<1>8. ReadTo(in, m + 1)
  <2>1. \A k \in 1 .. (m + 1) - 1 : k \in 1 .. m - 1 \/ k = m
    BY <1>3
  <2>2. m + 1 \in 1 .. Len(RowsOf(in)) + 1
    BY <1>2, <1>3
  <2>3. \A k \in 1 .. m - 1 : NextRecord(in.external, k) # <<>>
    BY <1>1 DEF ReadTo
  <2>. QED BY <1>1, <2>1, <2>2, <2>3 DEF ReadTo, m
<1>9. y \in Doing
  <2>1. n \in {0, 1}
    OBVIOUS
  <2>2. hits \subseteq Ref
    BY <1>4 DEF Record
  <2>3. y.exceptions \in Seq(Gaps)
    BY <1>7 DEF Matching
  <2>4. y.pos \in Nat /\ y.matched \in Nat /\ y.seen \in SUBSET Ref /\ y.left \in SUBSET Ref
    BY <1>1, <1>3, <1>5, <2>1, <2>2 DEF Step, Doing
  <2>5. x.exceptions \o exs \in Seq(Gaps)
    BY <1>5, <2>3 DEF Step
  <2>6. /\ x.pos + 1 \in Nat /\ x.matched + n \in Nat /\ x.seen \cup hits \in SUBSET Ref
        /\ x.left \ hits \in SUBSET Ref
    BY <1>1, <2>1, <2>2 DEF Doing
  <2>. QED BY <1>1, <2>5, <2>6 DEF Doing
<1>. QED BY <1>1, <1>5, <1>6, <1>7, <1>8, <1>9 DEF JobOK

(* EndOfFile: the whole file has been read.                                *)
LEMMA JobReadsAll ==
  ASSUME NEW j \in Job, NEW in, NEW x, NEW cs, JobOK(j, in, x, cs), x.pc = "match",
         ~(x.pos <= Len(RowsOf(in))), NEW y, y = [x EXCEPT !.pc = "leftover"]
  PROVE  JobOK(j, in, y, cs)
<1>1. in \in Inputs /\ x \in Doing /\ cs \subseteq Dues(in) /\ ReadTo(in, x.pos) /\ Matching(in, x, x.pos)
  BY DEF JobOK
<1>2. Len(RowsOf(in)) \in Nat /\ DOMAIN RowsOf(in) = 1 .. Len(RowsOf(in))
  BY <1>1, InputTypes
<1>3. x.pos = Len(RowsOf(in)) + 1
  BY <1>1, <1>2 DEF ReadTo
<1>4. Readable(in.external)
  <2>1. 1 .. x.pos - 1 = DOMAIN in.external.rows
    BY <1>2, <1>3 DEF RowsOf
  <2>. QED BY <1>1, <2>1 DEF ReadTo, Readable
<1>5. Tally(in, x, Len(RowsOf(in)) + 1)
  BY <1>1, <1>3, TallyStart
<1>6. /\ y \in Doing /\ y.pc = "leftover" /\ y.exceptions = x.exceptions /\ y.seen = x.seen
      /\ y.left = x.left /\ y.matched = x.matched
  BY <1>1 DEF Doing
<1>7. Tally(in, y, Len(RowsOf(in)) + 1)
  BY <1>5, <1>6 DEF Tally
<1>. QED BY <1>1, <1>4, <1>6, <1>7 DEF JobOK

(* Leftover: an entry is listed.                                           *)
LEMMA JobLists ==
  ASSUME NEW j \in Job, NEW in, NEW x, NEW cs, JobOK(j, in, x, cs), x.pc = "leftover",
         NEW q \in x.left, NEW c,
         c = classifyUnmatchedInternal(EntryOf(in.internal, q), settledReversals(in.internal)),
         NEW y,
         y = [x EXCEPT !.left = x.left \ {q},
                       !.exceptions = Append(x.exceptions, Gap(c, <<EntryOf(in.internal, q)>>, <<>>, 0))]
  PROVE  JobOK(j, in, y, cs)
<1>. DEFINE m == Len(RowsOf(in)) + 1
            g == Gap(c, <<EntryOf(in.internal, q)>>, <<>>, 0)
<1>1. in \in Inputs /\ x \in Doing /\ cs \subseteq Dues(in) /\ Readable(in.external) /\ Tally(in, x, m)
  BY DEF JobOK
<1>2. in.internal \in Seq(Record)
  BY <1>1, InputTypes
<1>. HIDE DEF g, m
<1>3. y = [x EXCEPT !.left = x.left \ {q}, !.exceptions = Append(x.exceptions, g)]
  BY DEF g
<1>4. /\ y.pc = "leftover" /\ y.left = x.left \ {q} /\ y.seen = x.seen /\ y.matched = x.matched
      /\ y.exceptions = Append(x.exceptions, g)
  BY <1>1, <1>3 DEF Doing
<1>5. Tally(in, y, m)
  BY <1>1, <1>2, <1>4, TallyLeft, Zenon DEF g
<1>6. Append(x.exceptions, g) \in Seq(Gaps)
  BY <1>4, <1>5 DEF Tally
<1>7. y \in Doing
  BY <1>1, <1>3, <1>6 DEF Doing
<1>. QED BY <1>1, <1>4, <1>5, <1>7 DEF JobOK, m

(* A right report names the owed references, and no others, as pending     *)
(* reversals.                                                              *)
LEMMA ReportNames ==
  ASSUME NEW in \in Inputs, NEW x \in Doing, Told(in, x)
  PROVE  /\ \A k \in DOMAIN x.exceptions :
              x.exceptions[k].category = "pending_reversal" => x.exceptions[k].ref \in Dues(in)
         /\ \A r \in Dues(in) : \E k \in DOMAIN x.exceptions :
              x.exceptions[k].category = "pending_reversal" /\ x.exceptions[k].ref = r
<1>. DEFINE ex == x.exceptions
            f == View(in)
<1>1. ex \in Seq(Gaps) /\ Readable(in.external) /\ Computes(f, x.matched, ex)
  BY DEF Told, Doing
<1>2. Dues(in) = Owed(f)
  BY <1>1 DEF Dues
<1>3. Owed(f) \subseteq Ref
  <2>1. f.internal = in.internal /\ in.internal \in Seq(Record)
    BY InputTypes DEF View
  <2>2. \A r \in Indexed(in.internal) : r \in Ref
    BY <2>1, IndexEntry
  <2>3. Owed(f) \subseteq Missing(f) /\ Missing(f) \subseteq Indexed(f.internal)
    BY Zenon DEF Owed, Missing
  <2>. QED BY <2>1, <2>2, <2>3
<1>. HIDE DEF f, ex
<1>4. ASSUME NEW r \in Ref
      PROVE  Cardinality(Hits(ex, "pending_reversal", r)) = Has(r, Owed(f))
  <2>1. /\ "pending_reversal" \in DOMAIN Computed(f, r)
        /\ Computed(f, r)["pending_reversal"] = Has(r, Owed(f))
    BY DEF Computed
  <2>2. \A c \in DOMAIN Computed(f, r) :
          Cardinality({k \in DOMAIN ex : ex[k].category = c /\ ex[k].ref = r}) = Computed(f, r)[c]
    BY <1>1, Zenon DEF Computes
  <2>3. Cardinality({k \in DOMAIN ex : ex[k].category = "pending_reversal" /\ ex[k].ref = r})
          = Computed(f, r)["pending_reversal"]
    BY <2>1, <2>2, Zenon
  <2>. QED BY <2>1, <2>3, Zenon DEF Hits
<1>5. \A r : IsFiniteSet(Hits(ex, "pending_reversal", r))
  BY <1>1, HitsFinite
<1>6. ASSUME NEW k \in DOMAIN ex, ex[k].category = "pending_reversal"
      PROVE  ex[k].ref \in Owed(f)
  <2>1. ex[k].ref \in Ref /\ k \in Hits(ex, "pending_reversal", ex[k].ref)
    <3>1. ex[k] \in Gaps
      BY <1>1
    <3>2. ex[k].ref \in Ref
      BY <3>1 DEF Gaps
    <3>3. k \in Hits(ex, "pending_reversal", ex[k].ref)
      BY <1>6, Zenon DEF Hits
    <3>. QED BY <3>2, <3>3
  <2>2. Cardinality(Hits(ex, "pending_reversal", ex[k].ref)) # 0
    BY <1>5, <2>1, FS_EmptySet
  <2>. QED BY <1>4, <2>1, <2>2 DEF Has
<1>7. ASSUME NEW r \in Owed(f)
      PROVE  \E k \in DOMAIN ex : ex[k].category = "pending_reversal" /\ ex[k].ref = r
  <2>1. Cardinality(Hits(ex, "pending_reversal", r)) = 1
    BY <1>3, <1>4 DEF Has
  <2>2. Hits(ex, "pending_reversal", r) # {}
    BY <2>1, FS_EmptySet
  <2>. QED BY <2>2 DEF Hits
<1>. QED BY <1>2, <1>6, <1>7, Zenon DEF ex

(* Report: what Match has counted is the report.                           *)
LEMMA JobReports ==
  ASSUME NEW j \in Job, NEW in, NEW x, NEW cs, JobOK(j, in, x, cs), x.pc = "leftover", x.left = {},
         NEW pc, pc = AfterReport(j), NEW s, s = sortExceptions(x.exceptions), NEW y,
         y = [x EXCEPT !.pc = pc, !.pos = 1, !.exceptions = s]
  PROVE  JobOK(j, in, y, cs)
<1>. DEFINE n == Len(RowsOf(in))
<1>1. in \in Inputs /\ x \in Doing /\ cs \subseteq Dues(in) /\ Readable(in.external) /\ Tally(in, x, n + 1)
  BY DEF JobOK
<1>2. in.internal \in Seq(Record) /\ n \in Nat /\ DOMAIN in.external.rows = 1 .. n
  BY <1>1, InputTypes DEF RowsOf
<1>3. Computes(View(in), x.matched, s)
  <2>. HIDE DEF n
  <2>. QED BY <1>1, <1>2, ReportRight, Zenon
<1>4. s \in Seq(Gaps)
  BY <1>1, Sorting DEF Tally
<1>5. pc \in {"feedback", "find", "done"} /\ (j \in Feeding => pc = "feedback")
  BY DEF AfterReport, AfterFeedback
<1>6. y \in Doing
  BY <1>1, <1>4, <1>5 DEF Doing
<1>7. y.pc = pc /\ y.pos = 1 /\ y.exceptions = s /\ y.matched = x.matched
  BY <1>1 DEF Doing
<1>8. Told(in, y)
  BY <1>1, <1>3, <1>7 DEF Told
<1>9. Feeds(y, cs)
  <2>1. Len(s) \in Nat /\ \A k \in DOMAIN s : ~(k < 1)
    BY <1>4
  <2>. QED BY <1>7, <2>1 DEF Feeds, FedTo
<1>. QED BY <1>1, <1>5, <1>6, <1>7, <1>8, <1>9 DEF JobOK

(* One exception is fed back, or passed over; n counts a failed call.      *)
FeedOne(x, y, cs, ds, n) ==
    /\ n \in {0, 1} /\ y = [x EXCEPT !.pos = x.pos + 1, !.failed = x.failed + n]
    /\ LET e == x.exceptions[x.pos]
       IN  \/ e.category # "pending_reversal" /\ n = 0 /\ ds = cs
           \/ e.category = "pending_reversal" /\ ds = cs \cup {e.ref}
           \/ e.category = "pending_reversal" /\ n = 1 /\ ds = cs

(* Feed: only what is owed is asked for; without a failed call nothing is  *)
(* passed over.                                                            *)
LEMMA JobFeeds ==
  ASSUME NEW j \in Job, NEW in, NEW x, NEW cs, JobOK(j, in, x, cs), x.pc = "feedback",
         x.pos <= Len(x.exceptions), NEW n, NEW ds, NEW y, FeedOne(x, y, cs, ds, n)
  PROVE  JobOK(j, in, y, ds)
<1>. DEFINE e == x.exceptions[x.pos]
<1>0. /\ n \in {0, 1} /\ y = [x EXCEPT !.pos = x.pos + 1, !.failed = x.failed + n]
      /\ \/ e.category # "pending_reversal" /\ n = 0 /\ ds = cs
         \/ e.category = "pending_reversal" /\ ds = cs \cup {e.ref}
         \/ e.category = "pending_reversal" /\ n = 1 /\ ds = cs
  BY DEF FeedOne
<1>. HIDE DEF e
<1>1. in \in Inputs /\ x \in Doing /\ cs \subseteq Dues(in) /\ Told(in, x) /\ Feeds(x, cs)
  BY DEF JobOK
<1>. DEFINE ex == x.exceptions
<1>2. ex \in Seq(Gaps) /\ x.pos \in 1 .. Len(ex) + 1 /\ x.failed \in Nat
  BY <1>1 DEF Feeds, Doing
<1>3. Len(ex) \in Nat /\ DOMAIN ex = 1 .. Len(ex) /\ x.pos \in DOMAIN ex /\ x.pos \in Nat
  BY <1>2
<1>4. e.category = "pending_reversal" => e.ref \in Dues(in)
  BY <1>1, <1>3, ReportNames, Zenon DEF e
<1>5. cs \subseteq ds /\ ds \subseteq Dues(in)
  BY <1>0, <1>1, <1>4
<1>6. /\ y \in Doing /\ y.pc = "feedback" /\ y.pos = x.pos + 1 /\ y.failed = x.failed + n
      /\ y.exceptions = ex /\ y.matched = x.matched
  <2>1. x.pos + 1 \in Nat /\ x.failed + n \in Nat
    BY <1>0, <1>2, <1>3
  <2>2. y \in Doing
    BY <1>0, <1>1, <2>1 DEF Doing
  <2>3. y.pc = "feedback" /\ y.pos = x.pos + 1 /\ y.failed = x.failed + n
    BY <1>0, <1>1 DEF Doing
  <2>4. y.exceptions = ex /\ y.matched = x.matched
    BY <1>0, <1>1 DEF Doing
  <2>. QED BY <2>2, <2>3, <2>4
<1>7. Told(in, y)
  BY <1>1, <1>6 DEF Told
<1>. HIDE DEF ex
<1>8. y.pos \in 1 .. Len(y.exceptions) + 1
  BY <1>3, <1>6 DEF ex
<1>9. ASSUME y.failed = 0 PROVE FedTo(y.exceptions, y.pos, ds)
  <2>1. x.failed = 0 /\ n = 0
    BY <1>0, <1>2, <1>6, <1>9
  <2>2. FedTo(ex, x.pos, cs)
    BY <1>1, <2>1 DEF Feeds, ex
  <2>3. e.category = "pending_reversal" => e.ref \in ds
    BY <1>0, <2>1
  <2>4. e = ex[x.pos]
    BY DEF ex, e
  <2>5. ASSUME NEW k \in DOMAIN ex, k < x.pos + 1, ex[k].category = "pending_reversal"
        PROVE  ex[k].ref \in ds
    <3>1. k < x.pos \/ k = x.pos
      BY <1>3, <2>5
    <3>2. CASE k < x.pos
      BY <1>5, <2>2, <2>5, <3>2 DEF FedTo
    <3>3. CASE k = x.pos
      BY <2>3, <2>4, <2>5, <3>3
    <3>. QED BY <3>1, <3>2, <3>3
  <2>. QED BY <1>6, <2>5 DEF FedTo
<1>10. Feeds(y, ds)
  BY <1>8, <1>9 DEF Feeds
<1>. QED BY <1>1, <1>5, <1>6, <1>7, <1>10 DEF JobOK

(* EndFeed: without a failed call everything owed has been asked for.      *)
LEMMA JobFed ==
  ASSUME NEW j \in Job, NEW in, NEW x, NEW cs, JobOK(j, in, x, cs), x.pc = "feedback",
         x.pos > Len(x.exceptions), NEW pc,
         pc = IF x.failed > 0 THEN "error" ELSE AfterFeedback(j), NEW y, y = [x EXCEPT !.pc = pc]
  PROVE  JobOK(j, in, y, cs)
<1>1. in \in Inputs /\ x \in Doing /\ cs \subseteq Dues(in) /\ Told(in, x) /\ Feeds(x, cs)
  BY DEF JobOK
<1>. DEFINE ex == x.exceptions
<1>2. ex \in Seq(Gaps) /\ x.pos \in 1 .. Len(ex) + 1 /\ x.failed \in Nat
  BY <1>1 DEF Feeds, Doing
<1>3. pc \in {"find", "done", "error"} /\ (pc # "error" => x.failed = 0)
  BY <1>2 DEF AfterFeedback
<1>4. y \in Doing
  BY <1>1, <1>3 DEF Doing
<1>5. y.pc = pc /\ y.exceptions = ex /\ y.matched = x.matched
  BY <1>1 DEF Doing
<1>6. Told(in, y)
  BY <1>1, <1>5 DEF Told
<1>7. ASSUME x.failed = 0 PROVE Dues(in) \subseteq cs
  <2>1. FedTo(ex, x.pos, cs)
    BY <1>1, <1>7 DEF Feeds
  <2>2. \A k \in DOMAIN ex : k < x.pos
    BY <1>2
  <2>3. \A k \in DOMAIN ex : ex[k].category = "pending_reversal" => ex[k].ref \in cs
    BY <2>1, <2>2, Zenon DEF FedTo
  <2>4. \A r \in Dues(in) : \E k \in DOMAIN ex : ex[k].category = "pending_reversal" /\ ex[k].ref = r
    BY <1>1, ReportNames, Zenon
  <2>. HIDE DEF ex
  <2>. QED BY <2>3, <2>4, Zenon
<1>. QED BY <1>1, <1>3, <1>4, <1>5, <1>6, <1>7 DEF JobOK

(* FindByFingerprint and Persist keep the report.                          *)
LEMMA JobSettles ==
  ASSUME NEW j \in Job, NEW in, NEW x, NEW cs, JobOK(j, in, x, cs), x.pc \in {"find", "persist"},
         NEW pc \in {"persist", "done"}, NEW y, y = [x EXCEPT !.pc = pc]
  PROVE  JobOK(j, in, y, cs)
<1>1. /\ in \in Inputs /\ x \in Doing /\ cs \subseteq Dues(in) /\ Told(in, x)
      /\ j \in Feeding => Dues(in) \subseteq cs
  BY DEF JobOK
<1>2. y \in Doing
  BY <1>1 DEF Doing
<1>3. y.pc = pc /\ y.exceptions = x.exceptions /\ y.matched = x.matched
  BY <1>1 DEF Doing
<1>4. Told(in, y)
  BY <1>1, <1>3 DEF Told
<1>. QED BY <1>1, <1>2, <1>3, <1>4 DEF JobOK

(* A step of one job leaves the others, and the recorded runs, alone.      *)
LEMMA JobMoves ==
  ASSUME JobsOK, NEW j \in Job, NEW y, NEW ds, JobOK(j, input[j], y, ds), called[j] \subseteq ds,
         job' = [job EXCEPT ![j] = y], called' = [called EXCEPT ![j] = ds], input' = input
  PROVE  JobsOK' /\ (RunsOK /\ runs' = runs => RunsOK')
<1>1. /\ input \in [Job -> Inputs] /\ job \in [Job -> Doing] /\ called \in [Job -> SUBSET Ref]
      /\ \A i \in Job : JobOK(i, input[i], job[i], called[i])
  BY DEF JobsOK
<1>2. y \in Doing /\ ds \subseteq Dues(input[j])
  BY DEF JobOK
<1>3. Dues(input[j]) \subseteq Ref
  <2>1. input[j] \in Inputs
    BY <1>1
  <2>2. input[j].internal \in Seq(Record)
    BY <2>1, InputTypes
  <2>3. \A r \in Indexed(input[j].internal) : r \in Ref
    BY <2>2, IndexEntry
  <2>4. \A f : Owed(f) \subseteq Indexed(f.internal)
    BY Zenon DEF Owed, Missing
  <2>5. View(input[j]).internal = input[j].internal
    BY DEF View
  <2>. QED BY <2>3, <2>4, <2>5 DEF Dues
<1>4. job' \in [Job -> Doing] /\ called' \in [Job -> SUBSET Ref]
  BY <1>1, <1>2, <1>3
<1>5. ASSUME NEW i \in Job PROVE JobOK(i, input'[i], job'[i], called'[i]) /\ called[i] \subseteq called'[i]
  BY <1>1
<1>6. JobsOK'
  BY <1>1, <1>4, <1>5 DEF JobsOK
<1>7. ASSUME RunsOK, runs' = runs PROVE RunsOK'
  <2>1. runs \in Seq(RunRow) /\ \A k \in DOMAIN runs : RunOK(runs[k], input[runs[k].by], called[runs[k].by])
    BY <1>7 DEF RunsOK
  <2>2. ASSUME NEW k \in DOMAIN runs
        PROVE  RunOK(runs[k], input'[runs[k].by], called'[runs[k].by])
    <3>1. runs[k] \in RunRow
      BY <2>1
    <3>2. runs[k].by \in Job
      BY <3>1 DEF RunRow
    <3>3. called[runs[k].by] \subseteq called'[runs[k].by]
      BY <1>5, <3>2
    <3>4. RunOK(runs[k], input[runs[k].by], called[runs[k].by])
      BY <2>1
    <3>. QED BY <3>3, <3>4 DEF RunOK
  <2>. QED BY <1>7, <2>1, <2>2 DEF RunsOK
<1>. QED BY <1>6, <1>7

(* ... so for a step that asks the switch for nothing.                     *)
LEMMA JobMovesQuietly ==
  ASSUME ReconcileInv, NEW j \in Job, NEW y, JobOK(j, input[j], y, called[j]),
         job' = [job EXCEPT ![j] = y], called' = called, input' = input, runs' = runs
  PROVE  ReconcileInv'
<1>1. JobsOK /\ RunsOK /\ called \in [Job -> SUBSET Ref]
  BY DEF ReconcileInv, JobsOK
<1>2. called' = [called EXCEPT ![j] = called[j]] /\ called[j] \subseteq called[j]
  BY <1>1
<1>3. JobsOK' /\ RunsOK'
  BY <1>1, <1>2, JobMoves, Zenon
<1>. QED BY <1>3 DEF ReconcileInv

(* Every step of a job keeps the invariant.                                *)
LEMMA ReconcileStep ==
  ASSUME ReconcileInv, Next
  PROVE  ReconcileInv'
<1>1. PICK j \in Job : Work(j) \/ Fault(j) \/ Rerun(j)
  BY DEF Next
<1>. DEFINE in == input[j]
            x == job[j]
            cs == called[j]
<1>2. JobsOK /\ RunsOK /\ JobOK(j, in, x, cs)
  BY DEF ReconcileInv, JobsOK
<1>3. x \in Doing /\ in \in Inputs
  BY <1>2 DEF JobOK
<1>4. \A pc \in {"idle", "error"} : [x EXCEPT !.pc = pc] \in Doing
  <2>. HIDE DEF x
  <2>. QED BY <1>3 DEF Doing
<1>5. ASSUME Goto(j, "error"), UNCHANGED <<input, called, runs>> PROVE ReconcileInv'
  <2>. DEFINE y == [x EXCEPT !.pc = "error"]
  <2>1. y \in Doing /\ y.pc = "error" /\ job' = [job EXCEPT ![j] = y]
    BY <1>3, <1>4, <1>5 DEF Goto, Doing
  <2>. HIDE DEF y
  <2>2. JobOK(j, in, y, cs)
    BY <1>2, <2>1, JobStops
  <2>. QED BY <1>5, <2>1, <2>2, JobMovesQuietly
<1>6. CASE Open(j)
  <2>1. CASE ~Opens(in.external)
    BY <1>5, <1>6, <2>1 DEF Open
  <2>2. CASE Opens(in.external)
    <3>. DEFINE y == [pc |-> "match", pos |-> 1, seen |-> {}, left |-> Indexed(in.internal),
                      matched |-> 0, exceptions |-> <<>>, failed |-> 0]
    <3>1. job' = [job EXCEPT ![j] = y] /\ UNCHANGED <<input, called, runs>>
      BY <1>6, <2>2 DEF Open, Fresh
    <3>2. JobOK(j, in, y, cs)
      BY <1>2, <2>2, JobOpens, Zenon
    <3>. HIDE DEF y
    <3>. QED BY <3>1, <3>2, JobMovesQuietly
  <2>. QED BY <2>1, <2>2
<1>7. CASE MatchNext(j)
  <2>. DEFINE e == NextRecord(in.external, x.pos)[1]
              r == e.ref
              ix == Indexed(in.internal)
              ent == EntryOf(in.internal, r)
  <2>1. x.pc = "match" /\ x.pos <= Len(RowsOf(in)) /\ NextRecord(in.external, x.pos) # <<>>
    BY <1>7 DEF MatchNext, NextRow, More, RowsOf
  <2>2. NextRow(j)[1] = e
    BY <2>1, Zenon DEF NextRow, More, RowsOf
  <2>3. DOMAIN BuildIndex(in.internal) = ix /\ \A q \in ix : BuildIndex(in.internal)[q] = EntryOf(in.internal, q)
    BY DEF BuildIndex
  <2>4. UNCHANGED <<input, called, runs>>
    BY <1>7 DEF MatchNext
  <2>. HIDE DEF e, ix
  <2>5. \/ r \in x.seen /\ Found(j, <<Gap("duplicate", <<>>, <<e>>, 0)>>, {}, 0)
        \/ r \notin x.seen /\ r \notin ix /\ Found(j, <<Gap("unmatched_external", <<>>, <<e>>, 0)>>, {r}, 0)
        \/ /\ r \notin x.seen /\ r \in ix /\ ~Agree(ent, e)
           /\ Found(j, <<Gap("amount_mismatch", <<ent>>, <<e>>, e.amount - ent.amount)>>, {r}, 0)
        \/ r \notin x.seen /\ r \in ix /\ Agree(ent, e) /\ Found(j, <<>>, {r}, 1)
    BY <1>7, <2>2, <2>3, Zenon DEF MatchNext
  <2>6. \E exs, hits, n : 
          /\ Found(j, exs, hits, n)
          /\ \/ r \in x.seen /\ exs = <<Gap("duplicate", <<>>, <<e>>, 0)>> /\ hits = {} /\ n = 0
             \/ /\ r \notin x.seen /\ r \notin ix
                /\ exs = <<Gap("unmatched_external", <<>>, <<e>>, 0)>> /\ hits = {r} /\ n = 0
             \/ /\ r \notin x.seen /\ r \in ix /\ ~Agree(ent, e)
                /\ exs = <<Gap("amount_mismatch", <<ent>>, <<e>>, e.amount - ent.amount)>>
                /\ hits = {r} /\ n = 0
             \/ r \notin x.seen /\ r \in ix /\ Agree(ent, e) /\ exs = <<>> /\ hits = {r} /\ n = 1
    BY <2>5, Zenon
  <2>7. PICK exs, hits, n : 
          /\ Found(j, exs, hits, n)
          /\ \/ r \in x.seen /\ exs = <<Gap("duplicate", <<>>, <<e>>, 0)>> /\ hits = {} /\ n = 0
             \/ /\ r \notin x.seen /\ r \notin ix
                /\ exs = <<Gap("unmatched_external", <<>>, <<e>>, 0)>> /\ hits = {r} /\ n = 0
             \/ /\ r \notin x.seen /\ r \in ix /\ ~Agree(ent, e)
                /\ exs = <<Gap("amount_mismatch", <<ent>>, <<e>>, e.amount - ent.amount)>>
                /\ hits = {r} /\ n = 0
             \/ r \notin x.seen /\ r \in ix /\ Agree(ent, e) /\ exs = <<>> /\ hits = {r} /\ n = 1
    BY <2>6, Zenon
  <2>. DEFINE y == [x EXCEPT !.pos = x.pos + 1, !.seen = x.seen \cup hits, !.left = x.left \ hits,
                             !.matched = x.matched + n, !.exceptions = x.exceptions \o exs]
  <2>8. job' = [job EXCEPT ![j] = y]
    BY <2>7, Zenon DEF Found
  <2>9. JobOK(j, in, y, cs)
    BY <1>2, <2>1, <2>7, JobMatches, Zenon DEF e, ix
  <2>. HIDE DEF y
  <2>. QED BY <2>4, <2>8, <2>9, JobMovesQuietly, Zenon
<1>8. CASE BadRow(j)
  BY <1>5, <1>8 DEF BadRow
<1>9. CASE EndOfFile(j)
  <2>. DEFINE y == [x EXCEPT !.pc = "leftover"]
  <2>1. /\ x.pc = "match" /\ ~(x.pos <= Len(RowsOf(in))) /\ job' = [job EXCEPT ![j] = y]
        /\ UNCHANGED <<input, called, runs>>
    BY <1>9, Zenon DEF EndOfFile, More, Goto, RowsOf
  <2>2. JobOK(j, in, y, cs)
    BY <1>2, <2>1, JobReadsAll, Zenon
  <2>. HIDE DEF y
  <2>. QED BY <2>1, <2>2, JobMovesQuietly, Zenon
<1>10. CASE Leftover(j)
  <2>1. x.pc = "leftover" /\ UNCHANGED <<input, called, runs>>
    BY <1>10 DEF Leftover
  <2>2. PICK q \in x.left :
          job' = [job EXCEPT ![j] =
            [x EXCEPT !.left = x.left \ {q},
                      !.exceptions = Append(x.exceptions,
                         Gap(classifyUnmatchedInternal(EntryOf(in.internal, q), settledReversals(in.internal)),
                             <<EntryOf(in.internal, q)>>, <<>>, 0))]]
    BY <1>10, Zenon DEF Leftover
  <2>. DEFINE c == classifyUnmatchedInternal(EntryOf(in.internal, q), settledReversals(in.internal))
              y == [x EXCEPT !.left = x.left \ {q},
                             !.exceptions = Append(x.exceptions, Gap(c, <<EntryOf(in.internal, q)>>, <<>>, 0))]
  <2>3. JobOK(j, in, y, cs)
    BY <1>2, <2>1, JobLists, Zenon
  <2>4. job' = [job EXCEPT ![j] = y]
    BY <2>2, Zenon
  <2>. HIDE DEF y
  <2>. QED BY <2>1, <2>3, <2>4, JobMovesQuietly, Zenon
<1>11. CASE Report(j)
  <2>. DEFINE y == [x EXCEPT !.pc = AfterReport(j), !.pos = 1, !.exceptions = sortExceptions(x.exceptions)]
  <2>1. /\ x.pc = "leftover" /\ x.left = {} /\ job' = [job EXCEPT ![j] = y]
        /\ UNCHANGED <<input, called, runs>>
    BY <1>11, Zenon DEF Report
  <2>2. JobOK(j, in, y, cs)
    BY <1>2, <2>1, JobReports, Zenon
  <2>. HIDE DEF y
  <2>. QED BY <2>1, <2>2, JobMovesQuietly, Zenon
<1>12. CASE Feed(j)
  <2>. DEFINE e == x.exceptions[x.pos]
              Y(n) == [x EXCEPT !.pos = x.pos + 1, !.failed = x.failed + n]
  <2>1. x.pc = "feedback" /\ x.pos <= Len(x.exceptions) /\ input' = input /\ runs' = runs
    BY <1>12 DEF Feed
  <2>2. \/ /\ e.category # "pending_reversal" /\ job' = [job EXCEPT ![j] = Y(0)] /\ called' = called
        \/ /\ e.category = "pending_reversal" /\ job' = [job EXCEPT ![j] = Y(0)]
           /\ called' = [called EXCEPT ![j] = cs \cup {e.ref}]
        \/ /\ e.category = "pending_reversal" /\ job' = [job EXCEPT ![j] = Y(1)]
           /\ called' = [called EXCEPT ![j] = cs \cup {e.ref}]
        \/ /\ e.category = "pending_reversal" /\ job' = [job EXCEPT ![j] = Y(1)] /\ called' = called
    BY <1>12, Zenon DEF Feed
  <2>3. called \in [Job -> SUBSET Ref]
    BY <1>2 DEF JobsOK
  <2>4. called = [called EXCEPT ![j] = cs]
    BY <2>3
  <2>5. \E n, ds :
          /\ n \in {0, 1} /\ job' = [job EXCEPT ![j] = Y(n)] /\ called' = [called EXCEPT ![j] = ds]
          /\ \/ e.category # "pending_reversal" /\ n = 0 /\ ds = cs
             \/ e.category = "pending_reversal" /\ ds = cs \cup {e.ref}
             \/ e.category = "pending_reversal" /\ n = 1 /\ ds = cs
    BY <2>2, <2>4, Zenon
  <2>6. PICK n, ds :
          /\ n \in {0, 1} /\ job' = [job EXCEPT ![j] = Y(n)] /\ called' = [called EXCEPT ![j] = ds]
          /\ \/ e.category # "pending_reversal" /\ n = 0 /\ ds = cs
             \/ e.category = "pending_reversal" /\ ds = cs \cup {e.ref}
             \/ e.category = "pending_reversal" /\ n = 1 /\ ds = cs
    BY <2>5, Zenon
  <2>. DEFINE y == Y(n)
  <2>7. FeedOne(x, y, cs, ds, n) /\ job' = [job EXCEPT ![j] = y] /\ called' = [called EXCEPT ![j] = ds]
    BY <2>6, Zenon DEF FeedOne
  <2>. HIDE DEF y
  <2>8. JobOK(j, in, y, ds)
    BY <1>2, <2>1, <2>7, JobFeeds, Zenon
  <2>9. cs \subseteq ds
    BY <2>6
  <2>10. JobsOK' /\ RunsOK'
    BY <1>2, <2>1, <2>7, <2>8, <2>9, JobMoves, Zenon
  <2>. QED BY <2>10 DEF ReconcileInv
<1>13. CASE EndFeed(j)
  <2>. DEFINE pc == IF x.failed > 0 THEN "error" ELSE AfterFeedback(j)
              y == [x EXCEPT !.pc = pc]
  <2>1. /\ x.pc = "feedback" /\ x.pos > Len(x.exceptions) /\ job' = [job EXCEPT ![j] = y]
        /\ UNCHANGED <<input, called, runs>>
    BY <1>13, Zenon DEF EndFeed, Goto
  <2>. HIDE DEF pc
  <2>2. JobOK(j, in, y, cs)
    BY <1>2, <2>1, JobFed, Zenon DEF pc
  <2>. HIDE DEF y
  <2>. QED BY <2>1, <2>2, JobMovesQuietly, Zenon
<1>14. CASE FindByFingerprint(j)
  <2>1. x.pc = "find" /\ UNCHANGED <<input, called, runs>>
    BY <1>14 DEF FindByFingerprint
  <2>2. PICK pc \in {"persist", "done"} : job' = [job EXCEPT ![j] = [x EXCEPT !.pc = pc]]
    BY <1>14 DEF FindByFingerprint, Goto
  <2>. DEFINE y == [x EXCEPT !.pc = pc]
  <2>3. JobOK(j, in, y, cs)
    BY <1>2, <2>1, JobSettles
  <2>4. job' = [job EXCEPT ![j] = y]
    BY <2>2
  <2>. HIDE DEF y
  <2>. QED BY <2>1, <2>3, <2>4, JobMovesQuietly, Zenon
<1>15. CASE Persist(j)
  <2>1. x.pc = "persist" /\ UNCHANGED <<input, called>> /\ runs' = Append(runs, ReconRun(j))
    BY <1>15 DEF Persist
  <2>2. PICK pc \in {"done", "error"} : job' = [job EXCEPT ![j] = [x EXCEPT !.pc = pc]]
    BY <1>15 DEF Persist, Goto
  <2>. DEFINE y == [x EXCEPT !.pc = pc]
  <2>3. JobOK(j, in, y, cs)
    <3>1. CASE pc = "done"
      BY <1>2, <2>1, <3>1, JobSettles
    <3>2. CASE pc = "error"
      <4>1. y \in Doing /\ y.pc = "error"
        BY <1>3, <1>4, <3>2 DEF Doing
      <4>. HIDE DEF y
      <4>. QED BY <1>2, <4>1, JobStops
    <3>. QED BY <3>1, <3>2
  <2>4. job' = [job EXCEPT ![j] = y] /\ called \in [Job -> SUBSET Ref]
    BY <1>2, <2>2 DEF JobsOK
  <2>. HIDE DEF y
  <2>5. called' = [called EXCEPT ![j] = cs] /\ cs \subseteq cs
    BY <2>1, <2>4
  <2>6. JobsOK'
    BY <1>2, <2>1, <2>3, <2>4, <2>5, JobMoves, Zenon
  <2>7. RunsOK'
    <3>. DEFINE row == ReconRun(j)
    <3>1. Readable(in.external) /\ (j \in Feeding => Dues(in) \subseteq cs)
      BY <1>2, <2>1 DEF JobOK, Told
    <3>2. row.by = j /\ row.input = in
      BY DEF ReconRun
    <3>3. row \in RunRow
      <4>1. x.matched \in Nat /\ x.exceptions \in Seq(Gaps)
        BY <1>3 DEF Doing
      <4>. QED BY <1>3, <4>1 DEF ReconRun, RunRow
    <3>. HIDE DEF row
    <3>4. RunOK(row, input[row.by], called[row.by])
      BY <3>1, <3>2 DEF RunOK
    <3>5. runs \in Seq(RunRow) /\ \A k \in DOMAIN runs : RunOK(runs[k], input[runs[k].by], called[runs[k].by])
      BY <1>2 DEF RunsOK
    <3>6. /\ runs' \in Seq(RunRow)
          /\ \A k \in DOMAIN runs' : (k \in DOMAIN runs /\ runs'[k] = runs[k]) \/ runs'[k] = row
      BY <2>1, <3>3, <3>5 DEF row
    <3>7. \A k \in DOMAIN runs' : RunOK(runs'[k], input[runs'[k].by], called[runs'[k].by])
      BY <3>4, <3>5, <3>6, Zenon
    <3>. QED BY <2>1, <3>6, <3>7 DEF RunsOK
  <2>. QED BY <2>6, <2>7 DEF ReconcileInv
<1>16. CASE Fault(j)
  BY <1>5, <1>16 DEF Fault
<1>17. CASE Rerun(j)
  <2>1. job' = [job EXCEPT ![j] = Fresh] /\ UNCHANGED <<input, called, runs>>
    BY <1>17 DEF Rerun
  <2>2. Fresh \in Doing /\ Fresh.pc = "idle"
    BY DEF Fresh, Doing
  <2>3. JobOK(j, in, Fresh, cs)
    BY <1>2, <2>2, JobStops
  <2>. QED BY <2>1, <2>3, JobMovesQuietly
<1>. QED BY <1>1, <1>6, <1>7, <1>8, <1>9, <1>10, <1>11, <1>12, <1>13, <1>14, <1>15, <1>16, <1>17, Zenon DEF Work

(* At the start no job has done anything.                                  *)
LEMMA ReconcileInit == Init => ReconcileInv
<1>. SUFFICES ASSUME Init PROVE ReconcileInv
  OBVIOUS
<1>1. input \in [Job -> Inputs] /\ job = [j \in Job |-> Fresh] /\ called = [j \in Job |-> {}] /\ runs = <<>>
  BY DEF Init
<1>2. Fresh \in Doing /\ Fresh.pc = "idle"
  BY DEF Fresh, Doing
<1>3. ASSUME NEW j \in Job PROVE JobOK(j, input[j], job[j], called[j])
  <2>1. input[j] \in Inputs /\ job[j] = Fresh /\ called[j] = {}
    BY <1>1
  <2>2. {} \subseteq Dues(input[j])
    OBVIOUS
  <2>. QED BY <1>2, <2>1, <2>2 DEF JobOK
<1>4. JobsOK
  BY <1>1, <1>2, <1>3 DEF JobsOK
<1>5. RunsOK
  BY <1>1 DEF RunsOK
<1>. QED BY <1>4, <1>5 DEF ReconcileInv

(* What the matcher makes of the files is what they say.                   *)

Book == [internal: Seq(Record), external: Seq(Record)]

(* The first row of a reference is one of its rows.                        *)
LEMMA FirstIsRow ==
  ASSUME NEW s \in Seq(Record), NEW r, Rows(s, r) # {}
  PROVE  \E k \in Rows(s, r) : FirstOf(s, r) = s[k]
<1>. DEFINE R == Rows(s, r)
<1>1. Len(s) \in Nat /\ R \in SUBSET (1 .. Len(s)) /\ R # {}
  BY DEF Rows
<1>. HIDE DEF R
<1>2. \E k \in R : \A l \in R : k <= l
  BY <1>1, Extremes
<1>3. LeastOf(R) \in R
  BY <1>2, Zenon DEF LeastOf
<1>4. FirstOf(s, r) = s[LeastOf(R)]
  BY Zenon DEF FirstOf, LeastOf, R
<1>. QED BY <1>3, <1>4 DEF R

(* The files of a job, with the external one read row by row.              *)
Lines(in) == [internal |-> in.internal, external |-> [k \in DOMAIN RowsOf(in) |-> Read(in, k)]]

(* A file that can be read to its end is viewed as it was read.            *)
LEMMA LinesViewed ==
  ASSUME NEW in \in Inputs, Readable(in.external)
  PROVE  View(in) = Lines(in) /\ View(in) \in Book
<1>1. View(in) = Lines(in)
  BY DEF View, Lines, Parsed, Read, RowsOf
<1>2. in.internal \in Seq(Record) /\ DOMAIN RowsOf(in) = 1 .. Len(RowsOf(in)) /\ Len(RowsOf(in)) \in Nat
  BY InputTypes
<1>3. \A k \in DOMAIN RowsOf(in) : Read(in, k) \in Record
  BY RowIsRecord DEF Readable, RowsOf
<1>4. [k \in DOMAIN RowsOf(in) |-> Read(in, k)] \in Seq(Record)
  BY <1>2, <1>3
<1>. QED BY <1>1, <1>2, <1>4 DEF Lines, Book

(* The tolerance is symmetric if a Duration can hold the difference.       *)
LEMMA WindowNear ==
  ASSUME NEW a \in Nat, NEW b \in Nat, Measurable(a, b)
  PROVE  withinWindow(a, b) <=> Near(a, b)
<1>1. CASE ~Timed(a, b)
  BY <1>1, ReconcileAssumption DEF Timed, Near, withinWindow
<1>2. CASE Timed(a, b)
  <2>1. a - b >= -MaxDuration /\ a - b <= MaxDuration /\ MaxDuration \in Nat /\ Window \in Int
    BY <1>2, ReconcileAssumption DEF Measurable
  <2>2. Sub(a, b) = a - b /\ a - b # MinDuration
    BY <2>1 DEF Sub, MinDuration
  <2>3. Absolute(Sub(a, b)) = IF a - b < 0 THEN b - a ELSE a - b
    BY <2>2 DEF Absolute
  <2>. QED BY <1>2, <2>1, <2>3 DEF Timed, Near, withinWindow
<1>. QED BY <1>1, <1>2

(* The index and the reversals are the entries of the ledger.              *)
LEMMA IndexIsLedger ==
  ASSUME NEW f \in Book, NEW r
  PROVE  /\ r \in Indexed(f.internal) <=> Entries(f, r) # {}
         /\ r \in Indexed(f.internal) => EntryOf(f.internal, r) \in Entries(f, r)
         /\ r \in settledReversals(f.internal) <=> Refunded(f, r)
<1>. DEFINE s == f.internal
<1>1. s \in Seq(Record)
  BY DEF Book
<1>2. r \in Indexed(s) <=> \E k \in DOMAIN s : s[k].type # "reversal" /\ s[k].ref = r
  BY DEF Indexed
<1>3. Entries(f, r) # {} <=> \E k \in DOMAIN s : s[k].ref = r /\ s[k].type # "reversal"
  BY DEF Entries
<1>4. ASSUME r \in Indexed(s) PROVE EntryOf(s, r) \in Entries(f, r)
  <2>1. /\ EntryOf(s, r).ref = r /\ EntryOf(s, r).type # "reversal"
        /\ \E k \in DOMAIN s : EntryOf(s, r) = s[k]
    BY <1>1, <1>4, IndexEntry
  <2>. QED BY <2>1 DEF Entries
<1>5. r \in settledReversals(s) <=> Refunded(f, r)
  BY DEF settledReversals, Refunded
<1>. QED BY <1>2, <1>3, <1>4, <1>5

(* What the index holds of a reference.                                    *)
Held(f, r) == IF r \in Indexed(f.internal) THEN {EntryOf(f.internal, r)} ELSE {}

(* A reference is counted as the entry that the index holds should be.     *)
LEMMA ComputedExpected ==
  ASSUME NEW f \in Book, NEW r \in Ref, Clear(f, r)
  PROVE  /\ Held(f, r) \in Choices(f, r)
         /\ \A c \in DOMAIN Expected(f, r, Held(f, r)) :
              c \in DOMAIN Computed(f, r) /\ Computed(f, r)[c] = Expected(f, r, Held(f, r))[c]
<1>. DEFINE E == Held(f, r)
            e == EntryOf(f.internal, r)
            first == FirstOf(f.external, r)
            rows == Rows(f.external, r)
<1>1. /\ r \in Indexed(f.internal) <=> Entries(f, r) # {}
      /\ r \in Indexed(f.internal) => e \in Entries(f, r)
      /\ r \in settledReversals(f.internal) <=> Refunded(f, r)
  BY IndexIsLedger
<1>2. E \in Choices(f, r)
  BY <1>1 DEF Held, Choices
<1>3. f.internal \in Seq(Record) /\ f.external \in Seq(Record)
  BY DEF Book
<1>4. ASSUME r \in Indexed(f.internal), rows # {}
      PROVE  Agree(e, first) <=> e.amount = first.amount /\ Near(e.at, first.at)
  <2>1. e \in Record
    BY <1>3, <1>4, IndexEntry
  <2>2. first \in Record
    <3>1. PICK k \in rows : first = f.external[k]
      BY <1>3, <1>4, FirstIsRow
    <3>2. k \in DOMAIN f.external
      BY DEF Rows
    <3>. QED BY <1>3, <3>1, <3>2
  <2>3. e.at \in Nat /\ first.at \in Nat
    BY <2>1, <2>2 DEF Record
  <2>4. Measurable(e.at, first.at)
    BY <1>1, <1>4 DEF Clear
  <2>5. withinWindow(e.at, first.at) <=> Near(e.at, first.at)
    BY <2>3, <2>4, WindowNear
  <2>. QED BY <2>5 DEF Agree
<1>5. r \in Both(f) <=> r \in Indexed(f.internal) /\ rows # {}
  BY DEF Both
<1>6. r \in Missing(f) <=> r \in Indexed(f.internal) /\ rows = {}
  BY <1>5 DEF Missing
<1>7. r \in Foreign(f) <=> r \notin Indexed(f.internal) /\ rows # {}
  BY DEF Foreign
<1>8. r \in Agreed(f) <=> r \in Both(f) /\ Agree(e, first)
  BY DEF Agreed
<1>9. r \in Owed(f) <=> r \in Indexed(f.internal) /\ FailedTransfer(e) /\ Unsettled(f, r)
  BY <1>1, <1>6 DEF Owed, FailedTransfer, Unsettled
<1>10. \A x : x \in E <=> r \in Indexed(f.internal) /\ x = e
  BY DEF Held
<1>. HIDE DEF E, e, first, rows
<1>11. r \in Both(f) \ Agreed(f)
         <=> rows # {} /\ \E x \in E : x.amount # first.amount \/ ~Near(x.at, first.at)
  BY <1>4, <1>5, <1>8, <1>10
<1>12. r \in Owed(f) <=> \E x \in E : FailedTransfer(x) /\ Unsettled(f, r)
  BY <1>9, <1>10
<1>13. r \in Foreign(f) <=> rows # {} /\ E = {}
  BY <1>7, <1>10
<1>14. r \in Missing(f) \ Owed(f) <=> rows = {} /\ \E x \in E : ~(FailedTransfer(x) /\ Unsettled(f, r))
  BY <1>6, <1>9, <1>10
<1>15. \A b \in BOOLEAN : \A S : (r \in S <=> b) => Has(r, S) = One(b)
  BY DEF Has, One
<1>16. \A c \in DOMAIN Expected(f, r, E) :
         c \in DOMAIN Computed(f, r) /\ Computed(f, r)[c] = Expected(f, r, E)[c]
  BY <1>11, <1>12, <1>13, <1>14, <1>15 DEF Expected, Computed, first, rows
<1>. QED BY <1>2, <1>16 DEF E

(* The matches are the references of the settlement file that have no      *)
(* other gaps than duplicates.                                             *)
LEMMA MatchesAreRest ==
  ASSUME NEW f \in Book, NEW n, NEW ex \in Seq(Gaps), Computes(f, n, ex)
  PROVE  Agreed(f) = {r \in Ref : /\ Rows(f.external, r) # {}
                                  /\ \A k \in DOMAIN ex : ex[k].ref = r => ex[k].category = "duplicate"}
<1>. DEFINE Quiet(r) == \A k \in DOMAIN ex : ex[k].ref = r => ex[k].category = "duplicate"
<1>1. \A r \in Agreed(f) : r \in Ref /\ Rows(f.external, r) # {}
  BY IndexEntry DEF Agreed, Both, Book
<1>2. ASSUME NEW r \in Ref, Rows(f.external, r) # {} PROVE Quiet(r) <=> r \in Agreed(f)
  <2>1. \A k \in DOMAIN ex : ex[k].category \in Cats
    <3>1. \A k \in DOMAIN ex : ex[k] \in Gaps
      OBVIOUS
    <3>. QED BY <3>1 DEF Gaps
  <2>2. Quiet(r) <=> \A c \in Cats \ {"duplicate"} : Hits(ex, c, r) = {}
    BY <2>1 DEF Hits
  <2>3. \A c \in Cats : Hits(ex, c, r) = {} <=> Computed(f, r)[c] = 0
    <3>. SUFFICES ASSUME NEW c \in Cats PROVE Hits(ex, c, r) = {} <=> Computed(f, r)[c] = 0
      OBVIOUS
    <3>1. IsFiniteSet(Hits(ex, c, r))
      BY HitsFinite
    <3>2. c \in DOMAIN Computed(f, r)
      BY DEF Computed, Cats
    <3>3. Cardinality(Hits(ex, c, r)) = Computed(f, r)[c]
      BY <3>2, Zenon DEF Computes, Hits
    <3>. QED BY <3>1, <3>3, FS_EmptySet
  <2>4. r \notin Missing(f) /\ r \notin Owed(f)
    BY <1>2 DEF Missing, Both, Owed
  <2>5. /\ Computed(f, r)["amount_mismatch"] = Has(r, Both(f) \ Agreed(f))
        /\ Computed(f, r)["pending_reversal"] = 0
        /\ Computed(f, r)["unmatched_external"] = Has(r, Foreign(f))
        /\ Computed(f, r)["unmatched_internal"] = 0
    BY <2>4 DEF Computed, Has
  <2>6. (r \in Both(f) \/ r \in Foreign(f)) /\ (r \in Agreed(f) => r \in Both(f) /\ r \notin Foreign(f))
    BY <1>2 DEF Both, Foreign, Agreed
  <2>7. r \in Agreed(f) <=> r \notin Both(f) \ Agreed(f) /\ r \notin Foreign(f)
    BY <2>6
  <2>8. \A S : Has(r, S) = 0 <=> r \notin S
    BY DEF Has
  <2>. QED BY <2>2, <2>3, <2>5, <2>7, <2>8 DEF Cats
<1>. QED BY <1>1, <1>2

(* A report that has what Match computes is right.                         *)
LEMMA ComputesRight ==
  ASSUME NEW f \in Book, NEW n, NEW ex \in Seq(Gaps), Computes(f, n, ex)
  PROVE  Right(f, n, ex)
<1>1. n = Cardinality({r \in Ref : /\ Rows(f.external, r) # {}
                                   /\ \A k \in DOMAIN ex : ex[k].ref = r => ex[k].category = "duplicate"})
  <2>1. n = Cardinality(Agreed(f))
    BY Zenon DEF Computes
  <2>. QED BY <2>1, MatchesAreRest
<1>2. ASSUME NEW r \in Ref, Clear(f, r)
      PROVE  \E E \in Choices(f, r) : \A c \in DOMAIN Expected(f, r, E) :
               Cardinality({k \in DOMAIN ex : ex[k].category = c /\ ex[k].ref = r}) = Expected(f, r, E)[c]
  <2>1. /\ Held(f, r) \in Choices(f, r)
        /\ \A c \in DOMAIN Expected(f, r, Held(f, r)) :
             c \in DOMAIN Computed(f, r) /\ Computed(f, r)[c] = Expected(f, r, Held(f, r))[c]
    BY <1>2, ComputedExpected
  <2>2. \A c \in DOMAIN Computed(f, r) :
          Cardinality({k \in DOMAIN ex : ex[k].category = c /\ ex[k].ref = r}) = Computed(f, r)[c]
    BY Zenon DEF Computes
  <2>. QED BY <2>1, <2>2, Zenon
<1>3. ASSUME NEW k \in DOMAIN ex, NEW l \in DOMAIN ex, k < l
      PROVE  \/ RankOf(ex[k].category) < RankOf(ex[l].category)
             \/ ex[k].category = ex[l].category /\ ex[k].ref <= ex[l].ref
  <2>1. ~Before(ex[l], ex[k])
    BY <1>3, Zenon DEF Computes
  <2>2. /\ ex[k].category \in Cats /\ ex[l].category \in Cats
        /\ ex[k].ref \in Nat /\ ex[l].ref \in Nat
    <3>1. ex[k] \in Gaps /\ ex[l] \in Gaps
      OBVIOUS
    <3>. QED BY <3>1, ReconcileAssumption DEF Gaps
  <2>. QED BY <2>1, <2>2, RankInjective DEF Before
<1>. QED BY <1>1, <1>2, <1>3, Zenon DEF Right

(* What is asked for may be owed, and what is owed is asked for.           *)
LEMMA OwedIsOwed ==
  ASSUME NEW f \in Book, NEW r
  PROVE  (r \in Owed(f) => MayBeOwed(f, r)) /\ (r \in Ref /\ IsOwed(f, r) => r \in Owed(f))
<1>. DEFINE e == EntryOf(f.internal, r)
<1>1. /\ r \in Indexed(f.internal) <=> Entries(f, r) # {}
      /\ r \in Indexed(f.internal) => e \in Entries(f, r)
      /\ r \in settledReversals(f.internal) <=> Refunded(f, r)
  BY IndexIsLedger
<1>2. r \in Missing(f) <=> r \in Indexed(f.internal) /\ Rows(f.external, r) = {}
  BY DEF Missing, Both
<1>3. r \in Owed(f) <=> r \in Indexed(f.internal) /\ FailedTransfer(e) /\ Unsettled(f, r)
  BY <1>1, <1>2 DEF Owed, FailedTransfer, Unsettled
<1>. HIDE DEF e
<1>. QED BY <1>1, <1>3 DEF MayBeOwed, IsOwed
-----------------------------------------------------------------------------
(* The invariant holds in every state of every behaviour of the jobs.      *)
LEMMA ReconcileAlways == Spec => []ReconcileInv
<1>1. ASSUME ReconcileInv, UNCHANGED vars PROVE ReconcileInv'
  BY <1>1 DEF ReconcileInv, JobsOK, RunsOK, vars
<1>2. ReconcileInv /\ [Next]_vars => ReconcileInv'
  BY <1>1, ReconcileStep
<1>. QED BY <1>2, ReconcileInit, PTL DEF Spec

(* The report says what the two files say, for every pair of files, every  *)
(* tolerance and every order in which the leftover entries of the Go map   *)
(* come out: each reference is counted as matched or stands in the         *)
(* categories it belongs to, as often as it should, and the list is in     *)
(* order (matcher.go Match, sortExceptions).  One entry speaks for a       *)
(* reference that the ledger has several of, and nothing is said of a      *)
(* difference of times that no Duration holds.                             *)
THEOREM ReportsRight == Spec => []MatchIsRight
<1>1. ReconcileInv => MatchIsRight
  <2>. SUFFICES ASSUME ReconcileInv, NEW j \in Job, Reported(j)
                PROVE  Right(View(input[j]), job[j].matched, job[j].exceptions)
    BY DEF MatchIsRight
  <2>1. JobOK(j, input[j], job[j], called[j])
    BY DEF ReconcileInv, JobsOK
  <2>2. input[j] \in Inputs /\ job[j] \in Doing /\ Told(input[j], job[j])
    BY <2>1 DEF JobOK, Reported
  <2>3. View(input[j]) \in Book /\ Computes(View(input[j]), job[j].matched, job[j].exceptions)
    BY <2>2, LinesViewed DEF Told
  <2>4. job[j].exceptions \in Seq(Gaps)
    BY <2>2, DoingTypes
  <2>. QED BY <2>3, <2>4, ComputesRight
<1>. QED BY <1>1, ReconcileAlways, PTL

(* The switch is asked to reverse only what may be owed, and a recorded    *)
(* run of a job that feeds back has fed back everything that is owed,      *)
(* whatever calls failed or lost their replies before (feedback.go         *)
(* sendFeedback, main.go).                                                 *)
THEOREM FedBack == Spec => []FeedbackBeforeRecord
<1>1. ReconcileInv => FeedbackBeforeRecord
  <2>. SUFFICES ASSUME ReconcileInv PROVE FeedbackBeforeRecord
    OBVIOUS
  <2>1. ASSUME NEW j \in Job, NEW r \in called[j]
        PROVE  Readable(input[j].external) /\ MayBeOwed(View(input[j]), r)
    <3>1. JobOK(j, input[j], job[j], called[j])
      BY DEF ReconcileInv, JobsOK
    <3>2. input[j] \in Inputs /\ r \in Dues(input[j])
      BY <3>1 DEF JobOK
    <3>3. Readable(input[j].external) /\ r \in Owed(View(input[j]))
      BY <3>2 DEF Dues
    <3>4. View(input[j]) \in Book
      BY <3>2, <3>3, LinesViewed
    <3>. QED BY <3>3, <3>4, OwedIsOwed
  <2>2. ASSUME NEW k \in DOMAIN runs, runs[k].by \in Feeding, NEW r \in Ref, IsOwed(View(runs[k].input), r)
        PROVE  r \in called[runs[k].by]
    <3>. DEFINE in == runs[k].input
    <3>1. RunOK(runs[k], input[runs[k].by], called[runs[k].by])
      BY DEF ReconcileInv, RunsOK
    <3>2. Readable(in.external) /\ Dues(in) \subseteq called[runs[k].by]
      BY <2>2, <3>1 DEF RunOK
    <3>3. in \in Inputs
      <4>1. runs[k] \in RunRow
        BY DEF ReconcileInv, RunsOK
      <4>. QED BY <4>1 DEF RunRow
    <3>4. View(in) \in Book
      BY <3>2, <3>3, LinesViewed
    <3>5. r \in Owed(View(in))
      BY <2>2, <3>4, OwedIsOwed
    <3>. QED BY <3>2, <3>5 DEF Dues
  <2>. QED BY <2>1, <2>2 DEF FeedbackBeforeRecord
<1>. QED BY <1>1, ReconcileAlways, PTL

(* A settlement file with a malformed row or a wrong header has no effect: *)
(* no report, no reversal and no recorded run comes of it, however much of *)
(* it was matched before (matcher.go Match, main.go runReconcile).         *)
THEOREM MalformedInert == Spec => []MalformedHasNoEffect
<1>1. ReconcileInv => MalformedHasNoEffect
  <2>. SUFFICES ASSUME ReconcileInv, NEW j \in Job, ~Readable(input[j].external)
                PROVE  /\ ~Reported(j) /\ called[j] = {}
                       /\ \A k \in DOMAIN runs : runs[k].input # input[j]
    BY DEF MalformedHasNoEffect
  <2>1. JobOK(j, input[j], job[j], called[j])
    BY DEF ReconcileInv, JobsOK
  <2>2. ~Reported(j)
    BY <2>1 DEF JobOK, Told, Reported
  <2>3. called[j] = {}
    BY <2>1 DEF JobOK, Dues
  <2>4. ASSUME NEW k \in DOMAIN runs PROVE runs[k].input # input[j]
    <3>1. RunOK(runs[k], input[runs[k].by], called[runs[k].by])
      BY DEF ReconcileInv, RunsOK
    <3>. QED BY <3>1 DEF RunOK
  <2>. QED BY <2>2, <2>3, <2>4
<1>. QED BY <1>1, ReconcileAlways, PTL

(* The files of job j are on record, and it is not about to record them.   *)
Settled(j) == job[j].pc # "persist" /\ \E k \in DOMAIN runs : runs[k].input = input[j]

(* ... and stays so: the lookup of a job that starts later finds the run.  *)
LEMMA StaysSettled ==
  ASSUME NEW j \in Job, ReconcileInv, Settled(j), [Next]_vars
  PROVE  Settled(j)'
<1>1. /\ input \in [Job -> Inputs] /\ job \in [Job -> Doing] /\ runs \in Seq(RunRow)
  BY DEF ReconcileInv, JobsOK, RunsOK
<1>2. job[j].pc # "persist" /\ FindCompletedRunByFingerprint(input[j]) # {}
  BY DEF Settled, FindCompletedRunByFingerprint
<1>3. ASSUME NEW i \in Job, Work(i) \/ Fault(i) \/ Rerun(i)
      PROVE  input' = input /\ (runs' = runs \/ \E row \in RunRow : runs' = Append(runs, row))
  <2>1. CASE Persist(i)
    <3>1. ReconRun(i) \in RunRow
      <4>1. input[i] \in Inputs /\ job[i] \in Doing
        BY <1>1
      <4>2. job[i].matched \in Nat /\ job[i].exceptions \in Seq(Gaps)
        BY <4>1, DoingTypes, SMT
      <4>. QED BY <4>1, <4>2 DEF ReconRun, RunRow
    <3>. QED BY <2>1, <3>1 DEF Persist
  <2>2. CASE ~Persist(i)
    BY <1>3, <2>2 DEF Work, Open, MatchNext, BadRow, EndOfFile, Leftover, Report, Feed, EndFeed,
                      FindByFingerprint, Fault, Rerun
  <2>. QED BY <2>1, <2>2
<1>4. input' = input /\ (runs' = runs \/ \E row \in RunRow : runs' = Append(runs, row))
  <2>1. CASE UNCHANGED vars
    BY <2>1 DEF vars
  <2>2. CASE Next
    BY <1>3, <2>2 DEF Next
  <2>. QED BY <2>1, <2>2
<1>5. \E k \in DOMAIN runs' : runs'[k].input = input'[j]
  <2>1. PICK k \in DOMAIN runs : runs[k].input = input[j]
    BY DEF Settled
  <2>2. k \in DOMAIN runs' /\ runs'[k] = runs[k]
    BY <1>1, <1>4
  <2>. QED BY <1>4, <2>1, <2>2
<1>6. job'[j].pc # "persist"
  <2>1. CASE UNCHANGED vars
    BY <1>2, <2>1 DEF vars
  <2>2. ASSUME NEW i \in Job, Work(i) \/ Fault(i) \/ Rerun(i) PROVE job'[j].pc # "persist"
    <3>1. ASSUME NEW y, y.pc # "persist", job' = [job EXCEPT ![i] = y] PROVE job'[j].pc # "persist"
      BY <1>1, <1>2, <3>1
    <3>2. job[i] \in Doing
      BY <1>1
    <3>3. ASSUME NEW pc, pc # "persist", Goto(i, pc) PROVE job'[j].pc # "persist"
      <4>1. [job[i] EXCEPT !.pc = pc].pc = pc
        BY <3>2 DEF Doing
      <4>. QED BY <3>1, <3>3, <4>1 DEF Goto
    <3>4. AfterReport(i) # "persist" /\ AfterFeedback(i) # "persist"
      BY DEF AfterReport, AfterFeedback
    <3>5. CASE Open(i)
      <4>1. [Fresh EXCEPT !.pc = "match", !.left = Indexed(input[i].internal)].pc = "match"
        BY DEF Fresh
      <4>. QED BY <3>1, <3>3, <3>5, <4>1, Zenon DEF Open
    <3>6. CASE MatchNext(i)
      <4>1. PICK exs, hits, n : Found(i, exs, hits, n)
        BY <3>6, Zenon DEF MatchNext
      <4>. DEFINE y == [job[i] EXCEPT !.pos = job[i].pos + 1, !.seen = job[i].seen \cup hits,
                                      !.left = job[i].left \ hits, !.matched = job[i].matched + n,
                                      !.exceptions = job[i].exceptions \o exs]
      <4>2. job' = [job EXCEPT ![i] = y]
        BY <4>1, Zenon DEF Found
      <4>3. y.pc = job[i].pc /\ job[i].pc = "match"
        BY <3>2, <3>6 DEF Doing, MatchNext
      <4>. HIDE DEF y
      <4>. QED BY <3>1, <4>2, <4>3
    <3>7. CASE BadRow(i) \/ EndOfFile(i) \/ Fault(i)
      BY <3>3, <3>7, Zenon DEF BadRow, EndOfFile, Fault
    <3>8. CASE Leftover(i)
      <4>1. PICK l, exs : job' = [job EXCEPT ![i] = [job[i] EXCEPT !.left = l, !.exceptions = exs]]
        BY <3>8, Zenon DEF Leftover
      <4>. DEFINE y == [job[i] EXCEPT !.left = l, !.exceptions = exs]
      <4>2. y.pc = job[i].pc /\ job[i].pc = "leftover"
        BY <3>2, <3>8 DEF Doing, Leftover
      <4>3. job' = [job EXCEPT ![i] = y]
        BY <4>1
      <4>. HIDE DEF y
      <4>. QED BY <3>1, <4>2, <4>3
    <3>9. CASE Report(i)
      <4>. DEFINE s == sortExceptions(job[i].exceptions)
                  y == [job[i] EXCEPT !.pc = AfterReport(i), !.pos = 1, !.exceptions = s]
      <4>1. job' = [job EXCEPT ![i] = y]
        BY <3>9, Zenon DEF Report
      <4>. HIDE DEF s
      <4>2. y.pc = AfterReport(i)
        BY <3>2 DEF Doing
      <4>. HIDE DEF y
      <4>. QED BY <3>1, <3>4, <4>1, <4>2
    <3>10. CASE Feed(i)
      <4>1. PICK n : job' = [job EXCEPT ![i] = [job[i] EXCEPT !.pos = job[i].pos + 1,
                                                             !.failed = job[i].failed + n]]
        BY <3>10, Zenon DEF Feed
      <4>. DEFINE y == [job[i] EXCEPT !.pos = job[i].pos + 1, !.failed = job[i].failed + n]
      <4>2. y.pc = job[i].pc /\ job[i].pc = "feedback"
        BY <3>2, <3>10 DEF Doing, Feed
      <4>3. job' = [job EXCEPT ![i] = y]
        BY <4>1
      <4>. HIDE DEF y
      <4>. QED BY <3>1, <4>2, <4>3
    <3>11. CASE EndFeed(i)
      <4>1. (IF job[i].failed > 0 THEN "error" ELSE AfterFeedback(i)) # "persist"
        BY <3>4
      <4>. QED BY <3>3, <3>11, <4>1, Zenon DEF EndFeed
    <3>12. CASE FindByFingerprint(i)
      <4>1. CASE i = j
        BY <1>2, <3>3, <3>12, <4>1 DEF FindByFingerprint
      <4>2. CASE i # j
        BY <1>1, <1>2, <3>12, <4>2 DEF FindByFingerprint, Goto
      <4>. QED BY <4>1, <4>2
    <3>13. CASE Persist(i)
      BY <3>3, <3>13 DEF Persist
    <3>14. CASE Rerun(i)
      <4>1. Fresh.pc = "idle"
        BY DEF Fresh
      <4>. QED BY <3>1, <3>14, <4>1 DEF Rerun
    <3>. QED BY <2>2, <3>5, <3>6, <3>7, <3>8, <3>9, <3>10, <3>11, <3>12, <3>13, <3>14, Zenon DEF Work
  <2>. QED BY <2>1, <2>2 DEF Next
<1>. QED BY <1>5, <1>6 DEF Settled

(* Inputs on record are not recorded again by a job that starts later, the *)
(* rerun of the job that recorded them and never heard of it included      *)
(* (main.go persist, store.go FindByFingerprint).                          *)
THEOREM RerunSafe == Spec => RerunAddsNothing
<1>. SUFFICES ASSUME NEW j \in Job
              PROVE  Spec => []((job[j].pc = "idle" /\ \E k \in DOMAIN runs : runs[k].input = input[j])
                                  => [](job[j].pc # "persist"))
  BY DEF RerunAddsNothing
<1>1. job[j].pc = "idle" /\ (\E k \in DOMAIN runs : runs[k].input = input[j]) => Settled(j)
  BY DEF Settled
<1>2. Settled(j) => job[j].pc # "persist"
  BY DEF Settled
<1>3. ReconcileInv /\ Settled(j) /\ [Next]_vars => Settled(j)'
  BY StaysSettled
<1>. QED BY <1>1, <1>2, <1>3, ReconcileAlways, PTL DEF Spec
-----------------------------------------------------------------------------
(* Two reports that count the same exceptions list them alike.             *)

(* The order of the report by category and reference alone.                *)
KeyLess(x, y) ==
    \/ RankOf(x.category) < RankOf(y.category)
    \/ x.category = y.category /\ x.ref < y.ref
SameKey(x, y) == x.category = y.category /\ x.ref = y.ref

InOrder(ex) == \A k, l \in DOMAIN ex : k < l => ~Before(ex[l], ex[k])

(* The order by category and reference is a strict weak order, coarser     *)
(* than that of sortExceptions.                                            *)
LEMMA KeyOrder ==
  ASSUME NEW x \in Gaps, NEW y \in Gaps, NEW z \in Gaps
  PROVE  /\ ~KeyLess(x, x)
         /\ KeyLess(x, y) => Before(x, y)
         /\ ~KeyLess(x, y) /\ ~KeyLess(y, x) => SameKey(x, y)
         /\ KeyLess(x, y) /\ ~KeyLess(z, y) => KeyLess(x, z)
         /\ SameKey(y, z) => (KeyLess(x, y) <=> KeyLess(x, z))
<1>1. /\ x.category \in Cats /\ y.category \in Cats /\ z.category \in Cats
      /\ x.ref \in Nat /\ y.ref \in Nat /\ z.ref \in Nat
  BY ReconcileAssumption DEF Gaps
<1>2. /\ RankOf(x.category) \in Int /\ RankOf(y.category) \in Int /\ RankOf(z.category) \in Int
      /\ RankOf(x.category) = RankOf(y.category) <=> x.category = y.category
      /\ RankOf(x.category) = RankOf(z.category) <=> x.category = z.category
      /\ RankOf(y.category) = RankOf(z.category) <=> y.category = z.category
  BY <1>1, RankInjective
<1>. QED BY <1>1, <1>2 DEF Before, KeyLess, SameKey

SameCounts(ex, fx) == \A c \in Cats : \A r \in Ref : Count(ex, c, r) = Count(fx, c, r)

(* Equal counts: the exceptions of one report can be told off one by one   *)
(* against those of the other.                                             *)
LEMMA Pairing ==
  ASSUME NEW ex \in Seq(Gaps), NEW fx \in Seq(Gaps), SameCounts(ex, fx)
  PROVE  \E q \in Injection(DOMAIN ex, DOMAIN fx) : \A k \in DOMAIN ex : SameKey(ex[k], fx[q[k]])
<1>. DEFINE B(c, r) == CHOOSE b : b \in Bijection(Hits(ex, c, r), Hits(fx, c, r))
            q == [k \in DOMAIN ex |-> B(ex[k].category, ex[k].ref)[k]]
<1>1. ASSUME NEW c \in Cats, NEW r \in Ref
      PROVE  /\ B(c, r) \in [Hits(ex, c, r) -> Hits(fx, c, r)]
             /\ \A k, l \in Hits(ex, c, r) : B(c, r)[k] = B(c, r)[l] => k = l
  <2>. DEFINE H == Hits(ex, c, r)
              G == Hits(fx, c, r)
  <2>1. IsFiniteSet(H) /\ IsFiniteSet(G) /\ Cardinality(H) = Cardinality(G)
    BY HitsFinite DEF SameCounts, Count
  <2>. HIDE DEF H, G
  <2>2. \E b : b \in Bijection(H, G)
    BY <2>1, FS_SameCardinalityBij DEF ExistsBijection
  <2>3. B(c, r) \in Bijection(H, G)
    BY <2>2, Zenon DEF H, G
  <2>. HIDE DEF B
  <2>4. B(c, r) \in [H -> G] /\ \A k, l \in H : B(c, r)[k] = B(c, r)[l] => k = l
    BY <2>3 DEF Bijection, Injection, IsInjective
  <2>. QED BY <2>4, Zenon DEF H, G
<1>. HIDE DEF B
<1>2. ASSUME NEW k \in DOMAIN ex
      PROVE  /\ ex[k].category \in Cats /\ ex[k].ref \in Ref
             /\ k \in Hits(ex, ex[k].category, ex[k].ref)
             /\ q[k] \in DOMAIN fx /\ SameKey(ex[k], fx[q[k]])
  <2>1. ex[k] \in Gaps
    OBVIOUS
  <2>2. ex[k].category \in Cats /\ ex[k].ref \in Ref
    BY <2>1 DEF Gaps
  <2>3. k \in Hits(ex, ex[k].category, ex[k].ref)
    BY Zenon DEF Hits
  <2>4. q[k] = B(ex[k].category, ex[k].ref)[k]
    OBVIOUS
  <2>. HIDE DEF q
  <2>5. q[k] \in Hits(fx, ex[k].category, ex[k].ref)
    BY <1>1, <2>2, <2>3, <2>4
  <2>. QED BY <2>2, <2>3, <2>5 DEF Hits, SameKey
<1>3. ASSUME NEW k \in DOMAIN ex, NEW l \in DOMAIN ex, q[k] = q[l] PROVE k = l
  <2>1. SameKey(ex[k], fx[q[k]]) /\ SameKey(ex[l], fx[q[l]])
    BY <1>2
  <2>2. ex[k].category = ex[l].category /\ ex[k].ref = ex[l].ref
    BY <1>3, <2>1, Zenon DEF SameKey
  <2>3. /\ q[k] = B(ex[k].category, ex[k].ref)[k] /\ q[l] = B(ex[l].category, ex[l].ref)[l]
        /\ ex[k].category \in Cats /\ ex[k].ref \in Ref
        /\ k \in Hits(ex, ex[k].category, ex[k].ref) /\ l \in Hits(ex, ex[l].category, ex[l].ref)
    BY <1>2
  <2>. HIDE DEF q
  <2>. DEFINE c == ex[k].category
              r == ex[k].ref
  <2>4. c \in Cats /\ r \in Ref /\ k \in Hits(ex, c, r) /\ l \in Hits(ex, c, r) /\ B(c, r)[k] = B(c, r)[l]
    BY <1>3, <2>2, <2>3
  <2>. HIDE DEF c, r
  <2>. QED BY <1>1, <2>4
<1>4. q \in [DOMAIN ex -> DOMAIN fx]
  BY <1>2
<1>. HIDE DEF q
<1>5. q \in Injection(DOMAIN ex, DOMAIN fx)
  BY <1>3, <1>4 DEF Injection, IsInjective
<1>. QED BY <1>2, <1>5

(* The first n numbers are n, and fewer in every part.                     *)
LEMMA FirstNumbers ==
  ASSUME NEW n \in Nat
  PROVE  /\ IsFiniteSet(1 .. n) /\ Cardinality(1 .. n) = n
         /\ \A S \in SUBSET (1 .. n) : IsFiniteSet(S) /\ Cardinality(S) <= n
<1>1. IsFiniteSet(1 .. n) /\ Cardinality(1 .. n) = n
  BY FS_Interval
<1>. QED BY <1>1, FS_Subset

(* ... so that no exception comes later in the one than in the other.      *)
LEMMA NotLater ==
  ASSUME NEW ex \in Seq(Gaps), NEW fx \in Seq(Gaps), SameCounts(ex, fx), InOrder(ex), InOrder(fx)
  PROVE  /\ Len(ex) <= Len(fx)
         /\ \A n \in DOMAIN ex : n \in DOMAIN fx => ~KeyLess(ex[n], fx[n])
<1>. DEFINE D == DOMAIN ex
            E == DOMAIN fx
<1>1. /\ Len(ex) \in Nat /\ D = 1 .. Len(ex) /\ \A k \in D : ex[k] \in Gaps
      /\ Len(fx) \in Nat /\ E = 1 .. Len(fx) /\ \A k \in E : fx[k] \in Gaps
  OBVIOUS
<1>2. IsFiniteSet(D) /\ Cardinality(D) = Len(ex) /\ IsFiniteSet(E) /\ Cardinality(E) = Len(fx)
  BY <1>1, FirstNumbers
<1>3. PICK q \in Injection(D, E) : \A k \in D : SameKey(ex[k], fx[q[k]])
  BY Pairing
<1>4. q \in [D -> E] /\ \A k, l \in D : q[k] = q[l] => k = l
  BY <1>3 DEF Injection, IsInjective
<1>5. Len(ex) <= Len(fx)
  <2>. HIDE DEF D, E
  <2>. QED BY <1>2, <1>3, FS_Injection
<1>6. ASSUME NEW n \in D, n \in E, KeyLess(ex[n], fx[n]) PROVE FALSE
  <2>. DEFINE x == ex[n]
              L == {k \in D : ~KeyLess(x, ex[k])}
              M == {k \in E : ~KeyLess(x, fx[k])}
              p == [k \in L |-> q[k]]
  <2>1. x \in Gaps /\ n \in Int /\ n >= 1 /\ \A k \in D \cup E : k \in Int /\ k >= 1
    BY <1>1
  <2>. HIDE DEF x, D, E
  <2>2. \A k \in 1 .. n : k \in L
    <3>. SUFFICES ASSUME NEW k \in 1 .. n PROVE k \in L
      OBVIOUS
    <3>1. k \in D /\ ex[k] \in Gaps
      BY <1>1, <2>1
    <3>2. CASE k = n
      BY <2>1, <3>1, <3>2, KeyOrder DEF x
    <3>3. CASE k # n
      <4>1. ~Before(x, ex[k])
        BY <2>1, <3>1, <3>3, <1>1 DEF InOrder, x, D
      <4>. QED BY <2>1, <3>1, <4>1, KeyOrder
    <3>. QED BY <3>2, <3>3
  <2>3. M \in SUBSET (1 .. n - 1)
    <3>. SUFFICES ASSUME NEW k \in M PROVE k \in Int /\ k >= 1 /\ k < n
      <4>. HIDE DEF M
      <4>. QED BY <2>1
    <3>1. k \in E /\ fx[k] \in Gaps /\ fx[n] \in Gaps /\ ~KeyLess(x, fx[k]) /\ k \in Int
      BY <1>1, <1>6, <2>1
    <3>2. ASSUME k >= n PROVE FALSE
      <4>1. ~KeyLess(fx[k], fx[n])
        <5>1. CASE k = n
          BY <3>1, <5>1, KeyOrder
        <5>2. CASE k # n
          <6>1. ~Before(fx[k], fx[n])
            BY <1>6, <2>1, <3>1, <3>2, <5>2 DEF InOrder, E
          <6>. QED BY <3>1, <6>1, KeyOrder
        <5>. QED BY <5>1, <5>2
      <4>. QED BY <1>6, <2>1, <3>1, <4>1, KeyOrder DEF x
    <3>. QED BY <2>1, <3>1, <3>2
  <2>4. \A k \in L : q[k] \in M
    <3>. SUFFICES ASSUME NEW k \in L PROVE q[k] \in M
      OBVIOUS
    <3>1. k \in D /\ q[k] \in E /\ ~KeyLess(x, ex[k]) /\ SameKey(ex[k], fx[q[k]])
      BY <1>3, <1>4
    <3>2. ex[k] \in Gaps /\ fx[q[k]] \in Gaps
      BY <1>1, <3>1
    <3>3. ~KeyLess(x, fx[q[k]])
      BY <2>1, <3>1, <3>2, KeyOrder
    <3>. QED BY <3>1, <3>3
  <2>5. p \in [L -> M] /\ \A k, l \in L : p[k] = p[l] => k = l
    BY <1>4, <2>4
  <2>6. /\ \A S \in SUBSET (1 .. n - 1) : IsFiniteSet(S) /\ Cardinality(S) <= n - 1
        /\ Cardinality(1 .. n) = n
    <3>1. n \in Nat /\ n - 1 \in Nat
      BY <2>1
    <3>. QED BY <3>1, FirstNumbers, Zenon
  <2>7. IsFiniteSet(L) /\ 1 .. n \in SUBSET L
    <3>1. L \in SUBSET D
      OBVIOUS
    <3>. HIDE DEF L
    <3>. QED BY <1>2, <2>2, <3>1, FS_Subset
  <2>. HIDE DEF L, M, p
  <2>8. p \in Injection(L, M)
    BY <2>5 DEF Injection, IsInjective
  <2>9. IsFiniteSet(M) /\ Cardinality(M) <= n - 1
    BY <2>3, <2>6
  <2>10. Cardinality(L) <= Cardinality(M)
    BY <2>8, <2>9, FS_Injection
  <2>11. n <= Cardinality(L)
    <3>. DEFINE N == 1 .. n
    <3>1. N \in SUBSET L /\ Cardinality(N) = n
      BY <2>6, <2>7
    <3>. HIDE DEF N
    <3>. QED BY <2>7, <3>1, FS_Subset
  <2>12. Cardinality(L) \in Nat /\ Cardinality(M) \in Nat
    BY <2>7, <2>9, FS_CardinalityType
  <2>. QED BY <2>1, <2>9, <2>10, <2>11, <2>12
<1>. QED BY <1>5, <1>6, Zenon DEF D, E

(* The same counts in order: the same category and reference at each place.*)
LEMMA SameKeys ==
  ASSUME NEW ex \in Seq(Gaps), NEW fx \in Seq(Gaps), SameCounts(ex, fx), InOrder(ex), InOrder(fx)
  PROVE  Len(ex) = Len(fx) /\ DOMAIN ex = DOMAIN fx /\ \A n \in DOMAIN ex : SameKey(ex[n], fx[n])
<1>1. SameCounts(fx, ex)
  BY DEF SameCounts
<1>2. Len(ex) <= Len(fx) /\ \A n \in DOMAIN ex : n \in DOMAIN fx => ~KeyLess(ex[n], fx[n])
  BY NotLater
<1>3. Len(fx) <= Len(ex) /\ \A n \in DOMAIN fx : n \in DOMAIN ex => ~KeyLess(fx[n], ex[n])
  BY <1>1, NotLater
<1>4. Len(ex) = Len(fx) /\ DOMAIN ex = DOMAIN fx
  BY <1>2, <1>3
<1>5. ASSUME NEW n \in DOMAIN ex PROVE SameKey(ex[n], fx[n])
  <2>1. ex[n] \in Gaps /\ fx[n] \in Gaps
    BY <1>4
  <2>. QED BY <1>2, <1>3, <1>4, <2>1, KeyOrder
<1>. QED BY <1>4, <1>5
-----------------------------------------------------------------------------
(* What the exceptions of a report hold.                                   *)

(* The rows of the same reference before row l; the duplicates of the same *)
(* reference up to exception k.                                            *)
Earlier(f, l) == {k \in DOMAIN f.external : k < l /\ f.external[k].ref = f.external[l].ref}
Repeats(ex, k) ==
    {i \in DOMAIN ex : i <= k /\ ex[i].category = "duplicate" /\ ex[i].ref = ex[k].ref}

Unlisted == {"pending_reversal", "unmatched_internal"}

FromIndex(f, e) == e = Gap(e.category, <<EntryOf(f.internal, e.ref)>>, <<>>, 0)

FromRow(f, e, row) ==
    /\ row.ref = e.ref
    /\ IF e.category = "amount_mismatch"
         THEN /\ e.ref \in Indexed(f.internal)
              /\ e = Gap(e.category, <<EntryOf(f.internal, e.ref)>>, <<row>>,
                         row.amount - EntryOf(f.internal, e.ref).amount)
         ELSE e = Gap(e.category, <<>>, <<row>>, 0)

(* An exception about an entry of the index holds that entry; one about a  *)
(* row holds the first row of its reference or, if it is the n-th          *)
(* duplicate, the row after n others.                                      *)
Fits(f, e, n) ==
    IF e.category \in Unlisted
      THEN e.ref \in Indexed(f.internal) /\ FromIndex(f, e)
      ELSE \E l \in DOMAIN f.external :
             /\ FromRow(f, e, f.external[l])
             /\ Cardinality(Earlier(f, l)) = IF e.category = "duplicate" THEN n ELSE 0

Sound(f, ex) == \A k \in DOMAIN ex : Fits(f, ex[k], Cardinality(Repeats(ex, k)))

(* One more exception changes nothing for those before it.                 *)
LEMMA SoundAppend ==
  ASSUME NEW f, NEW ex \in Seq(Gaps), Sound(f, ex), NEW e \in Gaps,
         e.category # "duplicate" => Fits(f, e, 0),
         e.category = "duplicate" => Fits(f, e, Count(ex, "duplicate", e.ref) + 1)
  PROVE  Sound(f, ex \o <<e>>)
<1>. DEFINE s == ex \o <<e>>
            n == Len(ex)
<1>1. /\ s \in Seq(Gaps) /\ n \in Nat /\ DOMAIN ex = 1 .. n /\ DOMAIN s = 1 .. n + 1
      /\ s[n + 1] = e /\ \A k \in 1 .. n : s[k] = ex[k]
  OBVIOUS
<1>2. Count(s, e.category, e.ref) = Count(ex, e.category, e.ref) + 1
  BY CountAppend
<1>. HIDE DEF s, n
<1>3. ASSUME NEW k \in 1 .. n PROVE Fits(f, s[k], Cardinality(Repeats(s, k)))
  <2>1. Repeats(s, k) = Repeats(ex, k)
    BY <1>1 DEF Repeats
  <2>2. s[k] = ex[k] /\ k \in DOMAIN ex
    BY <1>1
  <2>. QED BY <2>1, <2>2 DEF Sound
<1>4. Fits(f, e, Cardinality(Repeats(s, n + 1)))
  <2>1. CASE e.category = "duplicate"
    <3>1. Repeats(s, n + 1) = Hits(s, "duplicate", e.ref)
      BY <1>1 DEF Repeats, Hits
    <3>. QED BY <1>2, <2>1, <3>1 DEF Count
  <2>2. CASE e.category # "duplicate"
    BY <2>2 DEF Fits
  <2>. QED BY <2>1, <2>2
<1>5. \A k \in DOMAIN s : k \in 1 .. n \/ k = n + 1
  BY <1>1
<1>6. Sound(f, s)
  BY <1>1, <1>3, <1>4, <1>5 DEF Sound
<1>. QED BY <1>6 DEF s

(* A duplicate has no difference of amounts.                               *)
LEMMA DuplicateDelta ==
  ASSUME NEW f, NEW e, NEW n, Fits(f, e, n), e.category = "duplicate"
  PROVE  e.delta = 0
<1>1. PICK l \in DOMAIN f.external : FromRow(f, e, f.external[l])
  BY DEF Fits, Unlisted
<1>2. e = Gap(e.category, <<>>, <<f.external[l]>>, 0)
  BY <1>1 DEF FromRow
<1>3. \A c, i, x, d : Gap(c, i, x, d).delta = d
  BY DEF Gap
<1>. QED BY <1>2, <1>3

(* The sort keeps the duplicates of a reference in the order of their rows.*)
LEMMA SortSound ==
  ASSUME NEW f, NEW ex \in Seq(Gaps), Sound(f, ex)
  PROVE  Sound(f, sortExceptions(ex))
<1>. DEFINE s == sortExceptions(ex)
            D == DOMAIN ex
<1>1. PICK p \in Bijection(D, D) : /\ \A m \in D : s[m] = ex[p[m]]
                                   /\ \A k, l \in D : k < l => Ahead(ex, p[k], p[l])
  BY Sorting
<1>2. DOMAIN s = D
  BY Sorting
<1>3. p \in [D -> D] /\ (\A k, l \in D : p[k] = p[l] => k = l) /\ \A i \in D : \E m \in D : p[m] = i
  BY <1>1 DEF Bijection, Injection, Surjection, IsInjective
<1>4. IsFiniteSet(D) /\ (\A k \in D : k \in Int) /\ \A k \in D : ex[k] \in Gaps
  BY FirstNumbers
<1>. HIDE DEF s, D
<1>5. ASSUME NEW m \in D, s[m].category = "duplicate"
      PROVE  Cardinality(Repeats(s, m)) = Cardinality(Repeats(ex, p[m]))
  <2>. DEFINE r == s[m].ref
              A == Repeats(s, m)
              B == Repeats(ex, p[m])
              q == [k \in A |-> p[k]]
  <2>1. p[m] \in D /\ s[m] = ex[p[m]]
    BY <1>1, <1>3
  <2>2. \A k : k \in A <=> k \in D /\ k <= m /\ ex[p[k]].category = "duplicate" /\ ex[p[k]].ref = r
    BY <1>1, <1>2 DEF Repeats
  <2>3. \A i : i \in B <=> i \in D /\ i <= p[m] /\ ex[i].category = "duplicate" /\ ex[i].ref = r
    BY <2>1 DEF Repeats, D
  <2>4. ASSUME NEW k \in D, ex[p[k]].category = "duplicate", ex[p[k]].ref = r
        PROVE  k <= m <=> p[k] <= p[m]
    <3>1. p[k] \in D /\ p[m] \in D /\ p[k] \in Int /\ p[m] \in Int /\ k \in Int /\ m \in Int
      BY <1>3, <1>4
    <3>2. ex[p[k]].delta = 0 /\ ex[p[m]].delta = 0
      <4>1. Fits(f, ex[p[k]], Cardinality(Repeats(ex, p[k]))) /\ Fits(f, ex[p[m]], Cardinality(Repeats(ex, p[m])))
        BY <3>1 DEF Sound, D
      <4>2. ex[p[m]].category = "duplicate"
        BY <1>5, <2>1
      <4>. QED BY <2>4, <4>1, <4>2, DuplicateDelta
    <3>3. ~Before(ex[p[k]], ex[p[m]]) /\ ~Before(ex[p[m]], ex[p[k]])
      <4>1. ex[p[k]].category = "duplicate" /\ ex[p[m]].category = "duplicate" /\ ex[p[k]].ref = ex[p[m]].ref
        BY <1>5, <2>1, <2>4
      <4>2. ex[p[m]].ref \in Nat
        <5>1. ex[p[m]] \in Gaps
          BY <1>4, <3>1
        <5>. QED BY <5>1, ReconcileAssumption DEF Gaps
      <4>. QED BY <3>2, <4>1, <4>2, Ranks DEF Before
    <3>4. k < m => p[k] < p[m]
      BY <1>1, <3>3 DEF Ahead
    <3>5. m < k => p[m] < p[k]
      BY <1>1, <3>3 DEF Ahead
    <3>. QED BY <3>1, <3>4, <3>5
  <2>. HIDE DEF A, B
  <2>5. \A k \in A : p[k] \in B
    BY <1>3, <2>2, <2>3, <2>4
  <2>6. \A i \in B : \E k \in A : p[k] = i
    <3>. SUFFICES ASSUME NEW i \in B PROVE \E k \in A : p[k] = i
      OBVIOUS
    <3>1. i \in D /\ i <= p[m] /\ ex[i].category = "duplicate" /\ ex[i].ref = r
      BY <2>3
    <3>2. PICK k \in D : p[k] = i
      BY <1>3, <3>1
    <3>3. k <= m
      BY <2>4, <3>1, <3>2
    <3>. QED BY <2>2, <3>1, <3>2, <3>3
  <2>7. A \in SUBSET D
    BY <2>2
  <2>8. q \in Bijection(A, B)
    <3>1. q \in [A -> B] /\ (\A k, l \in A : q[k] = q[l] => k = l) /\ \A i \in B : \E k \in A : q[k] = i
      BY <1>3, <2>5, <2>6, <2>7
    <3>. HIDE DEF q
    <3>. QED BY <3>1 DEF Bijection, Injection, Surjection, IsInjective
  <2>9. IsFiniteSet(A)
    BY <1>4, <2>7, FS_Subset
  <2>10. Cardinality(B) = Cardinality(A)
    BY <2>8, <2>9, FS_Bijection DEF ExistsBijection
  <2>. QED BY <2>10 DEF A, B
<1>6. ASSUME NEW m \in D PROVE Fits(f, s[m], Cardinality(Repeats(s, m)))
  <2>1. p[m] \in D /\ s[m] = ex[p[m]]
    BY <1>1, <1>3
  <2>2. Fits(f, s[m], Cardinality(Repeats(ex, p[m])))
    BY <2>1 DEF Sound, D
  <2>3. CASE s[m].category = "duplicate"
    BY <1>5, <2>2, <2>3
  <2>4. CASE s[m].category # "duplicate"
    BY <2>2, <2>4 DEF Fits
  <2>. QED BY <2>3, <2>4
<1>. QED BY <1>2, <1>6 DEF Sound, s
-----------------------------------------------------------------------------
(* What two reports on the same records have in common.                    *)

(* Rows of one reference after as many others are one row.                 *)
LEMMA SameRow ==
  ASSUME NEW f \in Book, NEW l \in DOMAIN f.external, NEW m \in DOMAIN f.external,
         f.external[l].ref = f.external[m].ref,
         Cardinality(Earlier(f, l)) = Cardinality(Earlier(f, m))
  PROVE  l = m
<1>. DEFINE n == Len(f.external)
<1>1. n \in Nat /\ DOMAIN f.external = 1 .. n
  BY DEF Book
<1>2. l \in Int /\ m \in Int
  BY <1>1
<1>3. ASSUME NEW i \in DOMAIN f.external, NEW k \in DOMAIN f.external, i < k,
             f.external[i].ref = f.external[k].ref
      PROVE  Cardinality(Earlier(f, i)) # Cardinality(Earlier(f, k))
  <2>. DEFINE A == Earlier(f, i)
              B == Earlier(f, k)
  <2>1. B \in SUBSET (1 .. n)
    BY <1>1 DEF Earlier
  <2>2. A \in SUBSET B /\ i \in B /\ i \notin A
    BY <1>1, <1>3 DEF Earlier
  <2>3. IsFiniteSet(B)
    BY <1>1, <2>1, FirstNumbers
  <2>. HIDE DEF A, B
  <2>4. Cardinality(A) # Cardinality(B)
    BY <2>2, <2>3, FS_Subset
  <2>. QED BY <2>4 DEF A, B
<1>. QED BY <1>2, <1>3

(* An exception is determined by its category, its reference and, if it is *)
(* a duplicate, how many came before it.                                   *)
LEMMA FitsOnce ==
  ASSUME NEW f \in Book, NEW d, NEW e, NEW n, Fits(f, d, n), Fits(f, e, n), SameKey(d, e)
  PROVE  d = e
<1>1. d.category = e.category /\ d.ref = e.ref
  BY DEF SameKey
<1>2. CASE d.category \in Unlisted
  BY <1>1, <1>2, Zenon DEF Fits, FromIndex
<1>3. CASE d.category \notin Unlisted
  <2>1. PICK l \in DOMAIN f.external :
          /\ FromRow(f, d, f.external[l])
          /\ Cardinality(Earlier(f, l)) = IF d.category = "duplicate" THEN n ELSE 0
    BY <1>3, Zenon DEF Fits
  <2>2. PICK m \in DOMAIN f.external :
          /\ FromRow(f, e, f.external[m])
          /\ Cardinality(Earlier(f, m)) = IF e.category = "duplicate" THEN n ELSE 0
    BY <1>1, <1>3, Zenon DEF Fits
  <2>3. f.external[l].ref = f.external[m].ref
    <3>1. f.external[l].ref = d.ref
      BY <2>1, Zenon DEF FromRow
    <3>2. f.external[m].ref = e.ref
      BY <2>2, Zenon DEF FromRow
    <3>. QED BY <1>1, <3>1, <3>2
  <2>4. Cardinality(Earlier(f, l)) = Cardinality(Earlier(f, m))
    BY <1>1, <2>1, <2>2
  <2>5. l = m
    BY <2>3, <2>4, SameRow
  <2>. QED BY <1>1, <2>1, <2>2, <2>5, Zenon DEF FromRow
<1>. QED BY <1>2, <1>3

(* Files with the same rows in another order have the same rows.           *)
LEMMA RowsKept ==
  ASSUME NEW s \in Seq(Record), NEW u \in Seq(Record), SameRows(s, u)
  PROVE  /\ \A k \in DOMAIN s : \E l \in DOMAIN u : u[l] = s[k]
         /\ \A l \in DOMAIN u : \E k \in DOMAIN s : s[k] = u[l]
<1>1. /\ Len(s) \in Nat /\ DOMAIN s = 1 .. Len(s) /\ Len(u) \in Nat /\ DOMAIN u = 1 .. Len(u)
  OBVIOUS
<1>2. \A x : /\ IsFiniteSet({k \in DOMAIN s : s[k] = x})
             /\ IsFiniteSet({k \in DOMAIN u : u[k] = x})
  <2>1. \A x : {k \in DOMAIN s : s[k] = x} \in SUBSET (1 .. Len(s))
    BY <1>1
  <2>2. \A x : {k \in DOMAIN u : u[k] = x} \in SUBSET (1 .. Len(u))
    BY <1>1
  <2>. QED BY <1>1, <2>1, <2>2, FirstNumbers
<1>3. ASSUME NEW x, x \in {s[k] : k \in DOMAIN s} \cup {u[k] : k \in DOMAIN u}
      PROVE  (\E k \in DOMAIN s : s[k] = x) /\ (\E l \in DOMAIN u : u[l] = x)
  <2>. DEFINE A == {k \in DOMAIN s : s[k] = x}
              B == {k \in DOMAIN u : u[k] = x}
  <2>1. Cardinality(A) = Cardinality(B)
    BY <1>3, Zenon DEF SameRows
  <2>2. IsFiniteSet(A) /\ IsFiniteSet(B)
    BY <1>2, Zenon
  <2>3. A # {} \/ B # {}
    BY <1>3
  <2>4. A # {} /\ B # {}
    <3>. HIDE DEF A, B
    <3>. QED BY <2>1, <2>2, <2>3, FS_EmptySet
  <2>. QED BY <2>4
<1>. QED BY <1>3

Reordered(f, g) ==
    SameRows(f.internal, g.internal) /\ SameRows(f.external, g.external) /\ Unambiguous(f)

(* What the index says of a reference does not depend on the order of the  *)
(* rows, if no reference has two different ones.                           *)
LEMMA ReorderedIndex ==
  ASSUME NEW f \in Book, NEW g \in Book, Reordered(f, g)
  PROVE  /\ Indexed(f.internal) = Indexed(g.internal)
         /\ settledReversals(f.internal) = settledReversals(g.internal)
         /\ \A r \in Indexed(f.internal) : EntryOf(f.internal, r) = EntryOf(g.internal, r)
<1>. DEFINE s == f.internal
            u == g.internal
<1>1. s \in Seq(Record) /\ u \in Seq(Record)
  BY DEF Book
<1>2. /\ \A k \in DOMAIN s : \E l \in DOMAIN u : u[l] = s[k]
      /\ \A l \in DOMAIN u : \E k \in DOMAIN s : s[k] = u[l]
  <2>1. SameRows(s, u)
    BY DEF Reordered
  <2>. HIDE DEF s, u
  <2>. QED BY <1>1, <2>1, RowsKept
<1>3. \A k, l \in DOMAIN s : s[k].ref = s[l].ref /\ s[k].type # "reversal" /\ s[l].type # "reversal" => s[k] = s[l]
  BY DEF Reordered, Unambiguous
<1>. HIDE DEF s, u
<1>4. Indexed(s) = Indexed(u)
  <2>1. \A r : r \in Indexed(s) <=> \E k \in DOMAIN s : s[k].type # "reversal" /\ s[k].ref = r
    BY DEF Indexed
  <2>2. \A r : r \in Indexed(u) <=> \E k \in DOMAIN u : u[k].type # "reversal" /\ u[k].ref = r
    BY DEF Indexed
  <2>3. \A r : r \in Indexed(s) <=> r \in Indexed(u)
    BY <1>2, <2>1, <2>2
  <2>. QED BY <2>3
<1>5. settledReversals(s) = settledReversals(u)
  <2>. DEFINE P(x) == x.type = "reversal" /\ x.status \in {"settled", "reversed"}
  <2>1. \A r : r \in settledReversals(s) <=> \E k \in DOMAIN s : P(s[k]) /\ s[k].ref = r
    BY DEF settledReversals
  <2>2. \A r : r \in settledReversals(u) <=> \E k \in DOMAIN u : P(u[k]) /\ u[k].ref = r
    BY DEF settledReversals
  <2>. HIDE DEF P
  <2>3. \A r : r \in settledReversals(s) <=> r \in settledReversals(u)
    BY <1>2, <2>1, <2>2
  <2>. QED BY <2>3
<1>6. ASSUME NEW r \in Indexed(s) PROVE EntryOf(s, r) = EntryOf(u, r)
  <2>. DEFINE x == EntryOf(s, r)
              y == EntryOf(u, r)
  <2>1. x.ref = r /\ x.type # "reversal" /\ \E k \in DOMAIN s : x = s[k]
    BY <1>1, IndexEntry
  <2>2. y.ref = r /\ y.type # "reversal" /\ \E k \in DOMAIN u : y = u[k]
    BY <1>1, <1>4, IndexEntry
  <2>. HIDE DEF x, y
  <2>3. \E k \in DOMAIN s : y = s[k]
    BY <1>2, <2>2
  <2>4. x = y
    BY <1>3, <2>1, <2>2, <2>3
  <2>. QED BY <2>4 DEF x, y
<1>. QED BY <1>4, <1>5, <1>6 DEF s, u

(* A reference has as many rows as before, and they are the same.          *)
LEMMA ReorderedRows ==
  ASSUME NEW f \in Book, NEW g \in Book, Reordered(f, g), NEW r
  PROVE  /\ Rows(f.external, r) = {} <=> Rows(g.external, r) = {}
         /\ Cardinality(Rows(f.external, r)) = Cardinality(Rows(g.external, r))
         /\ \A k \in Rows(f.external, r) : \A l \in Rows(g.external, r) : f.external[k] = g.external[l]
<1>. DEFINE s == f.external
            u == g.external
<1>1. s \in Seq(Record) /\ u \in Seq(Record)
  BY DEF Book
<1>2. SameRows(s, u)
  BY DEF Reordered
<1>3. \A k, l \in DOMAIN s : s[k].ref = s[l].ref => s[k] = s[l]
  BY DEF Reordered, Unambiguous
<1>. HIDE DEF s, u
<1>4. /\ \A k \in DOMAIN s : \E l \in DOMAIN u : u[l] = s[k]
      /\ \A l \in DOMAIN u : \E k \in DOMAIN s : s[k] = u[l]
  BY <1>1, <1>2, RowsKept
<1>5. Rows(s, r) = {} <=> Rows(u, r) = {}
  BY <1>4 DEF Rows
<1>6. \A k \in Rows(s, r) : \A l \in Rows(u, r) : s[k] = u[l]
  BY <1>3, <1>4 DEF Rows
<1>7. Cardinality(Rows(s, r)) = Cardinality(Rows(u, r))
  <2>1. CASE Rows(s, r) = {}
    BY <1>5, <2>1
  <2>2. CASE Rows(s, r) # {}
    <3>1. PICK k \in Rows(s, r) : TRUE
      BY <2>2
    <3>. DEFINE x == s[k]
    <3>2. k \in DOMAIN s /\ x.ref = r
      BY <3>1 DEF Rows
    <3>. HIDE DEF x
    <3>3. Rows(s, r) = {l \in DOMAIN s : s[l] = x}
      BY <1>3, <3>2 DEF Rows, x
    <3>4. Rows(u, r) = {l \in DOMAIN u : u[l] = x}
      BY <1>6, <3>1, <3>2 DEF Rows, x
    <3>5. x \in {s[l] : l \in DOMAIN s}
      BY <3>2 DEF x
    <3>6. Cardinality({l \in DOMAIN s : s[l] = x}) = Cardinality({l \in DOMAIN u : u[l] = x})
      BY <1>2, <3>5 DEF SameRows
    <3>. QED BY <3>3, <3>4, <3>6
  <2>. QED BY <2>1, <2>2
<1>. QED BY <1>5, <1>6, <1>7 DEF s, u

(* ... so both should be reported alike.                                   *)
LEMMA ReorderedExpected ==
  ASSUME NEW f \in Book, NEW g \in Book, Reordered(f, g)
  PROVE  Agreed(f) = Agreed(g) /\ \A r \in Ref : Computed(f, r) = Computed(g, r)
<1>1. /\ Indexed(f.internal) = Indexed(g.internal)
      /\ settledReversals(f.internal) = settledReversals(g.internal)
      /\ \A r \in Indexed(f.internal) : EntryOf(f.internal, r) = EntryOf(g.internal, r)
  BY ReorderedIndex
<1>2. \A r : /\ Rows(f.external, r) = {} <=> Rows(g.external, r) = {}
             /\ Cardinality(Rows(f.external, r)) = Cardinality(Rows(g.external, r))
  BY ReorderedRows
<1>3. ASSUME NEW r, Rows(f.external, r) # {} PROVE FirstOf(f.external, r) = FirstOf(g.external, r)
  <2>1. f.external \in Seq(Record) /\ g.external \in Seq(Record)
    BY DEF Book
  <2>2. PICK k \in Rows(f.external, r) : FirstOf(f.external, r) = f.external[k]
    BY <1>3, <2>1, FirstIsRow
  <2>3. PICK l \in Rows(g.external, r) : FirstOf(g.external, r) = g.external[l]
    BY <1>2, <1>3, <2>1, FirstIsRow
  <2>. QED BY <2>2, <2>3, ReorderedRows
<1>4. Both(f) = Both(g)
  BY <1>1, <1>2 DEF Both
<1>5. Missing(f) = Missing(g) /\ Missing(f) \subseteq Indexed(f.internal)
  BY <1>1, <1>4 DEF Missing
<1>6. Foreign(f) = Foreign(g)
  BY <1>1, <1>2 DEF Foreign
<1>7. Agreed(f) = Agreed(g)
  <2>1. \A r \in Both(f) : r \in Indexed(f.internal) /\ Rows(f.external, r) # {}
    BY DEF Both
  <2>2. \A r : r \in Agreed(f) <=> r \in Agreed(g)
    BY <1>1, <1>3, <1>4, <2>1 DEF Agreed
  <2>. QED BY <2>2
<1>8. Owed(f) = Owed(g)
  <2>1. \A r : r \in Owed(f) <=> r \in Owed(g)
    BY <1>1, <1>5 DEF Owed
  <2>. QED BY <2>1
<1>9. ASSUME NEW r \in Ref PROVE Computed(f, r) = Computed(g, r)
  <2>1. (IF Rows(f.external, r) = {} THEN 0 ELSE Cardinality(Rows(f.external, r)) - 1)
          = (IF Rows(g.external, r) = {} THEN 0 ELSE Cardinality(Rows(g.external, r)) - 1)
    BY <1>2
  <2>. QED BY <1>4, <1>5, <1>6, <1>7, <1>8, <2>1 DEF Computed
<1>. QED BY <1>7, <1>9

(* ... and with the same contents.                                         *)
LEMMA ReorderedFits ==
  ASSUME NEW f \in Book, NEW g \in Book, Reordered(f, g), NEW d, NEW e, NEW m, NEW n,
         Fits(f, d, m), Fits(g, e, n), SameKey(d, e)
  PROVE  d = e
<1>1. d.category = e.category /\ d.ref = e.ref
  BY DEF SameKey
<1>2. \A r \in Indexed(f.internal) : EntryOf(f.internal, r) = EntryOf(g.internal, r)
  BY ReorderedIndex
<1>3. CASE d.category \in Unlisted
  BY <1>1, <1>2, <1>3, Zenon DEF Fits, FromIndex
<1>4. CASE d.category \notin Unlisted
  <2>1. PICK k \in DOMAIN f.external : FromRow(f, d, f.external[k])
    BY <1>4, Zenon DEF Fits
  <2>2. PICK l \in DOMAIN g.external : FromRow(g, e, g.external[l])
    BY <1>1, <1>4, Zenon DEF Fits
  <2>3. f.external[k] = g.external[l]
    <3>1. k \in Rows(f.external, d.ref) /\ l \in Rows(g.external, d.ref)
      BY <1>1, <2>1, <2>2, Zenon DEF FromRow, Rows
    <3>2. \A i \in Rows(f.external, d.ref) : \A j \in Rows(g.external, d.ref) : f.external[i] = g.external[j]
      BY ReorderedRows
    <3>. QED BY <3>1, <3>2, Zenon
  <2>4. d.category = "amount_mismatch" => EntryOf(f.internal, d.ref) = EntryOf(g.internal, e.ref)
    BY <1>1, <1>2, <2>1, Zenon DEF FromRow
  <2>5. CASE d.category = "amount_mismatch"
    <3>1. d = Gap(d.category, <<EntryOf(f.internal, d.ref)>>, <<f.external[k]>>,
                  f.external[k].amount - EntryOf(f.internal, d.ref).amount)
      BY <2>1, <2>5, Zenon DEF FromRow
    <3>2. e = Gap(e.category, <<EntryOf(g.internal, e.ref)>>, <<g.external[l]>>,
                  g.external[l].amount - EntryOf(g.internal, e.ref).amount)
      BY <1>1, <2>2, <2>5, Zenon DEF FromRow
    <3>. QED BY <1>1, <2>3, <2>4, <2>5, <3>1, <3>2, Zenon
  <2>6. CASE d.category # "amount_mismatch"
    <3>1. d = Gap(d.category, <<>>, <<f.external[k]>>, 0)
      BY <2>1, <2>6, Zenon DEF FromRow
    <3>2. e = Gap(e.category, <<>>, <<g.external[l]>>, 0)
      BY <1>1, <2>2, <2>6, Zenon DEF FromRow
    <3>. QED BY <1>1, <2>3, <3>1, <3>2, Zenon
  <2>. QED BY <2>5, <2>6
<1>. QED BY <1>3, <1>4

(* Two right reports on the same records, or on files with the same rows   *)
(* in another order, are one.                                              *)
LEMMA OneReport ==
  ASSUME NEW f \in Book, NEW g \in Book, f = g \/ Reordered(f, g),
         NEW ex \in Seq(Gaps), NEW fx \in Seq(Gaps), NEW m, NEW n,
         Computes(f, m, ex), Computes(g, n, fx), Sound(f, ex), Sound(g, fx)
  PROVE  m = n /\ ex = fx
<1>1. Agreed(f) = Agreed(g) /\ \A r \in Ref : Computed(f, r) = Computed(g, r)
  BY ReorderedExpected
<1>2. m = n
  BY <1>1, Zenon DEF Computes
<1>3. InOrder(ex) /\ InOrder(fx)
  BY Zenon DEF Computes, InOrder
<1>4. SameCounts(ex, fx)
  <2>. SUFFICES ASSUME NEW c \in Cats, NEW r \in Ref PROVE Count(ex, c, r) = Count(fx, c, r)
    BY DEF SameCounts
  <2>1. c \in DOMAIN Computed(f, r) /\ c \in DOMAIN Computed(g, r)
    BY DEF Cats, Computed
  <2>2. Count(ex, c, r) = Computed(f, r)[c]
    BY <2>1, Zenon DEF Computes, Count, Hits
  <2>3. Count(fx, c, r) = Computed(g, r)[c]
    BY <2>1, Zenon DEF Computes, Count, Hits
  <2>. QED BY <1>1, <2>2, <2>3
<1>5. /\ Len(ex) = Len(fx) /\ DOMAIN ex = DOMAIN fx
      /\ \A k \in DOMAIN ex : SameKey(ex[k], fx[k])
  BY <1>3, <1>4, SameKeys
<1>6. ASSUME NEW k \in DOMAIN ex PROVE ex[k] = fx[k]
  <2>1. Repeats(ex, k) = Repeats(fx, k)
    BY <1>5, <1>6 DEF Repeats, SameKey
  <2>2. /\ Fits(f, ex[k], Cardinality(Repeats(ex, k))) /\ Fits(g, fx[k], Cardinality(Repeats(ex, k)))
        /\ SameKey(ex[k], fx[k])
    BY <1>5, <2>1, Zenon DEF Sound
  <2>3. CASE f = g
    BY <2>2, <2>3, FitsOnce, Zenon
  <2>4. CASE Reordered(f, g)
    BY <2>2, <2>4, ReorderedFits, Zenon
  <2>. QED BY <2>3, <2>4
<1>7. ex = fx
  BY <1>5, <1>6
<1>. QED BY <1>2, <1>7
-----------------------------------------------------------------------------
(* Every job lists what it should, with the right contents.                *)

Detailed == \A j \in Job : Sound(Lines(input[j]), job[j].exceptions)

(* The rows before row m in the file, and what was read of them.           *)
LEMMA LinesRead ==
  ASSUME NEW in \in Inputs, NEW m \in DOMAIN RowsOf(in)
  PROVE  /\ Lines(in).internal = in.internal /\ DOMAIN Lines(in).external = DOMAIN RowsOf(in)
         /\ Lines(in).external[m] = Read(in, m)
         /\ Earlier(Lines(in), m) = Upto(in, m, Read(in, m).ref)
<1>. DEFINE f == Lines(in)
<1>1. /\ f.internal = in.internal /\ DOMAIN f.external = DOMAIN RowsOf(in)
      /\ \A k \in DOMAIN RowsOf(in) : f.external[k] = Read(in, k)
  BY DEF Lines
<1>2. DOMAIN RowsOf(in) = 1 .. Len(RowsOf(in)) /\ Len(RowsOf(in)) \in Nat
  BY InputTypes
<1>. HIDE DEF f
<1>3. Earlier(f, m) = Upto(in, m, Read(in, m).ref)
  <2>1. \A k : k \in DOMAIN RowsOf(in) /\ k < m <=> k \in 1 .. m - 1
    BY <1>2
  <2>2. \A k : k \in Earlier(f, m) <=> k \in DOMAIN RowsOf(in) /\ k < m /\ Read(in, k).ref = Read(in, m).ref
    BY <1>1 DEF Earlier
  <2>3. \A k : k \in Upto(in, m, Read(in, m).ref) <=> k \in 1 .. m - 1 /\ Read(in, k).ref = Read(in, m).ref
    BY DEF Upto
  <2>4. \A k : k \in Earlier(f, m) <=> k \in Upto(in, m, Read(in, m).ref)
    BY <2>1, <2>2, <2>3, Zenon
  <2>. QED BY <2>4
<1>. QED BY <1>1, <1>3 DEF f

(* A difference of amounts is a gap.                                       *)
LEMMA MismatchGap ==
  ASSUME NEW e \in Record, NEW i \in Record
  PROVE  LET g == Gap("amount_mismatch", <<i>>, <<e>>, e.amount - i.amount)
         IN  g \in Gaps /\ g.category = "amount_mismatch" /\ g.ref = e.ref
<1>1. e.amount - i.amount \in Int
  BY DEF Record
<1>. QED BY <1>1, GapTypes DEF Cats

(* MatchNext lists a row with its contents.                                *)
LEMMA RowListed ==
  ASSUME NEW j \in Job, NEW in, NEW x, NEW cs, JobOK(j, in, x, cs), x.pc = "match",
         x.pos <= Len(RowsOf(in)), NextRecord(in.external, x.pos) # <<>>,
         NEW e, e = NextRecord(in.external, x.pos)[1], NEW g,
         \/ e.ref \in x.seen /\ g = Gap("duplicate", <<>>, <<e>>, 0)
         \/ e.ref \notin x.seen /\ g = Gap("unmatched_external", <<>>, <<e>>, 0)
         \/ /\ e.ref \notin x.seen /\ e.ref \in Indexed(in.internal)
            /\ g = Gap("amount_mismatch", <<EntryOf(in.internal, e.ref)>>, <<e>>,
                       e.amount - EntryOf(in.internal, e.ref).amount),
         Sound(Lines(in), x.exceptions)
  PROVE  Sound(Lines(in), x.exceptions \o <<g>>)
<1>. DEFINE m == x.pos
            f == Lines(in)
            ex == x.exceptions
<1>1. in \in Inputs /\ x \in Doing /\ ReadTo(in, m) /\ Matching(in, x, m)
  BY DEF JobOK
<1>2. in.internal \in Seq(Record) /\ Len(RowsOf(in)) \in Nat /\ DOMAIN RowsOf(in) = 1 .. Len(RowsOf(in))
  BY <1>1, InputTypes
<1>3. m \in Nat \ {0} /\ m \in DOMAIN RowsOf(in)
  BY <1>1, <1>2 DEF ReadTo
<1>4. e \in Record /\ e = Read(in, m)
  BY <1>1, <1>3, RowIsRecord DEF Read, RowsOf
<1>5. /\ f.internal = in.internal /\ DOMAIN f.external = DOMAIN RowsOf(in) /\ f.external[m] = e
      /\ Earlier(f, m) = Upto(in, m, e.ref)
  BY <1>1, <1>3, <1>4, LinesRead
<1>6. ex \in Seq(Gaps) /\ x.seen = SeenBy(in, m) /\ e.ref \in Ref
  BY <1>1, <1>4 DEF Matching, Record
<1>7. e.ref \in x.seen <=> Upto(in, m, e.ref) # {}
  BY <1>6 DEF SeenBy
<1>. HIDE DEF m, f, ex
<1>8. CASE e.ref \in x.seen
  <2>1. g = Gap("duplicate", <<>>, <<e>>, 0)
    BY <1>8
  <2>2. g \in Gaps /\ g.category = "duplicate" /\ g.ref = e.ref
    BY <1>4, <2>1, GapTypes DEF Cats
  <2>3. Cardinality(Upto(in, m, e.ref)) \in Nat
    <3>1. m - 1 \in Nat /\ Upto(in, m, e.ref) \in SUBSET (1 .. m - 1)
      BY <1>3 DEF Upto
    <3>. QED BY <3>1, FirstNumbers, FS_CardinalityType
  <2>4. Count(ex, "duplicate", e.ref) + 1 = Cardinality(Upto(in, m, e.ref))
    BY <1>1, <1>6, <1>7, <1>8, <2>3 DEF Matching, Dups, m, ex
  <2>5. FromRow(f, g, f.external[m])
    BY <1>5, <2>1, <2>2, Zenon DEF FromRow
  <2>6. Fits(f, g, Count(ex, "duplicate", g.ref) + 1)
    BY <1>3, <1>5, <2>2, <2>4, <2>5 DEF Fits, Unlisted
  <2>. QED BY <1>6, <2>2, <2>6, SoundAppend DEF f, ex
<1>9. CASE e.ref \notin x.seen
  <2>1. Cardinality(Earlier(f, m)) = 0
    BY <1>5, <1>7, <1>9, FS_EmptySet
  <2>2. /\ g \in Gaps /\ g.category \in {"unmatched_external", "amount_mismatch"}
        /\ FromRow(f, g, f.external[m])
    <3>1. CASE g = Gap("unmatched_external", <<>>, <<e>>, 0)
      <4>1. g \in Gaps /\ g.category = "unmatched_external" /\ g.ref = e.ref
        BY <1>4, <3>1, GapTypes DEF Cats
      <4>2. FromRow(f, g, f.external[m])
        BY <1>5, <3>1, <4>1, Zenon DEF FromRow
      <4>. QED BY <4>1, <4>2
    <3>2. CASE /\ e.ref \in Indexed(in.internal)
               /\ g = Gap("amount_mismatch", <<EntryOf(in.internal, e.ref)>>, <<e>>,
                          e.amount - EntryOf(in.internal, e.ref).amount)
      <4>1. EntryOf(in.internal, e.ref) \in Record
        BY <1>2, <3>2, IndexEntry
      <4>2. g \in Gaps /\ g.category = "amount_mismatch" /\ g.ref = e.ref
        BY <1>4, <3>2, <4>1, MismatchGap, Zenon
      <4>3. FromRow(f, g, f.external[m])
        BY <1>5, <3>2, <4>2, Zenon DEF FromRow
      <4>. QED BY <4>2, <4>3
    <3>. QED BY <1>9, <3>1, <3>2
  <2>3. Fits(f, g, 0)
    BY <1>3, <1>5, <2>1, <2>2 DEF Fits, Unlisted
  <2>. QED BY <1>6, <2>2, <2>3, SoundAppend DEF f, ex
<1>. QED BY <1>8, <1>9

(* Leftover lists an entry of the index with its contents.                 *)
LEMMA EntryListed ==
  ASSUME NEW in \in Inputs, NEW q \in Indexed(in.internal), NEW c \in Unlisted,
         NEW ex \in Seq(Gaps), Sound(Lines(in), ex)
  PROVE  Sound(Lines(in), Append(ex, Gap(c, <<EntryOf(in.internal, q)>>, <<>>, 0)))
<1>. DEFINE rec == EntryOf(in.internal, q)
            g == Gap(c, <<rec>>, <<>>, 0)
            f == Lines(in)
<1>1. rec \in Record /\ rec.ref = q
  BY InputTypes, IndexEntry
<1>2. f.internal = in.internal
  BY DEF Lines
<1>3. g \in Gaps /\ g.category = c /\ g.ref = q
  <2>1. c \in Cats /\ 0 \in Int
    BY DEF Cats, Unlisted
  <2>. HIDE DEF rec
  <2>. QED BY <1>1, <2>1, GapTypes
<1>. HIDE DEF f
<1>4. Fits(f, g, 0)
  <2>1. g = Gap(g.category, <<EntryOf(f.internal, g.ref)>>, <<>>, 0)
    BY <1>2, <1>3, Zenon
  <2>. HIDE DEF g
  <2>. QED BY <1>2, <1>3, <2>1, Zenon DEF Fits, FromIndex
<1>5. g.category # "duplicate"
  BY <1>3 DEF Unlisted
<1>. HIDE DEF g
<1>6. Append(ex, g) = ex \o <<g>>
  BY <1>3, CountAppend
<1>7. Sound(f, ex \o <<g>>)
  BY <1>3, <1>4, <1>5, SoundAppend, Zenon DEF f
<1>8. Sound(f, Append(ex, g))
  BY <1>6, <1>7
<1>. QED BY <1>8 DEF f, g

(* What a step does to the list of exceptions.                             *)
LEMMA ListMoves ==
  ASSUME ReconcileInv, Detailed, NEW j \in Job, NEW y, Sound(Lines(input[j]), y.exceptions),
         job' = [job EXCEPT ![j] = y], input' = input
  PROVE  Detailed'
<1>1. job \in [Job -> Doing]
  BY DEF ReconcileInv, JobsOK
<1>2. ASSUME NEW i \in Job PROVE Sound(Lines(input'[i]), job'[i].exceptions)
  <2>1. CASE i = j
    BY <1>1, <2>1
  <2>2. CASE i # j
    BY <1>1, <2>2 DEF Detailed
  <2>. QED BY <2>1, <2>2
<1>. QED BY <1>2 DEF Detailed

(* Every step of a job keeps its list sound.                               *)
LEMMA DetailedStep ==
  ASSUME ReconcileInv, Detailed, Next
  PROVE  Detailed'
<1>1. PICK j \in Job : Work(j) \/ Fault(j) \/ Rerun(j)
  BY DEF Next
<1>. DEFINE in == input[j]
            x == job[j]
            f == Lines(in)
<1>2. JobOK(j, in, x, called[j]) /\ Sound(f, x.exceptions)
  BY DEF ReconcileInv, JobsOK, Detailed
<1>3. x \in Doing /\ in \in Inputs /\ x.exceptions \in Seq(Gaps)
  <2>1. in \in Inputs /\ x \in Doing
    BY DEF ReconcileInv, JobsOK
  <2>. HIDE DEF in, x
  <2>. QED BY <2>1, DoingTypes, Zenon
<1>4. input' = input
  BY <1>1 DEF Work, Fault, Rerun, Open, MatchNext, BadRow, EndOfFile, Leftover, Report, Feed, EndFeed,
              FindByFingerprint, Persist
<1>5. Sound(f, <<>>)
  BY DEF Sound
<1>6. ASSUME NEW y, job' = [job EXCEPT ![j] = y], y.exceptions = x.exceptions PROVE Detailed'
  BY <1>2, <1>4, <1>6, ListMoves
<1>7. ASSUME NEW pc, Goto(j, pc) PROVE Detailed'
  <2>. DEFINE y == [x EXCEPT !.pc = pc]
  <2>1. job' = [job EXCEPT ![j] = y]
    BY <1>7, Zenon DEF Goto
  <2>2. y.exceptions = x.exceptions
    BY <1>3 DEF Doing
  <2>. HIDE DEF y
  <2>. QED BY <1>6, <2>1, <2>2, Zenon
<1>8. CASE Open(j)
  <2>1. CASE Opens(in.external)
    <3>. DEFINE y == [Fresh EXCEPT !.pc = "match", !.left = Indexed(in.internal)]
    <3>1. job' = [job EXCEPT ![j] = y]
      BY <1>8, <2>1, Zenon DEF Open
    <3>2. y.exceptions = <<>>
      BY DEF Fresh
    <3>. HIDE DEF y
    <3>. QED BY <1>4, <1>5, <3>1, <3>2, ListMoves
  <2>2. CASE ~Opens(in.external)
    BY <1>7, <1>8, <2>2, Zenon DEF Open
  <2>. QED BY <2>1, <2>2
<1>9. CASE MatchNext(j)
  <2>. DEFINE e == NextRecord(in.external, x.pos)[1]
              r == e.ref
              ix == Indexed(in.internal)
              ent == EntryOf(in.internal, r)
  <2>1. x.pc = "match" /\ x.pos <= Len(RowsOf(in)) /\ NextRecord(in.external, x.pos) # <<>>
    BY <1>9 DEF MatchNext, NextRow, More, RowsOf
  <2>2. NextRow(j)[1] = e
    BY <2>1, Zenon DEF NextRow, More, RowsOf
  <2>3. DOMAIN BuildIndex(in.internal) = ix /\ \A q \in ix : BuildIndex(in.internal)[q] = EntryOf(in.internal, q)
    BY DEF BuildIndex
  <2>. HIDE DEF e, ix
  <2>4. \/ r \in x.seen /\ Found(j, <<Gap("duplicate", <<>>, <<e>>, 0)>>, {}, 0)
        \/ r \notin x.seen /\ Found(j, <<Gap("unmatched_external", <<>>, <<e>>, 0)>>, {r}, 0)
        \/ /\ r \notin x.seen /\ r \in ix
           /\ Found(j, <<Gap("amount_mismatch", <<ent>>, <<e>>, e.amount - ent.amount)>>, {r}, 0)
        \/ Found(j, <<>>, {r}, 1)
    BY <1>9, <2>2, <2>3, Zenon DEF MatchNext
  <2>5. ASSUME NEW exs, NEW hits, NEW n, Found(j, exs, hits, n), Sound(f, x.exceptions \o exs)
        PROVE  Detailed'
    <3>. DEFINE y == [x EXCEPT !.pos = x.pos + 1, !.seen = x.seen \cup hits, !.left = x.left \ hits,
                               !.matched = x.matched + n, !.exceptions = x.exceptions \o exs]
    <3>1. job' = [job EXCEPT ![j] = y]
      BY <2>5, Zenon DEF Found
    <3>2. y.exceptions = x.exceptions \o exs
      BY <1>3 DEF Doing
    <3>. HIDE DEF y
    <3>. QED BY <1>4, <2>5, <3>1, <3>2, ListMoves
  <2>6. x.exceptions \o <<>> = x.exceptions
    BY <1>3
  <2>7. ASSUME NEW g,
               \/ r \in x.seen /\ g = Gap("duplicate", <<>>, <<e>>, 0)
               \/ r \notin x.seen /\ g = Gap("unmatched_external", <<>>, <<e>>, 0)
               \/ /\ r \notin x.seen /\ r \in ix
                  /\ g = Gap("amount_mismatch", <<ent>>, <<e>>, e.amount - ent.amount)
        PROVE  Sound(f, x.exceptions \o <<g>>)
    BY <1>2, <2>1, <2>7, RowListed, Zenon DEF e, ix
  <2>8. CASE Found(j, <<>>, {r}, 1)
    BY <1>2, <2>5, <2>6, <2>8
  <2>9. CASE r \in x.seen /\ Found(j, <<Gap("duplicate", <<>>, <<e>>, 0)>>, {}, 0)
    BY <2>5, <2>7, <2>9, Zenon
  <2>10. CASE r \notin x.seen /\ Found(j, <<Gap("unmatched_external", <<>>, <<e>>, 0)>>, {r}, 0)
    BY <2>5, <2>7, <2>10, Zenon
  <2>11. CASE /\ r \notin x.seen /\ r \in ix
              /\ Found(j, <<Gap("amount_mismatch", <<ent>>, <<e>>, e.amount - ent.amount)>>, {r}, 0)
    <3>. DEFINE g == Gap("amount_mismatch", <<ent>>, <<e>>, e.amount - ent.amount)
    <3>1. Sound(f, x.exceptions \o <<g>>)
      BY <2>7, <2>11, Zenon
    <3>2. Found(j, <<g>>, {r}, 0)
      BY <2>11, Zenon
    <3>. HIDE DEF g
    <3>. QED BY <2>5, <3>1, <3>2, Zenon
  <2>. HIDE DEF x, r, ent
  <2>. QED BY <2>4, <2>8, <2>9, <2>10, <2>11, Zenon
<1>10. CASE BadRow(j)
  BY <1>7, <1>10, Zenon DEF BadRow
<1>11. CASE EndOfFile(j)
  BY <1>7, <1>11, Zenon DEF EndOfFile
<1>12. CASE Leftover(j)
  <2>1. x.pc = "leftover"
    BY <1>12, Zenon DEF Leftover
  <2>2. PICK q \in x.left :
          job' = [job EXCEPT ![j] =
            [x EXCEPT !.left = x.left \ {q},
                      !.exceptions = Append(x.exceptions,
                         Gap(classifyUnmatchedInternal(EntryOf(in.internal, q), settledReversals(in.internal)),
                             <<EntryOf(in.internal, q)>>, <<>>, 0))]]
    BY <1>12, Zenon DEF Leftover
  <2>. DEFINE c == classifyUnmatchedInternal(EntryOf(in.internal, q), settledReversals(in.internal))
              s == Append(x.exceptions, Gap(c, <<EntryOf(in.internal, q)>>, <<>>, 0))
              y == [x EXCEPT !.left = x.left \ {q}, !.exceptions = s]
  <2>3. c \in Unlisted
    BY DEF classifyUnmatchedInternal, Unlisted
  <2>4. q \in Indexed(in.internal)
    BY <1>2, <2>1 DEF JobOK, Tally
  <2>5. job' = [job EXCEPT ![j] = y]
    BY <2>2, Zenon
  <2>. HIDE DEF c
  <2>6. Sound(f, s)
    BY <1>2, <1>3, <2>3, <2>4, EntryListed, Zenon
  <2>. HIDE DEF s
  <2>7. y.exceptions = s
    BY <1>3 DEF Doing
  <2>. HIDE DEF y
  <2>. QED BY <1>4, <2>5, <2>6, <2>7, ListMoves
<1>13. CASE Report(j)
  <2>. DEFINE s == sortExceptions(x.exceptions)
              y == [x EXCEPT !.pc = AfterReport(j), !.pos = 1, !.exceptions = s]
  <2>1. job' = [job EXCEPT ![j] = y]
    BY <1>13, Zenon DEF Report
  <2>2. Sound(f, s)
    BY <1>2, <1>3, SortSound
  <2>. HIDE DEF s
  <2>3. y.exceptions = s
    BY <1>3 DEF Doing
  <2>. HIDE DEF y
  <2>. QED BY <1>4, <2>1, <2>2, <2>3, ListMoves
<1>14. CASE Feed(j)
  <2>1. PICK n : job' = [job EXCEPT ![j] = [x EXCEPT !.pos = x.pos + 1, !.failed = x.failed + n]]
    BY <1>14, Zenon DEF Feed
  <2>. DEFINE y == [x EXCEPT !.pos = x.pos + 1, !.failed = x.failed + n]
  <2>2. y.exceptions = x.exceptions
    BY <1>3 DEF Doing
  <2>. QED BY <1>6, <2>1, <2>2, Zenon
<1>15. CASE EndFeed(j)
  BY <1>7, <1>15, Zenon DEF EndFeed
<1>16. CASE FindByFingerprint(j)
  BY <1>7, <1>16, Zenon DEF FindByFingerprint
<1>17. CASE Persist(j)
  BY <1>7, <1>17, Zenon DEF Persist
<1>18. CASE Fault(j)
  BY <1>7, <1>18, Zenon DEF Fault
<1>19. CASE Rerun(j)
  <2>1. job' = [job EXCEPT ![j] = Fresh] /\ Fresh.exceptions = <<>>
    BY <1>19 DEF Rerun, Fresh
  <2>. QED BY <1>4, <1>5, <2>1, ListMoves
<1>. QED BY <1>1, <1>8, <1>9, <1>10, <1>11, <1>12, <1>13, <1>14, <1>15, <1>16, <1>17, <1>18, <1>19, Zenon DEF Work

(* ... so it stays sound.                                                  *)
LEMMA DetailedAlways == Spec => []Detailed
<1>1. Init => Detailed
  <2>. SUFFICES ASSUME Init, NEW j \in Job PROVE Sound(Lines(input[j]), job[j].exceptions)
    BY DEF Detailed
  <2>1. job[j].exceptions = <<>>
    BY DEF Init, Fresh
  <2>. QED BY <2>1 DEF Sound
<1>2. ASSUME Detailed, UNCHANGED vars PROVE Detailed'
  BY <1>2 DEF Detailed, vars
<1>3. ReconcileInv /\ Detailed /\ [Next]_vars => Detailed'
  BY <1>2, DetailedStep
<1>. QED BY <1>1, <1>3, ReconcileAlways, PTL DEF Spec

(* Two jobs on the same records write the same report, entry by entry,     *)
(* although the leftover entries come in the random order of a Go map and  *)
(* the settlements in either format; so do two jobs on files whose rows    *)
(* are in another order, if no reference has two different rows            *)
(* (matcher.go Match, sortExceptions).                                     *)
THEOREM ReportsRepeat == Spec => []SameReport
<1>1. ReconcileInv /\ Detailed => SameReport
  <2>. SUFFICES ASSUME ReconcileInv, Detailed, NEW i \in Job, NEW j \in Job, Reported(i), Reported(j),
                       \/ View(input[i]) = View(input[j])
                       \/ Reordered(View(input[i]), View(input[j]))
                PROVE  job[i].matched = job[j].matched /\ job[i].exceptions = job[j].exceptions
    BY Zenon DEF SameReport, Reordered
  <2>1. ASSUME NEW k \in Job, Reported(k)
        PROVE  /\ View(input[k]) \in Book /\ job[k].exceptions \in Seq(Gaps)
               /\ Computes(View(input[k]), job[k].matched, job[k].exceptions)
               /\ Sound(View(input[k]), job[k].exceptions)
    <3>1. JobOK(k, input[k], job[k], called[k]) /\ Sound(Lines(input[k]), job[k].exceptions)
      BY DEF ReconcileInv, JobsOK, Detailed
    <3>2. input[k] \in Inputs /\ job[k] \in Doing /\ Told(input[k], job[k])
      BY <2>1, <3>1 DEF JobOK, Reported
    <3>3. Readable(input[k].external) /\ Computes(View(input[k]), job[k].matched, job[k].exceptions)
      BY <3>2 DEF Told
    <3>4. View(input[k]) = Lines(input[k]) /\ View(input[k]) \in Book
      BY <3>2, <3>3, LinesViewed
    <3>. QED BY <3>1, <3>2, <3>3, <3>4, DoingTypes
  <2>. DEFINE f == View(input[i])
              g == View(input[j])
              ex == job[i].exceptions
              fx == job[j].exceptions
              m == job[i].matched
              n == job[j].matched
  <2>2. f \in Book /\ ex \in Seq(Gaps) /\ Computes(f, m, ex) /\ Sound(f, ex)
    BY <2>1
  <2>3. g \in Book /\ fx \in Seq(Gaps) /\ Computes(g, n, fx) /\ Sound(g, fx)
    BY <2>1
  <2>4. f = g \/ Reordered(f, g)
    OBVIOUS
  <2>. HIDE DEF f, g, ex, fx, m, n
  <2>5. m = n /\ ex = fx
    BY <2>2, <2>3, <2>4, OneReport
  <2>. QED BY <2>5 DEF ex, fx, m, n
<1>. QED BY <1>1, ReconcileAlways, DetailedAlways, PTL
=============================================================================

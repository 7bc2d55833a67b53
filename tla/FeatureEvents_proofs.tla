------------------------ MODULE FeatureEvents_proofs ------------------------
(* Lemmas about the operators both ingest tiers are built from. *)
EXTENDS FeatureEvents, FiniteSetsExt, SumTheorems, TLAPS

----------------------------------------------------------------------------
(* The floor of an event time to its bucket *)

LEMMA NegativeProduct ==
  ASSUME NEW u \in Nat \ {0}, NEW q \in Int, q <= -1
  PROVE  u * q <= -u
<1>1. -1 - q \in Nat  OBVIOUS
<1>2. u * (-1 - q) \in Nat  BY <1>1, SMT
<1>3. u * (-1 - q) = -u - u * q  BY SMT
<1>4. u * q \in Int  BY SMT
<1> QED  BY <1>2, <1>3, <1>4

LEMMA QuotientAndRest ==
  ASSUME NEW t \in Nat, NEW u \in Nat \ {0}
  PROVE  /\ t \div u \in Nat
         /\ t % u \in 0 .. (u - 1)
         /\ t = u * (t \div u) + (t % u)
<1>1. t \div u \in Int /\ t % u \in 0 .. (u - 1)  BY SMT
<1>2. t = u * (t \div u) + (t % u)  BY SMT
<1>3. t \div u >= 0
  <2>1. SUFFICES ASSUME t \div u <= -1 PROVE FALSE  BY <1>1
  <2>2. u * (t \div u) <= -u  BY <1>1, <2>1, NegativeProduct
  <2>3. u * (t \div u) \in Int  BY <1>1, SMT
  <2> QED  BY <1>1, <1>2, <2>2, <2>3
<1> QED  BY <1>1, <1>2, <1>3

LEMMA MultipleHasNoRest ==
  ASSUME NEW q \in Nat, NEW u \in Nat \ {0}
  PROVE  (u * q) % u = 0
BY SMT

(* FloorTo(t, u) is the multiple of u in (t - u, t].                        *)
LEMMA FloorBounds ==
  ASSUME NEW t \in Nat, NEW u \in Nat \ {0}
  PROVE  /\ FloorTo(t, u) \in 0 .. t
         /\ t - u < FloorTo(t, u)
         /\ FloorTo(t, u) % u = 0
<1>1. /\ t \div u \in Nat
      /\ t % u \in 0 .. (u - 1)
      /\ t = u * (t \div u) + (t % u)
  BY QuotientAndRest
<1>2. u * (t \div u) \in Nat  BY <1>1, SMT
<1>3. FloorTo(t, u) = u * (t \div u)  BY <1>1, <1>2 DEF FloorTo
<1>4. (u * (t \div u)) % u = 0  BY <1>1, MultipleHasNoRest
<1> QED  BY <1>1, <1>2, <1>3, <1>4

LEMMA PositiveProduct ==
  ASSUME NEW u \in Nat \ {0}, NEW z \in Int, u * z > 0
  PROVE  u * z >= u
<1>1. CASE z >= 1
  <2>1. z - 1 \in Nat /\ u * (z - 1) \in Nat  BY <1>1, SMT
  <2>2. u * (z - 1) = u * z - u /\ u * z \in Int  BY SMT
  <2> QED  BY <2>1, <2>2
<1>2. CASE z <= 0
  <2>1. -z \in Nat /\ u * (-z) \in Nat  BY <1>2, SMT
  <2>2. u * (-z) = -(u * z) /\ u * z \in Int  BY SMT
  <2> QED  BY <2>1, <2>2
<1> QED  BY <1>1, <1>2

LEMMA MultipleIsProduct ==
  ASSUME NEW n \in Nat, NEW u \in Nat \ {0}, n % u = 0
  PROVE  \E a \in Nat : n = u * a
<1>1. n = u * (n \div u) + (n % u) /\ n \div u \in Nat
  BY QuotientAndRest
<1>2. PICK a \in Nat : a = n \div u
  BY <1>1
<1>3. n = u * a
  BY <1>1, <1>2
<1> QED  BY <1>3

LEMMA SumOfMultiples ==
  ASSUME NEW m \in Nat, NEW n \in Nat, NEW u \in Nat \ {0}, m % u = 0, n % u = 0
  PROVE  (m + n) % u = 0
<1>1. PICK a \in Nat : m = u * a
  BY MultipleIsProduct
<1>2. PICK b \in Nat : n = u * b
  BY MultipleIsProduct
<1>3. PICK d \in Nat : d = a + b
  OBVIOUS
<1>4. m + n = u * d
  BY <1>1, <1>2, <1>3, SMT
<1> QED  BY <1>4, MultipleHasNoRest

LEMMA MultiplesApart ==
  ASSUME NEW m \in Nat, NEW n \in Nat, NEW u \in Nat \ {0}, m % u = 0, n % u = 0, m > n
  PROVE  m >= n + u
<1>1. PICK a \in Nat : m = u * a
  BY MultipleIsProduct
<1>2. PICK b \in Nat : n = u * b
  BY MultipleIsProduct
<1>3. PICK d \in Int : d = a - b
  OBVIOUS
<1>4. u * d = u * a - u * b
  BY <1>3, SMT
<1>5. u * d >= u
  BY <1>1, <1>2, <1>4, PositiveProduct
<1> QED  BY <1>1, <1>2, <1>4, <1>5

LEMMA FloorIsLargest ==
  ASSUME NEW t \in Nat, NEW u \in Nat \ {0}, NEW m \in 0 .. t, m % u = 0
  PROVE  m <= FloorTo(t, u)
<1>1. FloorTo(t, u) \in 0 .. t /\ t - u < FloorTo(t, u) /\ FloorTo(t, u) % u = 0
  BY FloorBounds
<1>2. PICK n \in Nat : n = FloorTo(t, u) /\ n % u = 0 /\ t < n + u
  BY <1>1
<1>3. ~ (m > n)
  BY <1>2, MultiplesApart
<1> QED  BY <1>2, <1>3

(* A unit that starts after the floored cutoff of a window of W ticks, a    *)
(* number of whole units, has not begun before the window.                  *)
LEMMA WindowReach ==
  ASSUME NEW t \in Nat, NEW u \in Nat \ {0}, NEW s \in Nat, s % u = 0,
         NEW W \in Nat, W % u = 0, s > FloorTo(t, u) - W
  PROVE  t - s < W
<1>1. PICK n \in Nat : n = FloorTo(t, u) /\ n % u = 0 /\ t < n + u
  BY FloorBounds
<1>2. s + W >= n + u
  <2>1. PICK m \in Nat : m = s + W
    OBVIOUS
  <2>2. (s + W) % u = 0
    BY SumOfMultiples
  <2>3. m % u = 0
    BY <2>1, <2>2, Zenon
  <2>4. m > n
    BY <1>1, <2>1
  <2> QED  BY <1>1, <2>1, <2>3, <2>4, MultiplesApart
<1> QED  BY <1>1, <1>2

----------------------------------------------------------------------------
(* Buckets *)

LEMMA EmptyBucketType ==
  ASSUME NEW filters
  PROVE  EmptyBucket(filters) \in BucketOf(filters)
BY DEF EmptyBucket, BucketOf

(* One call of an ingest procedure keeps a bucket a bucket, whether the row *)
(* existed and whether the call is a retry.                                 *)
LEMMA AccumulatedType ==
  ASSUME NEW filters, NEW row \in BucketOf(filters) \cup {None},
         NEW e \in PayloadType, NEW duplicate \in BOOLEAN
  PROVE  Accumulated(row, filters, e, duplicate) \in BucketOf(filters)
<1> DEFINE b == Attempted(RowOrEmpty(row, filters))
<1>1. RowOrEmpty(row, filters) \in BucketOf(filters)
  BY EmptyBucketType DEF RowOrEmpty
<1>2. b \in BucketOf(filters)  BY <1>1 DEF Attempted, BucketOf
<1>3. Absorbed(b, filters, e) \in BucketOf(filters)
  <2> HIDE DEF b
  <2>1. e.amount \in Nat  BY DEF PayloadType
  <2>2. \A f \in filters : b.count[f] \in Nat /\ b.sum[f] \in Nat
    BY <1>2 DEF BucketOf
  <2>3. /\ Smaller(b.min, e.amount) \in Nat \cup {None}
        /\ Larger(b.max, e.amount) \in Nat \cup {None}
        /\ b.min \in Nat \cup {None} /\ b.max \in Nat \cup {None}
    BY <1>2, <2>1 DEF BucketOf, Smaller, Larger
  <2>4. /\ [f \in filters |-> b.count[f] + (IF Matches(f, e) THEN 1 ELSE 0)] \in [filters -> Nat]
        /\ [f \in filters |-> b.sum[f] + (IF Matches(f, e) THEN e.amount ELSE 0)] \in [filters -> Nat]
    BY <2>1, <2>2
  <2> QED  BY <1>2, <2>3, <2>4 DEF Absorbed, BucketOf
<1> QED  BY <1>2, <1>3 DEF Accumulated

(* A retry too counts as an attempt.                                        *)
LEMMA AccumulatedAttempts ==
  ASSUME NEW filters, NEW row \in BucketOf(filters) \cup {None},
         NEW e \in PayloadType, NEW duplicate \in BOOLEAN
  PROVE  Accumulated(row, filters, e, duplicate).attempts
           = RowOrEmpty(row, filters).attempts + 1
<1>1. PICK b : b = RowOrEmpty(row, filters) /\ b \in BucketOf(filters)
  BY EmptyBucketType DEF RowOrEmpty
<1>2. Attempted(b).attempts = b.attempts + 1 /\ Attempted(b) \in BucketOf(filters)
  BY <1>1 DEF Attempted, BucketOf
<1>3. Absorbed(Attempted(b), filters, e).attempts = Attempted(b).attempts
  BY <1>2 DEF Absorbed, BucketOf
<1> QED  BY <1>1, <1>2, <1>3 DEF Accumulated

(* What a call adds to the count of a filter: one, when the event matches   *)
(* and is no retry.                                                         *)
LEMMA AccumulatedCount ==
  ASSUME NEW filters, NEW row \in BucketOf(filters) \cup {None},
         NEW e \in PayloadType, NEW duplicate \in BOOLEAN, NEW f \in filters
  PROVE  Accumulated(row, filters, e, duplicate).count[f] =
           RowOrEmpty(row, filters).count[f]
             + (IF ~duplicate /\ Matches(f, e) THEN 1 ELSE 0)
<1>1. RowOrEmpty(row, filters) \in BucketOf(filters)
  BY EmptyBucketType DEF RowOrEmpty
<1>2. RowOrEmpty(row, filters).count[f] \in Nat  BY <1>1 DEF BucketOf
<1>3. Attempted(RowOrEmpty(row, filters)).count = RowOrEmpty(row, filters).count
  BY <1>1 DEF Attempted, BucketOf
<1>4. Attempted(RowOrEmpty(row, filters)) \in BucketOf(filters)
  BY <1>1 DEF Attempted, BucketOf
<1>5. Absorbed(Attempted(RowOrEmpty(row, filters)), filters, e).count[f] =
        Attempted(RowOrEmpty(row, filters)).count[f] + (IF Matches(f, e) THEN 1 ELSE 0)
  BY <1>4 DEF Absorbed, BucketOf
<1> QED  BY <1>2, <1>3, <1>5 DEF Accumulated

----------------------------------------------------------------------------
(* What a bucket holds *)

Matching(F, f) == {x \in F : Matches(f, x.event)}
Total(F)       == SumFunction([x \in F |-> x.event.amount])
AmountsOf(F)   == {x.event.amount : x \in F}

(* The facts F make the counts, the sums, the least and the largest amount  *)
(* of a bucket, and nothing else does.                                      *)
BucketHolds(b, filters, F) ==
  /\ \A f \in filters : /\ b.count[f] = Cardinality(Matching(F, f))
                        /\ b.sum[f] = Total(Matching(F, f))
  /\ IF Matching(F, "txn") = {} THEN b.min = None /\ b.max = None
     ELSE /\ b.min \in AmountsOf(Matching(F, "txn"))
          /\ b.max \in AmountsOf(Matching(F, "txn"))
          /\ \A x \in Matching(F, "txn") : b.min <= x.event.amount /\ x.event.amount <= b.max

LEMMA TotalIsSum ==
  ASSUME NEW F
  PROVE  Total(F) = SumFunctionOnSet([x \in F |-> x.event.amount], F)
BY DEF Total, SumFunction

LEMMA TotalOfNone == Total({}) = 0
BY TotalIsSum, SumEmpty

LEMMA TotalInNat ==
  ASSUME NEW F, IsFiniteSet(F), \A x \in F : x.event.amount \in Nat
  PROVE  Total(F) \in Nat
BY TotalIsSum, SumInNat

LEMMA TotalAdd ==
  ASSUME NEW F, IsFiniteSet(F), NEW y, y \notin F,
         \A x \in F \cup {y} : x.event.amount \in Nat
  PROVE  Total(F \cup {y}) = Total(F) + y.event.amount
<1>1. PICK f, g : /\ f = [x \in F |-> x.event.amount]
                  /\ g = [x \in F \cup {y} |-> x.event.amount]
  OBVIOUS
<1>2. /\ \A x \in F : g[x] = f[x] /\ f[x] \in Nat
      /\ \A x \in F \cup {y} : g[x] \in Nat
      /\ g[y] = y.event.amount
  BY <1>1
<1>3. SumFunctionOnSet(g, F \cup {y}) = SumFunctionOnSet(g, F) + g[y]
  BY <1>2, SumAdd
<1>4. SumFunctionOnSet(g, F) = SumFunctionOnSet(f, F)
  BY <1>2, SumSame
<1>5. Total(F) = SumFunctionOnSet(f, F) /\ Total(F \cup {y}) = SumFunctionOnSet(g, F \cup {y})
  BY <1>1, TotalIsSum
<1> QED  BY <1>2, <1>3, <1>4, <1>5

LEMMA EmptyHolds ==
  ASSUME NEW filters
  PROVE  BucketHolds(EmptyBucket(filters), filters, {})
<1>1. \A f : Matching({}, f) = {}
  BY DEF Matching
<1> QED  BY <1>1, TotalOfNone, FS_EmptySet DEF BucketHolds, EmptyBucket

(* A bucket that holds F holds, after a call, F and the call's own fact     *)
(* unless it was a retry.                                                   *)
LEMMA AttemptHolds ==
  ASSUME NEW filters, NEW F, NEW b \in BucketOf(filters), BucketHolds(b, filters, F)
  PROVE  BucketHolds(Attempted(b), filters, F)
BY DEF BucketHolds, Attempted, BucketOf

LEMMA AbsorbedHolds ==
  ASSUME NEW filters, NEW F, IsFiniteSet(F), NEW b \in BucketOf(filters),
         BucketHolds(b, filters, F), NEW y, y \notin F, y.event \in PayloadType,
         \A x \in F : x.event \in PayloadType
  PROVE  BucketHolds(Absorbed(b, filters, y.event), filters, F \cup {y})
<1> PICK e, after : e = y.event /\ after = Absorbed(b, filters, e)
  OBVIOUS
<1>1. \A x \in F \cup {y} : x.event.amount \in Nat
  BY DEF PayloadType
<1>2. ASSUME NEW f \in filters
      PROVE  /\ after.count[f] = b.count[f] + (IF Matches(f, e) THEN 1 ELSE 0)
             /\ after.sum[f] = b.sum[f] + (IF Matches(f, e) THEN e.amount ELSE 0)
  BY DEF Absorbed, BucketOf
<1>3. /\ after.min = IF Matches("txn", e) THEN Smaller(b.min, e.amount) ELSE b.min
      /\ after.max = IF Matches("txn", e) THEN Larger(b.max, e.amount) ELSE b.max
  BY DEF Absorbed, BucketOf
<1>4. \A f : Matching(F \cup {y}, f) =
               IF Matches(f, e) THEN Matching(F, f) \cup {y} ELSE Matching(F, f)
  BY DEF Matching
<1>5. \A f : IsFiniteSet(Matching(F, f)) /\ y \notin Matching(F, f) /\ Matching(F, f) \subseteq F
  BY FS_Subset DEF Matching
<1>6. ASSUME NEW f \in filters
      PROVE  /\ after.count[f] = Cardinality(Matching(F \cup {y}, f))
             /\ after.sum[f] = Total(Matching(F \cup {y}, f))
  <2>1. b.count[f] = Cardinality(Matching(F, f)) /\ b.sum[f] = Total(Matching(F, f))
        /\ b.count[f] \in Nat /\ b.sum[f] \in Nat
    BY DEF BucketHolds, BucketOf
  <2>2. CASE Matches(f, e)
    <3>1. Cardinality(Matching(F, f) \cup {y}) = Cardinality(Matching(F, f)) + 1
      BY <1>5, FS_AddElement
    <3>2. Total(Matching(F, f) \cup {y}) = Total(Matching(F, f)) + e.amount
      BY <1>1, <1>5, TotalAdd
    <3> QED  BY <1>2, <1>4, <2>1, <2>2, <3>1, <3>2
  <2>3. CASE ~Matches(f, e)
    <3>1. Matching(F \cup {y}, f) = Matching(F, f)
      BY <1>4, <2>3
    <3>2. after.count[f] = b.count[f] + 0 /\ after.sum[f] = b.sum[f] + 0
      BY <1>2, <2>3
    <3> QED  BY <2>1, <3>1, <3>2
  <2> QED  BY <2>2, <2>3
<1>7. IF Matching(F \cup {y}, "txn") = {} THEN after.min = None /\ after.max = None
      ELSE /\ after.min \in AmountsOf(Matching(F \cup {y}, "txn"))
           /\ after.max \in AmountsOf(Matching(F \cup {y}, "txn"))
           /\ \A x \in Matching(F \cup {y}, "txn") :
                after.min <= x.event.amount /\ x.event.amount <= after.max
  <2> PICK G : G = Matching(F, "txn") /\ y \notin G /\ G \subseteq F
    BY <1>5
  <2>1. /\ G = {} => b.min = None /\ b.max = None
        /\ G # {} => /\ b.min \in AmountsOf(G) /\ b.max \in AmountsOf(G)
                     /\ \A x \in G : b.min <= x.event.amount /\ x.event.amount <= b.max
    BY DEF BucketHolds
  <2>2. G # {} => b.min \in Nat /\ b.max \in Nat /\ b.min # None /\ b.max # None
    BY <1>1, <2>1, NoneAssumption DEF AmountsOf
  <2>3. CASE ~Matches("txn", e)
    BY <1>3, <1>4, <2>1, <2>3
  <2>4. CASE Matches("txn", e)
    <3>1. e.amount \in Nat /\ Matching(F \cup {y}, "txn") = G \cup {y}
      BY <1>1, <1>4, <2>4
    <3>2. after.min = Smaller(b.min, e.amount) /\ after.max = Larger(b.max, e.amount)
      BY <1>3, <2>4
    <3>3. AmountsOf(G \cup {y}) = AmountsOf(G) \cup {e.amount}
      BY DEF AmountsOf
    <3>4. CASE G = {}
      <4>1. G \cup {y} = {y} /\ AmountsOf({y}) = {e.amount}
        BY <3>4 DEF AmountsOf
      <4>2. after.min = e.amount /\ after.max = e.amount
        BY <2>1, <3>2, <3>4 DEF Smaller, Larger
      <4>3. \A x \in G \cup {y} : x = y
        BY <3>4
      <4>4. \A x \in G \cup {y} : after.min <= x.event.amount /\ x.event.amount <= after.max
        BY <3>1, <4>2, <4>3
      <4>5. after.min \in AmountsOf(G \cup {y}) /\ after.max \in AmountsOf(G \cup {y})
        BY <4>1, <4>2
      <4> QED  BY <3>1, <4>4, <4>5
    <3>5. CASE G # {}
      <4>1. /\ after.min = IF e.amount < b.min THEN e.amount ELSE b.min
            /\ after.max = IF e.amount > b.max THEN e.amount ELSE b.max
        BY <2>2, <3>2, <3>5 DEF Smaller, Larger
      <4>2. \A x \in G : x.event.amount \in Nat
        BY <1>1
      <4>3. after.min \in AmountsOf(G \cup {y}) /\ after.max \in AmountsOf(G \cup {y})
        BY <2>1, <3>3, <3>5, <4>1
      <4>4. /\ after.min <= e.amount /\ after.min <= b.min
            /\ e.amount <= after.max /\ b.max <= after.max
            /\ after.min \in Nat /\ after.max \in Nat
        BY <2>2, <3>1, <3>5, <4>1
      <4>5. ASSUME NEW x \in G \cup {y}
            PROVE  after.min <= x.event.amount /\ x.event.amount <= after.max
        <5>1. CASE x = y
          BY <4>4, <5>1
        <5>2. CASE x \in G
          BY <2>1, <2>2, <3>5, <4>2, <4>4, <5>2
        <5> QED  BY <5>1, <5>2
      <4> QED  BY <3>1, <4>3, <4>5
    <3> QED  BY <3>4, <3>5
  <2> QED  BY <2>3, <2>4
<1> QED  BY <1>6, <1>7 DEF BucketHolds

LEMMA WorkingBucketHolds ==
  ASSUME NEW filters, NEW row \in BucketOf(filters) \cup {None}, NEW F,
         IF row = None THEN F = {} ELSE BucketHolds(row, filters, F)
  PROVE  /\ Attempted(RowOrEmpty(row, filters)) \in BucketOf(filters)
         /\ BucketHolds(Attempted(RowOrEmpty(row, filters)), filters, F)
<1>1. PICK b : b = RowOrEmpty(row, filters)
  OBVIOUS
<1>2. b \in BucketOf(filters) /\ BucketHolds(b, filters, F)
  BY <1>1, EmptyHolds, EmptyBucketType DEF RowOrEmpty
<1>3. Attempted(b) \in BucketOf(filters) /\ BucketHolds(Attempted(b), filters, F)
  BY <1>2, AttemptHolds DEF Attempted, BucketOf
<1> QED  BY <1>1, <1>3

LEMMA RetryHolds ==
  ASSUME NEW filters, NEW row \in BucketOf(filters) \cup {None}, NEW F, NEW e,
         IF row = None THEN F = {} ELSE BucketHolds(row, filters, F)
  PROVE  BucketHolds(Accumulated(row, filters, e, TRUE), filters, F)
BY WorkingBucketHolds DEF Accumulated

LEMMA NewFactHolds ==
  ASSUME NEW filters, NEW row \in BucketOf(filters) \cup {None}, NEW F, IsFiniteSet(F),
         \A x \in F : x.event \in PayloadType,
         IF row = None THEN F = {} ELSE BucketHolds(row, filters, F),
         NEW y, y \notin F, y.event \in PayloadType
  PROVE  BucketHolds(Accumulated(row, filters, y.event, FALSE), filters, F \cup {y})
<1>1. PICK b : b = Attempted(RowOrEmpty(row, filters))
  OBVIOUS
<1>2. b \in BucketOf(filters) /\ BucketHolds(b, filters, F)
  BY <1>1, WorkingBucketHolds
<1>3. BucketHolds(Absorbed(b, filters, y.event), filters, F \cup {y})
  BY <1>2, AbsorbedHolds
<1> QED  BY <1>1, <1>3 DEF Accumulated

(* The least and the largest amount of a bucket are those of its facts.     *)
LEMMA ExtremesAre ==
  ASSUME NEW S \in SUBSET Nat, NEW a \in S, NEW z \in S, \A x \in S : a <= x /\ x <= z
  PROVE  Min(S) = a /\ Max(S) = z
<1>1. Min(S) \in S /\ \A x \in S : Min(S) <= x
  BY DEF Min
<1>2. Max(S) \in S /\ \A x \in S : Max(S) >= x
  BY DEF Max
<1>3. Min(S) <= a /\ a <= Min(S) /\ Max(S) >= z /\ z >= Max(S)
  BY <1>1, <1>2
<1>4. Min(S) \in Nat /\ Max(S) \in Nat /\ a \in Nat /\ z \in Nat
  BY <1>1, <1>2
<1> QED  BY <1>3, <1>4

LEMMA HoldsExtremes ==
  ASSUME NEW filters, NEW F, \A x \in F : x.event \in PayloadType, NEW b,
         BucketHolds(b, filters, F)
  PROVE  LET amounts == AmountsOf(Matching(F, "txn"))
         IN  /\ b.min = IF amounts = {} THEN None ELSE Min(amounts)
             /\ b.max = IF amounts = {} THEN None ELSE Max(amounts)
<1>1. PICK amounts : amounts = AmountsOf(Matching(F, "txn"))
  OBVIOUS
<1>2. amounts \in SUBSET Nat /\ (amounts = {} <=> Matching(F, "txn") = {})
  <2>1. \A x \in Matching(F, "txn") : x.event.amount \in Nat
    BY DEF Matching, PayloadType
  <2> QED  BY ONLY <1>1, <2>1 DEF AmountsOf
<1>3. CASE amounts = {}
  BY <1>1, <1>2, <1>3 DEF BucketHolds
<1>4. CASE amounts # {}
  <2>1. b.min \in amounts /\ b.max \in amounts /\ \A x \in amounts : b.min <= x /\ x <= b.max
    BY <1>1, <1>2, <1>4 DEF BucketHolds, AmountsOf
  <2>2. Min(amounts) = b.min /\ Max(amounts) = b.max
    BY <1>2, <2>1, ExtremesAre
  <2> QED  BY <1>1, <1>4, <2>2
<1> QED  BY <1>3, <1>4
(* The totals of the parts, one for each value of key, make the total.      *)
LEMMA TotalOfParts ==
  ASSUME NEW G, IsFiniteSet(G), \A x \in G : x.event.amount \in Nat, NEW key,
         NEW K, IsFiniteSet(K), NEW totals,
         \A k \in K : totals[k] = Total(Part(G, key, k))
  PROVE  SumFunctionOnSet(totals, K) = Total(Parts(G, key, K))
<1>1. PICK amount : amount = [x \in G |-> x.event.amount]
  OBVIOUS
<1>2. \A x \in G : amount[x] \in Nat
  BY <1>1
<1>3. ASSUME NEW F \in SUBSET G PROVE Total(F) = SumFunctionOnSet(amount, F)
  <2>1. PICK g : g = [x \in F |-> x.event.amount]
    OBVIOUS
  <2>2. Total(F) = SumFunctionOnSet(g, F)
    BY <2>1, TotalIsSum
  <2>3. IsFiniteSet(F) /\ \A x \in F : g[x] = amount[x] /\ g[x] \in Nat
    BY <1>1, <2>1, FS_Subset
  <2> QED  BY <2>2, <2>3, SumSame
<1>4. \A k \in K : totals[k] = SumFunctionOnSet(amount, Part(G, key, k))
  BY <1>3 DEF Part
<1>5. SumFunctionOnSet(totals, K) = SumFunctionOnSet(amount, Parts(G, key, K))
  BY <1>2, <1>4, SumOfParts
<1> QED  BY <1>3, <1>5 DEF Parts
=============================================================================

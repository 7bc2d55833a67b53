------------------------ MODULE MerchantTier_proofs -------------------------
(***************************************************************************)
(* Proofs about MerchantTier, for every set of merchants, transactions and *)
(* payloads, every minute length and every TTL the assumptions allow.      *)
(***************************************************************************)
EXTENDS MerchantTier, FeatureEvents_proofs

LEMMA MerchantTicksInNat ==
  /\ Minute \in Nat \ {0}
  /\ SeenTTL \in Nat /\ BucketTTL \in Nat /\ MaxAge \in Nat
  /\ MaxTime \in Nat /\ MaxCalls \in Nat
BY MerchantTicksAssumption

(* The minute bucket of an event is a minute of the table.                  *)
LEMMA MinuteOfEvent ==
  ASSUME NEW at \in Time
  PROVE  FloorTo(at, Minute) \in Minutes
<1>1. at \in Nat  BY MerchantTicksInNat DEF Time
<1>2. FloorTo(at, Minute) \in 0 .. at /\ FloorTo(at, Minute) % Minute = 0
  BY <1>1, MerchantTicksInNat, FloorBounds
<1>3. FloorTo(at, Minute) \in Time  BY <1>1, <1>2, MerchantTicksInNat DEF Time
<1> QED  BY <1>2, <1>3 DEF Minutes

----------------------------------------------------------------------------
(* Type correctness *)

LEMMA MerchantTypeInit == Init => TypeOK
<1> SUFFICES ASSUME Init PROVE TypeOK  OBVIOUS
<1>1. now \in Time /\ calls \in 0 .. MaxCalls  BY MerchantTicksInNat DEF Init, Time
<1> QED  BY <1>1 DEF Init, TypeOK

LEMMA MerchantTypeRecord ==
  ASSUME TypeOK, NEW m \in Merchants, NEW t \in Txns, NEW at \in Time, NEW e \in Payloads,
         RecordMerchantTxn(m, t, at, e)
  PROVE  TypeOK'
<1> DEFINE duplicate == Seen(m, t)
           b == FloorTo(at, Minute)
<1>1. duplicate \in BOOLEAN  BY DEF Seen
<1>2. Record(m, t, at, e) /\ UNCHANGED now /\ calls < MaxCalls /\ calls' = calls + 1
  BY DEF RecordMerchantTxn
<1>3. seen' \in [Keys -> Time \cup {None}]
  <2>1. <<m, t>> \in Keys  BY DEF Keys
  <2> QED  BY <1>2, <2>1 DEF Record, SeenAfter, TypeOK
<1>4. buckets' \in [Merchants \X Minutes -> BucketOf(MerchantFilters) \cup {None}]
  <2>1. e \in PayloadType  BY MerchantPayloadsAssumption
  <2>2. <<m, b>> \in Merchants \X Minutes  BY MinuteOfEvent
  <2>3. buckets[<<m, b>>] \in BucketOf(MerchantFilters) \cup {None}  BY <2>2 DEF TypeOK
  <2>4. Accumulated(buckets[<<m, b>>], MerchantFilters, e, duplicate)
          \in BucketOf(MerchantFilters)
    BY <1>1, <2>1, <2>3, AccumulatedType
  <2>5. buckets' = [buckets EXCEPT ![<<m, b>>] =
                      Accumulated(buckets[<<m, b>>], MerchantFilters, e, duplicate)]
    BY <1>2 DEF Record
  <2> QED  BY <2>2, <2>4, <2>5 DEF TypeOK
<1>5. ledger' \subseteq Facts
  <2>1. [key |-> <<m, t>>, at |-> at, event |-> e] \in Facts  BY DEF Facts, Keys
  <2> QED  BY <1>2, <2>1 DEF Record, TypeOK
<1>6. now' \in Time /\ calls' \in 0 .. MaxCalls  BY <1>2, MerchantTicksInNat DEF TypeOK
<1> QED  BY <1>3, <1>4, <1>5, <1>6 DEF TypeOK

LEMMA MerchantTypeNext == TypeOK /\ [Next]_vars => TypeOK'
<1> SUFFICES ASSUME TypeOK, [Next]_vars PROVE TypeOK'  OBVIOUS
<1>1. ASSUME NEW m \in Merchants, NEW t \in Txns, EvictSeen(m, t) PROVE TypeOK'
  BY <1>1 DEF EvictSeen, TypeOK
<1>2. ASSUME NEW m \in Merchants, NEW b \in Minutes, EvictBucket(m, b) PROVE TypeOK'
  BY <1>2 DEF EvictBucket, TypeOK
<1>3. CASE Tick  BY <1>3, MerchantTicksInNat DEF Tick, TypeOK, Time
<1>4. CASE UNCHANGED vars  BY <1>4 DEF vars, TypeOK
<1> QED  BY <1>1, <1>2, <1>3, <1>4, MerchantTypeRecord DEF Next

(* Every reachable state of the merchant tier is well typed: its tables     *)
(* under RecordMerchantTxn and TTL eviction.                                *)
THEOREM MerchantTypeCorrect == Spec => []TypeOK
<1> QED  BY MerchantTypeInit, MerchantTypeNext, PTL DEF Spec

----------------------------------------------------------------------------
(* MERCHANT_TXN_SEEN is the ledger's memory *)

(* One key's part of SeenRemembersLedger, in the form the steps use.        *)
Remembered(k) ==
  IF seen[k] = None
  THEN \A x \in ledger : x.key = k => now - x.at > SeenTTL
  ELSE \E x \in ledger : /\ x.key = k
                         /\ seen[k] = x.at
                         /\ \A y \in ledger : y.key = k /\ y # x => now - y.at > SeenTTL

LEMMA RememberedIsSeen ==
  ASSUME TypeOK
  PROVE  SeenRemembersLedger <=> \A k \in Keys : Remembered(k)
<1>1. \A x \in ledger : now - x.at > SeenTTL <=> ~(now - x.at <= SeenTTL)
  <2>1. \A x \in ledger : x.at \in Int  BY MerchantTicksInNat DEF TypeOK, Facts, Time
  <2> QED  BY <2>1, MerchantTicksInNat DEF TypeOK, Time
<1> QED  BY <1>1 DEF SeenRemembersLedger, Remembered

(* A retry changes neither table nor ledger; an event that finds no row is  *)
(* entered in both, and all earlier facts of its key are beyond the TTL.    *)
LEMMA SeenRecord ==
  ASSUME TypeOK, \A k \in Keys : Remembered(k),
         NEW m \in Merchants, NEW t \in Txns, NEW at \in Time, NEW e \in Payloads,
         RecordMerchantTxn(m, t, at, e)
  PROVE  \A k \in Keys : Remembered(k)'
<1> DEFINE fact == [key |-> <<m, t>>, at |-> at, event |-> e]
<1>1. <<m, t>> \in Keys /\ seen \in [Keys -> Time \cup {None}]  BY DEF Keys, TypeOK
<1>2. now' = now  BY DEF RecordMerchantTxn
<1>3. CASE Seen(m, t)
  BY <1>2, <1>3 DEF RecordMerchantTxn, Record, SeenAfter, Remembered
<1>4. CASE ~Seen(m, t)
  <2>1. ledger' = ledger \cup {fact}  BY <1>4 DEF RecordMerchantTxn, Record
  <2>2. seen' = [seen EXCEPT ![<<m, t>>] = at]
    BY <1>4 DEF RecordMerchantTxn, Record, SeenAfter
  <2>3. seen[<<m, t>>] = None  BY <1>4 DEF Seen
  <2>4. at # None  BY NoneAssumption, MerchantTicksInNat DEF Time
  <2> SUFFICES ASSUME NEW k \in Keys PROVE Remembered(k)'  OBVIOUS
  <2>5. CASE k = <<m, t>>
    <3>1. seen'[k] = at  BY <1>1, <2>2, <2>5
    <3>2. \A y \in ledger : y.key = k => now - y.at > SeenTTL
      BY <1>1, <2>3, <2>5 DEF Remembered
    <3>3. fact \in ledger' /\ fact.key = k /\ fact.at = at  BY <2>1, <2>5
    <3>4. \A y \in ledger' : y.key = k /\ y # fact => now' - y.at > SeenTTL
      BY <1>2, <2>1, <3>2
    <3> QED  BY <2>4, <3>1, <3>3, <3>4 DEF Remembered
  <2>6. CASE k # <<m, t>>
    <3>1. seen'[k] = seen[k]  BY <1>1, <2>2, <2>6
    <3>2. fact.key # k  BY <2>6
    <3>3. Remembered(k)  OBVIOUS
    <3> HIDE DEF fact
    <3> QED  BY <1>2, <2>1, <3>1, <3>2, <3>3 DEF Remembered
  <2> QED  BY <2>5, <2>6
<1> QED  BY <1>3, <1>4

LEMMA SeenEvict ==
  ASSUME TypeOK, \A k \in Keys : Remembered(k),
         NEW m \in Merchants, NEW t \in Txns, EvictSeen(m, t)
  PROVE  \A k \in Keys : Remembered(k)'
<1>1. <<m, t>> \in Keys  BY DEF Keys
<1>2. /\ seen[<<m, t>>] # None /\ now - seen[<<m, t>>] > SeenTTL
      /\ seen' = [seen EXCEPT ![<<m, t>>] = None]
      /\ ledger' = ledger /\ now' = now
  BY DEF EvictSeen
<1>3. \A y \in ledger : y.key = <<m, t>> => now - y.at > SeenTTL
  BY <1>1, <1>2 DEF Remembered
<1> SUFFICES ASSUME NEW k \in Keys PROVE Remembered(k)'  OBVIOUS
<1>4. CASE k = <<m, t>>  BY <1>1, <1>2, <1>3, <1>4 DEF Remembered, TypeOK
<1>5. CASE k # <<m, t>>  BY <1>1, <1>2, <1>5 DEF Remembered, TypeOK
<1> QED  BY <1>4, <1>5

LEMMA SeenTick ==
  ASSUME TypeOK, \A k \in Keys : Remembered(k), Tick
  PROVE  \A k \in Keys : Remembered(k)'
<1>1. now' = now + 1 /\ seen' = seen /\ ledger' = ledger  BY DEF Tick
<1>2. \A y \in ledger : now - y.at > SeenTTL => now' - y.at > SeenTTL
  <2>1. \A y \in ledger : y.at \in Int  BY MerchantTicksInNat DEF TypeOK, Facts, Time
  <2> QED  BY <1>1, <2>1, MerchantTicksInNat DEF TypeOK, Time
<1> QED  BY <1>1, <1>2 DEF Remembered

LEMMA SeenNext ==
  TypeOK /\ (\A k \in Keys : Remembered(k)) /\ [Next]_vars => \A k \in Keys : Remembered(k)'
<1> SUFFICES ASSUME TypeOK, \A k \in Keys : Remembered(k), [Next]_vars
             PROVE  \A k \in Keys : Remembered(k)'
  OBVIOUS
<1>1. ASSUME NEW m \in Merchants, NEW b \in Minutes, EvictBucket(m, b)
      PROVE  \A k \in Keys : Remembered(k)'
  BY <1>1 DEF EvictBucket, Remembered
<1>2. CASE UNCHANGED vars  BY <1>2 DEF vars, Remembered
<1> QED  BY <1>1, <1>2, SeenRecord, SeenEvict, SeenTick DEF Next

(* No fact inside the 48 h TTL is without its row in MERCHANT_TXN_SEEN,     *)
(* although a row is entered once and never refreshed by a retry.           *)
THEOREM SeenRemembersLedgerAlways == Spec => []SeenRemembersLedger
<1> DEFINE AllRemembered == \A k \in Keys : Remembered(k)
<1>1. Init => AllRemembered  BY DEF Init, Remembered
<1>2. TypeOK /\ AllRemembered /\ [Next]_vars => AllRemembered'  BY SeenNext
<1>3. TypeOK /\ AllRemembered => SeenRemembersLedger  BY RememberedIsSeen
<1> HIDE DEF AllRemembered
<1> QED  BY <1>1, <1>2, <1>3, MerchantTypeCorrect, PTL DEF Spec

----------------------------------------------------------------------------
(* Refinement of the dedupe promise *)

LEMMA MerchantDedupStep ==
  TypeOK /\ SeenRemembersLedger /\ [Next]_vars => [Dedup!Next]_(Dedup!ledgerVars)
<1> SUFFICES ASSUME TypeOK, SeenRemembersLedger, [Next]_vars
             PROVE  Dedup!Next \/ UNCHANGED <<now, ledger>>
  BY DEF Dedup!ledgerVars
<1>1. ASSUME NEW m \in Merchants, NEW t \in Txns, NEW at \in Time, NEW e \in Payloads,
             RecordMerchantTxn(m, t, at, e)
      PROVE  Dedup!Next \/ UNCHANGED <<now, ledger>>
  <2>1. now' = now /\ Record(m, t, at, e)  BY <1>1 DEF RecordMerchantTxn
  <2>2. CASE Seen(m, t)  BY <2>1, <2>2 DEF Record
  <2>3. CASE ~Seen(m, t)
    <3> DEFINE fact == [key |-> <<m, t>>, at |-> at, event |-> e]
    <3>1. fact \in Dedup!Facts  BY DEF Dedup!Facts, Keys
    <3>2. ledger' = ledger \cup {fact}  BY <2>1, <2>3 DEF Record
    <3>3. \A x \in ledger : x.key = <<m, t>> => now - x.at > SeenTTL
      <4>1. Remembered(<<m, t>>)  BY RememberedIsSeen DEF Keys
      <4> QED  BY <2>3, <4>1 DEF Remembered, Seen
    <3>4. Dedup!Forgotten(fact.key)  BY <3>3 DEF Dedup!Forgotten
    <3>5. Dedup!Count(fact)  BY <2>1, <3>2, <3>4 DEF Dedup!Count
    <3> QED  BY <3>1, <3>5 DEF Dedup!Next
  <2> QED  BY <2>2, <2>3
<1>2. CASE Tick  BY <1>2 DEF Tick, Dedup!Next, Dedup!Advance
<1>3. ASSUME NEW m \in Merchants, NEW t \in Txns, EvictSeen(m, t)
      PROVE  UNCHANGED <<now, ledger>>
  BY <1>3 DEF EvictSeen
<1>4. ASSUME NEW m \in Merchants, NEW b \in Minutes, EvictBucket(m, b)
      PROVE  UNCHANGED <<now, ledger>>
  BY <1>4 DEF EvictBucket
<1>5. CASE UNCHANGED vars  BY <1>5 DEF vars
<1> QED  BY <1>1, <1>2, <1>3, <1>4, <1>5 DEF Next

(* RecordMerchantTxn over an evicting MERCHANT_TXN_SEEN keeps the dedupe    *)
(* promise of DedupLedger per merchant, with 48 hours as its retention.     *)
THEOREM MerchantTierDedups == Spec => ImplementsDedup
<1>1. Init => Dedup!Init  BY DEF Init, Dedup!Init
<1>2. TypeOK /\ SeenRemembersLedger /\ [Next]_vars => [Dedup!Next]_(Dedup!ledgerVars)
  BY MerchantDedupStep
<1> QED
  BY <1>1, <1>2, MerchantTypeCorrect, SeenRemembersLedgerAlways, PTL
  DEF Spec, ImplementsDedup, Dedup!Spec

----------------------------------------------------------------------------
(* Every minute bucket holds the facts of its minute *)

FactsAt(m, s) == {x \in ledger : x.key[1] = m /\ FloorTo(x.at, Minute) = s}

(* A minute without its bucket is one of which nothing was counted, or one  *)
(* that no event can name any more.                                         *)
BucketKept(m, s) ==
  IF buckets[<<m, s>>] = None
  THEN FactsAt(m, s) = {} \/ now - s > BucketTTL
  ELSE BucketHolds(buckets[<<m, s>>], MerchantFilters, FactsAt(m, s))

BucketsInv ==
  IsFiniteSet(ledger) /\ \A m \in Merchants, s \in Minutes : BucketKept(m, s)

LEMMA FactFields ==
  ASSUME TypeOK, NEW x \in ledger
  PROVE  /\ x.at \in Time /\ x.at \in Nat /\ x.event \in PayloadType
         /\ x.key[1] \in Merchants
BY MerchantTicksInNat, MerchantPayloadsAssumption DEF TypeOK, Facts, Time, Keys

LEMMA FactsAtFinite ==
  ASSUME TypeOK, BucketsInv, NEW m, NEW s
  PROVE  IsFiniteSet(FactsAt(m, s)) /\ \A x \in FactsAt(m, s) : x.event \in PayloadType
<1>1. FactsAt(m, s) \subseteq ledger
  BY DEF FactsAt
<1> QED  BY <1>1, FactFields, FS_Subset DEF BucketsInv

(* An event's own minute is not past the buckets' life, and the event is a  *)
(* new fact when it is not taken for a retry.                               *)
LEMMA BucketsRecord ==
  ASSUME TypeOK, \A k \in Keys : Remembered(k), BucketsInv,
         NEW m \in Merchants, NEW t \in Txns, NEW at \in Time, NEW e \in Payloads,
         RecordMerchantTxn(m, t, at, e)
  PROVE  BucketsInv'
<1> PICK b, row, fact, duplicate :
      /\ b = FloorTo(at, Minute) /\ row = buckets[<<m, b>>] /\ duplicate = Seen(m, t)
      /\ fact = [key |-> <<m, t>>, at |-> at, event |-> e]
  OBVIOUS
<1>1. /\ b \in Minutes /\ duplicate \in BOOLEAN /\ e \in PayloadType
      /\ row \in BucketOf(MerchantFilters) \cup {None}
  BY MinuteOfEvent, MerchantPayloadsAssumption DEF Seen, TypeOK
<1>2. /\ now' = now /\ now - MaxAge <= at
      /\ ledger' = IF duplicate THEN ledger ELSE ledger \cup {fact}
      /\ buckets' = [buckets EXCEPT ![<<m, b>>] = Accumulated(row, MerchantFilters, e, duplicate)]
  BY DEF RecordMerchantTxn, Record
<1>3. row = None => FactsAt(m, b) = {}
  <2>1. at \in Nat /\ now \in Nat
    BY MerchantTicksInNat DEF Time, TypeOK
  <2>2. at - Minute < b /\ b \in Nat
    BY <2>1, MerchantTicksInNat, FloorBounds
  <2>3. ~ (now - b > BucketTTL)
    BY <1>2, <2>1, <2>2, MerchantTicksInNat, MerchantRetentionAssumption
  <2> QED  BY <1>1, <2>3 DEF BucketsInv, BucketKept
<1>4. row # None => BucketHolds(row, MerchantFilters, FactsAt(m, b))
  BY <1>1 DEF BucketsInv, BucketKept
<1>5. ~duplicate => fact \notin ledger
  <2>1. <<m, t>> \in Keys /\ at \in Nat /\ now \in Nat
    BY MerchantTicksInNat DEF Keys, Time, TypeOK
  <2>2. ASSUME ~duplicate, fact \in ledger PROVE FALSE
    <3>1. now - fact.at > SeenTTL
      BY <2>1, <2>2 DEF Remembered, Seen
    <3> QED  BY <1>2, <2>1, <3>1, MerchantTicksInNat, MerchantRetentionAssumption
  <2> QED  BY <2>2
<1>6. IsFiniteSet(ledger')
  BY <1>2, FS_AddElement DEF BucketsInv
<1>7. ASSUME NEW n \in Merchants, NEW s \in Minutes, <<n, s>> # <<m, b>>
      PROVE  BucketKept(n, s)'
  <2>1. buckets'[<<n, s>>] = buckets[<<n, s>>]
    BY <1>2, <1>7 DEF TypeOK
  <2>2. FactsAt(n, s)' = FactsAt(n, s)
    BY <1>2, <1>7 DEF FactsAt
  <2> QED  BY <1>2, <2>1, <2>2 DEF BucketsInv, BucketKept
<1>8. BucketKept(m, b)'
  <2> PICK after : after = Accumulated(row, MerchantFilters, e, duplicate)
    OBVIOUS
  <2>1. buckets'[<<m, b>>] = after /\ after # None
    <3>1. after \in BucketOf(MerchantFilters)
      BY <1>1, AccumulatedType
    <3> QED  BY <1>1, <1>2, <3>1, NoBucketAssumption DEF TypeOK
  <2>2. /\ IsFiniteSet(FactsAt(m, b)) /\ \A x \in FactsAt(m, b) : x.event \in PayloadType
    BY FactsAtFinite
  <2>3. CASE duplicate
    <3>1. BucketHolds(after, MerchantFilters, FactsAt(m, b))
      BY <1>1, <1>3, <1>4, <2>3, RetryHolds
    <3>2. FactsAt(m, b)' = FactsAt(m, b)
      BY <1>2, <2>3 DEF FactsAt
    <3> QED  BY <2>1, <3>1, <3>2 DEF BucketKept
  <2>4. CASE ~duplicate
    <3>1. fact \notin FactsAt(m, b) /\ fact.event = e
      BY <1>5, <2>4 DEF FactsAt
    <3>2. BucketHolds(after, MerchantFilters, FactsAt(m, b) \cup {fact})
      BY <1>1, <1>3, <1>4, <2>2, <2>4, <3>1, NewFactHolds
    <3>3. FactsAt(m, b)' = FactsAt(m, b) \cup {fact}
      BY <1>2, <2>4 DEF FactsAt
    <3> QED  BY <2>1, <3>2, <3>3 DEF BucketKept
  <2> QED  BY <1>1, <2>3, <2>4
<1> QED  BY <1>6, <1>7, <1>8 DEF BucketsInv

LEMMA BucketsNext ==
  ASSUME TypeOK, \A k \in Keys : Remembered(k), BucketsInv, [Next]_vars
  PROVE  BucketsInv'
<1>1. ASSUME UNCHANGED <<buckets, ledger, now>> PROVE BucketsInv'
  BY <1>1 DEF BucketsInv, BucketKept, FactsAt
<1>2. ASSUME NEW m \in Merchants, NEW b \in Minutes, EvictBucket(m, b) PROVE BucketsInv'
  <2>1. /\ now - b > BucketTTL /\ UNCHANGED <<ledger, now>>
        /\ buckets' = [buckets EXCEPT ![<<m, b>>] = None]
    BY <1>2 DEF EvictBucket, BucketExpired
  <2>2. ASSUME NEW n \in Merchants, NEW s \in Minutes PROVE BucketKept(n, s)'
    <3>1. FactsAt(n, s)' = FactsAt(n, s)
      BY <2>1 DEF FactsAt
    <3>2. CASE <<n, s>> = <<m, b>>
      BY <2>1, <3>1, <3>2 DEF BucketKept, TypeOK
    <3>3. CASE <<n, s>> # <<m, b>>
      BY <2>1, <3>1, <3>3 DEF BucketKept, BucketsInv, TypeOK
    <3> QED  BY <3>2, <3>3
  <2> QED  BY <2>1, <2>2 DEF BucketsInv
<1>3. CASE Tick
  <2>1. now' = now + 1 /\ UNCHANGED <<buckets, ledger>> /\ now \in Int
    BY <1>3, MerchantTicksInNat DEF Tick, TypeOK, Time
  <2>2. ASSUME NEW n \in Merchants, NEW s \in Minutes PROVE BucketKept(n, s)'
    <3>1. FactsAt(n, s)' = FactsAt(n, s) /\ s \in Int
      BY <2>1, MerchantTicksInNat DEF FactsAt, Minutes, Time
    <3> QED  BY <2>1, <3>1, MerchantTicksInNat DEF BucketKept, BucketsInv
  <2> QED  BY <2>1, <2>2 DEF BucketsInv
<1>4. ASSUME NEW m \in Merchants, NEW t \in Txns, EvictSeen(m, t) PROVE BucketsInv'
  BY <1>1, <1>4 DEF EvictSeen
<1>5. CASE UNCHANGED vars
  BY <1>1, <1>5 DEF vars
<1> QED  BY <1>2, <1>3, <1>4, <1>5, BucketsRecord DEF Next

LEMMA BucketsInit ==
  ASSUME Init
  PROVE  BucketsInv
<1>1. \A m \in Merchants, s \in Minutes : buckets[<<m, s>>] = None /\ FactsAt(m, s) = {}
  BY DEF Init, FactsAt
<1> QED  BY <1>1, FS_EmptySet DEF Init, BucketsInv, BucketKept

LEMMA BucketsKept == Spec => []BucketsInv
<1> DEFINE AllRemembered == \A k \in Keys : Remembered(k)
<1>1. Init => AllRemembered /\ BucketsInv
  BY BucketsInit DEF Init, Remembered
<1>2. TypeOK /\ AllRemembered /\ [Next]_vars => AllRemembered'
  BY SeenNext
<1>3. TypeOK /\ AllRemembered /\ BucketsInv /\ [Next]_vars => BucketsInv'
  BY BucketsNext
<1> HIDE DEF AllRemembered
<1> QED  BY <1>1, <1>2, <1>3, MerchantTypeCorrect, PTL DEF Spec

(* A minute bucket counts every fact of its minute once, and sums it, also  *)
(* after the dedupe memory of those facts is gone (RecordMerchantTxn).      *)
THEOREM BucketsAreExact == Spec => []BucketsExact
<1>1. ASSUME TypeOK, BucketsInv PROVE BucketsExact
  <2> SUFFICES ASSUME NEW m \in Merchants, NEW s \in Minutes, buckets[<<m, s>>] # None
               PROVE  LET b == buckets[<<m, s>>]
                          F(f) == {x \in FactsOf(m, f) : FloorTo(x.at, Minute) = s}
                          amounts == {x.event.amount : x \in F("txn")}
                      IN  /\ \A f \in MerchantFilters : /\ b.count[f] = Cardinality(F(f))
                                                        /\ b.sum[f] = Amount(F(f))
                          /\ b.min = IF amounts = {} THEN None ELSE Min(amounts)
                          /\ b.max = IF amounts = {} THEN None ELSE Max(amounts)
    BY DEF BucketsExact
  <2>1. BucketHolds(buckets[<<m, s>>], MerchantFilters, FactsAt(m, s))
    BY <1>1 DEF BucketsInv, BucketKept
  <2>2. \A f : {x \in FactsOf(m, f) : FloorTo(x.at, Minute) = s} = Matching(FactsAt(m, s), f)
    BY DEF FactsOf, FactsAt, Matching
  <2>3. \A F : Amount(F) = Total(F)
    BY DEF Amount, Total
  <2>4. \A x \in FactsAt(m, s) : x.event \in PayloadType
    BY <1>1, FactsAtFinite
  <2>5. LET amounts == AmountsOf(Matching(FactsAt(m, s), "txn"))
        IN  /\ buckets[<<m, s>>].min = IF amounts = {} THEN None ELSE Min(amounts)
            /\ buckets[<<m, s>>].max = IF amounts = {} THEN None ELSE Max(amounts)
    BY <2>1, <2>4, HoldsExtremes
  <2> QED  BY <2>1, <2>2, <2>3, <2>5 DEF BucketHolds, AmountsOf
<1> QED  BY <1>1, MerchantTypeCorrect, BucketsKept, PTL

----------------------------------------------------------------------------
(* What a read adds up *)

LEMMA WindowIsMinutes ==
  ASSUME NEW W \in Windows
  PROVE  W \in Nat /\ W % Minute = 0
<1>1. MaxTime \div Minute \in Nat
  BY MerchantTicksInNat, QuotientAndRest
<1>2. PICK k \in Nat : W = k * Minute
  BY <1>1 DEF Windows
<1>3. W = Minute * k /\ W \in Nat
  BY <1>2, MerchantTicksInNat, SMT
<1> QED  BY <1>3, MerchantTicksInNat, MultipleHasNoRest

(* No minute that a documented span covers has lost its bucket.             *)
LEMMA CoveredFacts ==
  ASSUME TypeOK, BucketsInv, NEW m \in Merchants, NEW W \in MerchantWindows,
         NEW x \in ledger, x.key[1] = m
  PROVE  FloorTo(x.at, Minute) \in CoveredBuckets(m, W)
           <=> FloorTo(x.at, Minute) > FloorTo(now, Minute) - W
<1> PICK s : s = FloorTo(x.at, Minute)
  OBVIOUS
<1>1. x.at \in Time /\ now \in Nat /\ s \in Minutes /\ s \in Nat /\ s % Minute = 0
  BY FactFields, MinuteOfEvent, MerchantTicksInNat DEF TypeOK, Time, Minutes
<1>2. ASSUME s > FloorTo(now, Minute) - W PROVE buckets[<<m, s>>] # None
  <2>1. W \in Windows /\ W <= BucketTTL
    BY DEF MerchantWindows
  <2>2. W \in Nat /\ W % Minute = 0
    BY <2>1, WindowIsMinutes
  <2>3. now - s < W
    BY <1>1, <1>2, <2>2, MerchantTicksInNat, WindowReach
  <2>4. ~ (now - s > BucketTTL)
    BY <1>1, <2>1, <2>2, <2>3, MerchantTicksInNat
  <2>5. x \in FactsAt(m, s)
    BY DEF FactsAt
  <2> QED  BY <1>1, <2>4, <2>5 DEF BucketsInv, BucketKept
<1> QED  BY <1>1, <1>2 DEF CoveredBuckets

(* GetMerchantFeatures counts and sums, at any span within the 7-day TTL of *)
(* the buckets, exactly the facts whose minute starts after the floored     *)
(* cutoff.                                                                  *)
THEOREM ReadsAreMinuteExact == Spec => []MinuteExactReads
<1>1. ASSUME TypeOK, BucketsInv PROVE MinuteExactReads
  <2> SUFFICES ASSUME NEW m \in Merchants, NEW W \in MerchantWindows, NEW f \in MerchantFilters
               PROVE  LET F == {x \in FactsOf(m, f) :
                                  FloorTo(x.at, Minute) > FloorTo(now, Minute) - W}
                      IN  /\ MerchantCount(m, W, f) = Cardinality(F)
                          /\ MerchantSum(m, W, f) = Amount(F)
    BY DEF MinuteExactReads
  <2> PICK G, K, minute, counts, sums :
        /\ G = FactsOf(m, f) /\ K = CoveredBuckets(m, W)
        /\ minute = [x \in ledger |-> FloorTo(x.at, Minute)]
        /\ counts = [b \in K |-> buckets[<<m, b>>].count[f]]
        /\ sums = [b \in K |-> buckets[<<m, b>>].sum[f]]
    OBVIOUS
  <2>1. G \subseteq ledger /\ IsFiniteSet(G) /\ \A x \in G : x.event.amount \in Nat
    BY <1>1, FactFields, FS_Subset DEF FactsOf, BucketsInv, PayloadType
  <2>2. IsFiniteSet(K)
    <3>1. IsFiniteSet(0 .. MaxTime)
      BY MerchantTicksInNat, FS_Interval
    <3> QED  BY <3>1, FS_Subset DEF CoveredBuckets, Minutes, Time
  <2>3. Parts(G, minute, K) = {x \in FactsOf(m, f) :
                                 FloorTo(x.at, Minute) > FloorTo(now, Minute) - W}
    <3>1. \A x \in G : minute[x] \in K <=> FloorTo(x.at, Minute) > FloorTo(now, Minute) - W
      BY <1>1, <2>1, CoveredFacts DEF FactsOf
    <3> QED  BY <3>1 DEF Parts
  <2>4. \A b \in K : Part(G, minute, b) = Matching(FactsAt(m, b), f)
    BY <2>1 DEF Part, Matching, FactsAt, FactsOf
  <2>5. \A b \in K : /\ counts[b] = Cardinality(Part(G, minute, b))
                     /\ sums[b] = Total(Part(G, minute, b))
    BY <1>1, <2>4 DEF CoveredBuckets, BucketsInv, BucketKept, BucketHolds
  <2>6. SumFunctionOnSet(counts, K) = Cardinality(Parts(G, minute, K))
    BY ONLY <2>1, <2>2, <2>5, CountOfParts
  <2>7. SumFunctionOnSet(sums, K) = Total(Parts(G, minute, K))
    BY ONLY <2>1, <2>2, <2>5, TotalOfParts
  <2>8. MerchantCount(m, W, f) = SumFunctionOnSet(counts, K)
        /\ MerchantSum(m, W, f) = SumFunctionOnSet(sums, K)
    BY DEF MerchantCount, MerchantSum, SumFunction
  <2> QED  BY <2>3, <2>6, <2>7, <2>8 DEF Total, Amount
<1> QED  BY <1>1, MerchantTypeCorrect, BucketsKept, PTL
=============================================================================

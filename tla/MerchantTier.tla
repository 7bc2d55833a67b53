---------------------------- MODULE MerchantTier ----------------------------
(***************************************************************************)
(* The merchant tier of the feature store: MERCHANT_TXN_SEEN (the dedupe   *)
(* memory, 48 h) and MERCHANT_MINUTE (minute buckets, 7 days), the ingest  *)
(* procedure RecordMerchantTxn, TTL eviction, and GetMerchantFeatures as a *)
(* state function.  The dedupe memory is shorter than the buckets' life:   *)
(* a bucket outlives the record of what it has counted.                    *)
(***************************************************************************)
EXTENDS FeatureEvents, FiniteSetsExt

CONSTANTS
  Txns, Payloads,
  Minute,               \* ticks per minute
  SeenTTL, BucketTTL,   \* USING TTL of MERCHANT_TXN_SEEN and MERCHANT_MINUTE
  MaxAge,               \* bound: age of an event when the procedure executes
  MaxAhead,             \* bound: how far an event may be dated in the future
  MaxTime,              \* bound: the last tick
  MaxCalls              \* bound: calls of RecordMerchantTxn

ASSUME MerchantPayloadsAssumption == Payloads \subseteq PayloadType
ASSUME MerchantTicksAssumption ==
  /\ Minute \in Nat \ {0}
  /\ {SeenTTL, BucketTTL, MaxAge, MaxAhead, MaxTime, MaxCalls} \subseteq Nat

(* No event is evictable as it is inserted, and none revives an evicted     *)
(* bucket.                                                                  *)
ASSUME MerchantRetentionAssumption == MaxAge <= SeenTTL /\ MaxAge + Minute <= BucketTTL

ASSUME NoBucketAssumption == None \notin BucketOf(MerchantFilters)

VARIABLES
  seen,      \* MERCHANT_TXN_SEEN: <<merchant, txn>> -> CREATED_AT
  buckets,   \* MERCHANT_MINUTE:   <<merchant, minute start>> -> bucket
  now,       \* the clock
  calls,     \* calls of RecordMerchantTxn so far (bounds the run)
  ledger     \* history: every fact a call counted, never evicted

vars == <<seen, buckets, now, calls, ledger>>

Time    == 0 .. MaxTime
Minutes == {t \in Time : t % Minute = 0}
Keys    == Merchants \X Txns
Facts   == [key : Keys, at : Time, event : Payloads]

----------------------------------------------------------------------------
(* RecordMerchantTxn.  Definitions named Bug... are defective variants of   *)
(* the definition that follows them.                                        *)

(* Only the last minute is probed for a retry. *)
BugSeen(m, t) == seen[<<m, t>>] # None /\ FloorTo(now, Minute) <= seen[<<m, t>>]
Seen(m, t) == seen[<<m, t>>] # None

(* The expiry is stored in place of the event time; a retry refreshes it. *)
BugSeenExpiry(m, t, at, duplicate) ==
  IF duplicate THEN seen ELSE [seen EXCEPT ![<<m, t>>] = at + SeenTTL]
BugSeenRefreshed(m, t, at, duplicate) == [seen EXCEPT ![<<m, t>>] = at]

SeenAfter(m, t, at, duplicate) ==
  IF duplicate THEN seen ELSE [seen EXCEPT ![<<m, t>>] = at]

Record(m, t, at, e) ==
  LET duplicate == Seen(m, t)
      b         == FloorTo(at, Minute)
  IN  /\ seen' = SeenAfter(m, t, at, duplicate)
      /\ buckets' = [buckets EXCEPT ![<<m, b>>] = Accumulated(@, MerchantFilters, e, duplicate)]
      /\ ledger' = IF duplicate THEN ledger
                   ELSE ledger \cup {[key |-> <<m, t>>, at |-> at, event |-> e]}

RecordMerchantTxn(m, t, at, e) ==
  /\ calls < MaxCalls
  /\ now - MaxAge <= at /\ at <= now + MaxAhead
  /\ Record(m, t, at, e)
  /\ calls' = calls + 1
  /\ UNCHANGED now

----------------------------------------------------------------------------
(* TTL eviction and the clock *)

EvictSeen(m, t) ==
  /\ seen[<<m, t>>] # None
  /\ now - seen[<<m, t>>] > SeenTTL
  /\ seen' = [seen EXCEPT ![<<m, t>>] = None]
  /\ UNCHANGED <<buckets, now, calls, ledger>>

BugBucketExpired(b) == now - b > SeenTTL   \* the bucket table given the other TTL
BucketExpired(b) == now - b > BucketTTL

EvictBucket(m, b) ==
  /\ buckets[<<m, b>>] # None
  /\ BucketExpired(b)
  /\ buckets' = [buckets EXCEPT ![<<m, b>>] = None]
  /\ UNCHANGED <<seen, now, calls, ledger>>

Tick ==
  /\ now < MaxTime
  /\ now' = now + 1
  /\ UNCHANGED <<seen, buckets, calls, ledger>>

Init ==
  /\ seen = [k \in Keys |-> None]
  /\ buckets = [k \in Merchants \X Minutes |-> None]
  /\ now = 0
  /\ calls = 0
  /\ ledger = {}

Next ==
  \/ \E m \in Merchants, t \in Txns, at \in Time, e \in Payloads :
       RecordMerchantTxn(m, t, at, e)
  \/ \E m \in Merchants, t \in Txns : EvictSeen(m, t)
  \/ \E m \in Merchants, b \in Minutes : EvictBucket(m, b)
  \/ Tick

Spec == Init /\ [][Next]_vars

----------------------------------------------------------------------------
(* GetMerchantFeatures: the read at this instant, W the window in ticks *)

CoveredBuckets(m, W) ==
  {b \in Minutes : buckets[<<m, b>>] # None /\ b > FloorTo(now, Minute) - W}

MerchantCount(m, W, f) ==
  SumFunction([b \in CoveredBuckets(m, W) |-> buckets[<<m, b>>].count[f]])
MerchantSum(m, W, f) ==
  SumFunction([b \in CoveredBuckets(m, W) |-> buckets[<<m, b>>].sum[f]])

----------------------------------------------------------------------------
(* Properties *)

TypeOK ==
  /\ seen \in [Keys -> Time \cup {None}]
  /\ buckets \in [Merchants \X Minutes -> BucketOf(MerchantFilters) \cup {None}]
  /\ now \in Time
  /\ calls \in 0 .. MaxCalls
  /\ ledger \subseteq Facts

FactsOf(m, f) == {x \in ledger : x.key[1] = m /\ Matches(f, x.event)}
Amount(F) == SumFunction([x \in F |-> x.event.amount])

(* The spans GetMerchantFeatures is documented for: up to the 7-day TTL.    *)
Windows == {m * Minute : m \in 1 .. MaxTime \div Minute}
MerchantWindows == {W \in Windows : W <= BucketTTL}

(* MERCHANT_TXN_SEEN holds the event time of the last fact of each key that *)
(* is inside its TTL: no retry inside 48 h of event time can be recounted.  *)
SeenRemembersLedger ==
  \A k \in Keys :
    LET facts == {x \in ledger : x.key = k}
        live  == {x \in facts : now - x.at <= SeenTTL}
    IN  IF seen[k] = None
        THEN live = {}
        ELSE \E x \in facts : seen[k] = x.at /\ live \subseteq {x}

(* Every stored minute bucket holds exactly the facts of its minute, also   *)
(* after the dedupe memory of those facts is gone.                          *)
BucketsExact ==
  \A m \in Merchants, s \in Minutes : buckets[<<m, s>>] # None =>
    LET b == buckets[<<m, s>>]
        F(f) == {x \in FactsOf(m, f) : FloorTo(x.at, Minute) = s}
        amounts == {x.event.amount : x \in F("txn")}
    IN  /\ \A f \in MerchantFilters : /\ b.count[f] = Cardinality(F(f))
                                      /\ b.sum[f] = Amount(F(f))
        /\ b.min = IF amounts = {} THEN None ELSE Min(amounts)
        /\ b.max = IF amounts = {} THEN None ELSE Max(amounts)

(* GetMerchantFeatures is minute-exact at any span within the 7-day TTL: it *)
(* counts the facts whose minute starts after the floored cutoff.           *)
MinuteExactReads ==
  \A m \in Merchants, W \in MerchantWindows, f \in MerchantFilters :
    LET F == {x \in FactsOf(m, f) : FloorTo(x.at, Minute) > FloorTo(now, Minute) - W}
    IN  MerchantCount(m, W, f) = Cardinality(F) /\ MerchantSum(m, W, f) = Amount(F)

(* The dedupe promise, per merchant, with the 48 h TTL as its retention.    *)
Dedup == INSTANCE DedupLedger
  WITH clock <- now, Times <- Time, Events <- Payloads, Retention <- SeenTTL
ImplementsDedup == Dedup!Spec
=============================================================================

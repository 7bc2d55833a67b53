\* The merchant tier: two merchants that may see the same transaction, minutes
\* of two ticks, a dedupe memory of four ticks, buckets that live for seven.
CONSTANTS
  None = None
  Cities = {}
  Merchants = {m1, m2}
  Txns = {t1, t2}
  Payloads <- MCPayloads
  Minute = 2
  SeenTTL = 3
  BucketTTL = 6
  MaxAge = 2
  MaxAhead = 1
  MaxTime = 8
  MaxCalls = 3
SPECIFICATION Spec
SYMMETRY MCSymmetry
INVARIANTS
  TypeOK
  SeenRemembersLedger
  BucketsExact
  MinuteExactReads
PROPERTIES
  ImplementsDedup
CHECK_DEADLOCK FALSE

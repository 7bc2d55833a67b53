\* The ingest procedure: three calls on two transactions, so that a retry
\* meets other counted events before and after it; days of two ticks, TTLs of
\* two and three days, so that a transaction is counted, evicted, counted again.
CONSTANTS
  None = None
  Cities = {}
  Merchants = {}
  Customers = {c1}
  Txns = {t1, t2}
  Payloads <- MCPayloads
  Minute = 1
  Day = 2
  RawTTL = 4
  DailyTTL = 6
  HotTier = 2
  AvgScale = 10
  MaxAge = 2
  MaxAhead = 1
  MaxTime = 8
  MaxCalls = 3
  BucketLimit = 2
  RecentLimit = 1
  RetryLimit = 1
  StripDays = 3
  SuccessFrom = 2
SPECIFICATION Spec
SYMMETRY MCTxnSymmetry
INVARIANTS
  TypeOK
  RawRemembersLedger
  DailyExact
  ProfileExact
  PanelsAgree
PROPERTIES
  ImplementsDedup
CHECK_DEADLOCK FALSE

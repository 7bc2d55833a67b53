\* A window read between two minute boundaries.
CONSTANTS
  None = None
  Cities = {}
  Merchants = {}
  Customers = {c1}
  Txns = {t1, t2}
  Payloads <- MCPayloads
  Minute = 2
  Day = 4
  RawTTL = 8
  DailyTTL = 16
  HotTier = 8
  AvgScale = 10
  MaxAge = 4
  MaxAhead = 1
  MaxTime = 17
  MaxCalls = 2
  BucketLimit = 2
  RecentLimit = 1
  RetryLimit = 1
  StripDays = 3
  SuccessFrom = 2
SPECIFICATION Spec
INVARIANT ExactToTheSecond
CHECK_DEADLOCK FALSE

\* A retry that turns a failure into a success: do the tiers still agree?
CONSTANTS
  None = None
  Cities = {}
  Merchants = {}
  Customers = {c1}
  Txns = {t1, t2}
  Payloads <- MCPayloads
  Minute = 1
  Day = 2
  RawTTL = 4
  DailyTTL = 6
  HotTier = 4
  AvgScale = 10
  MaxAge = 2
  MaxAhead = 1
  MaxTime = 8
  MaxCalls = 3
  BucketLimit = 2
  RecentLimit = 1
  RetryLimit = 1
  StripDays = 3
  SuccessFrom = 2
SPECIFICATION Spec
INVARIANT SuccessTiersAgree
CHECK_DEADLOCK FALSE

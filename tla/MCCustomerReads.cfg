\* The reads of the customer tier: days of two two-tick minutes, so that the
\* minute floor, the day floor and the clock differ; TTLs of two and four
\* days; two calls.
CONSTANTS
  None = None
  Cities = {}
  Merchants = {}
  Customers = {c1}
  Txns = {t1, t2}
  Payloads <- MCPayloads
  Minute = 2
  Day = 4
  RawTTL = 8
  DailyTTL = 16
  HotTier = 8
  AvgScale = 10
  MaxAge = 4
  MaxAhead = 1
  MaxTime = 17
  MaxCalls = 2
  BucketLimit = 2
  RecentLimit = 1
  RetryLimit = 1
  StripDays = 3
  SuccessFrom = 2
SPECIFICATION Spec
SYMMETRY MCTxnSymmetry
INVARIANTS
  ReadsExact
  WindowsNest
  AttemptsCovered
PROPERTIES
  OnlyTimeShrinksWindows
CHECK_DEADLOCK FALSE

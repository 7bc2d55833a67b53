\* A crash before the group has committed an offset: it restarts at LATEST.
CONSTANTS
  None = None
  c1 = c1
  t1 = t1
  t2 = t2
  m1 = m1
  m2 = m2
  Cities = {}
  Merchants = {m1, m2}
  Customers = {c1}
  Txns = {t1, t2}
  Payloads <- MCPayloads
  Messages <- MCMessages
  Minute = 1
  Day = 2
  AvgScale = 10
  HotTier = 4
  RawTTL = 4
  DailyTTL = 6
  SeenTTL = 4
  BucketTTL = 4
  LateBy = 2
  Lateness = 1
  MaxAge = 2
  MaxTime = 2
  MaxRecords = 2
  MaxCrashes = 1
SPECIFICATION FairSpec
PROPERTY MalformedAlwaysCounted
CHECK_DEADLOCK FALSE

\* Intervals of one and of two instants, a quick delay of one; one procedure and
\* one counter.  Deadlock is not checked: the clock and the troubles are bounded.
CONSTANTS
  None = None
  Procs = {RecordTxn}
  Ingest = RecordTxn
  Counters = {dropped_late}
  Polls = {1, 2}
  Quick = 1
  Slack = 0
  MaxSamples = 3
  MaxEvents = 3
  MaxTime = 5
  MaxLate = 1
  MaxCount = 2
  MaxTroubles = 2
CHECK_DEADLOCK FALSE
SPECIFICATION Spec
INVARIANTS
  TypeOK
  ChainAlive
  ProvidersNeverMix
  ChainsNeedReturns
  EventsAccountForCounters
  NegativeRateMeansVanished
  GreenIsEarned

\* Eight walks through the pages; two tokens, two requests in the air, one fault.
\* Deadlock is not checked: a walk ends, and tokens, events and scripts are bounded.
SPECIFICATION Spec
CONSTANTS
  None = None
  NoTail = NoTail
  Urls = {home, other, NoUrl}
  AllowedUrls = {other}
  NoUrl = NoUrl
  DefaultUrl = home
  EnvUrl = env
  DefaultMode = "live"
  MaxTokens = 2
  MaxEvents = 2
  MaxFaults = 1
  MaxMounts = 2
  MaxTasks = 2
  MaxHistory = 1
  Texts <- MCTexts
  LateTexts <- MCLateTexts
  Tours <- MCTours
  Customers = {"A", "B"}
  Merchants = {"M"}
  Invocations = {"GetRollingFeatures", "RecordTxn"}
  RunbookSteps = {"GetCounters"}
  SeedDays <- MCSeedDays
  TailDay = 1
  WatchWindow = 3
  Steps = {"reset", "seed", "sweep", "reactivate", "tailout", "evidence"}
  Readings = 1
  MaxScripts = 2
  Partitions = {p1, p2}
  TailSize = 1
  MaxTopic = 3
INVARIANTS
  TypeOK
  LiveTokensAccountedFor
  JudgedAlike
  TickIsEarned
  NoStaleAnswer
  OneChain
  TailComplete
PROPERTIES
  LiveUrlChangesAreAccepted
  ChangesWereLetThrough
CHECK_DEADLOCK FALSE

---------------------------- MODULE CustomerTier ----------------------------
(***************************************************************************)
(* The customer tier of the feature store: the tables TXN_RAW (hot tier),  *)
(* CUSTOMER_DAILY (warm tier) and CUSTOMER_PROFILE, the ingest procedure   *)
(* RecordTxn, the database's TTL eviction of both tiers, and the read      *)
(* GetRollingFeatures as state functions.                                  *)
(*                                                                         *)
(* A VoltDB procedure is one serializable transaction: one action.  TTL    *)
(* eviction runs in the background: a row may go at any moment after its   *)
(* age exceeds the TTL, or stay.  Event times are chosen by the caller, as *)
(* late as MaxAge behind the clock and as early as MaxAhead before it.     *)
(***************************************************************************)
EXTENDS FeatureEvents, FiniteSetsExt

CONSTANTS
  Customers, Txns,    \* the subject keys and the transaction ids
  Payloads,           \* the payloads events carry
  Minute, Day,        \* ticks per minute and per day
  RawTTL, DailyTTL,   \* USING TTL of TXN_RAW and CUSTOMER_DAILY
  HotTier,            \* HOT_TIER_MINUTES: the longest window read from raw
  AvgScale,           \* 10^4: AVG_TICKET is rounded to 4 decimals
  MaxAge,             \* bound: age of an event when RecordTxn executes
  MaxAhead,           \* bound: how far an event may be dated in the future
  MaxTime,            \* bound: the last tick
  MaxCalls            \* bound: calls of RecordTxn

ASSUME PayloadsAssumption == Payloads \subseteq PayloadType
ASSUME TicksAssumption ==
  /\ {Minute, Day, AvgScale} \subseteq Nat \ {0}
  /\ {RawTTL, DailyTTL, HotTier, MaxAge, MaxAhead, MaxTime, MaxCalls} \subseteq Nat
  /\ Day % Minute = 0

(* The lateness bound and the time a call is in flight fit well inside the  *)
(* retention: no event is evictable as it is inserted (RAW), none revives   *)
(* an evicted day (DAILY), and the 24 h sum finds all its rows.             *)
ASSUME RetentionAssumption == MaxAge + Day <= RawTTL /\ RawTTL + Day <= DailyTTL

(* HOT_TIER_MINUTES is a number of whole days.                              *)
ASSUME HotTierAssumption == HotTier % Day = 0

VARIABLES
  raw,       \* TXN_RAW:          <<customer, txn>> -> row
  daily,     \* CUSTOMER_DAILY:   <<customer, day start>> -> bucket
  profile,   \* CUSTOMER_PROFILE: customer -> row
  now,       \* the clock
  calls,     \* calls of RecordTxn so far (bounds the run)
  ledger     \* history: every fact a call counted (the events of the calls
             \* that were no duplicates), never evicted

tables == <<raw, daily, profile>>
vars   == <<raw, daily, profile, now, calls, ledger>>

Time == 0 .. MaxTime
Days == {t \in Time : t % Day = 0}
Keys == Customers \X Txns

RawRow ==
  [at : Time, event : PayloadType, attempts : Nat, lastAttemptAt : Time]
Facts == [key : Keys, at : Time, event : Payloads]

ProfileRow ==
  [ firstSeen : Time, lastTxnAt : Time, lastCity : Cities \cup {None},
    lifeCount : Nat, lifeSum : Nat, count24 : Nat, sum24 : Nat, avg : Nat \cup {None} ]

ASSUME NoRowAssumption ==
  None \notin RawRow /\ None \notin BucketOf(CustomerFilters) /\ None \notin ProfileRow

----------------------------------------------------------------------------
(* RecordTxn *)

(* Definitions named Bug... are defective variants of the definition that   *)
(* follows them: PROJECT.json pairs each with the property that refutes it. *)

(* 24 h sum queried before the raw row is in place. *)
BugRows24h(R, c, at) ==
  {t \in Txns : raw[<<c, t>>] # None /\ raw[<<c, t>>].event.kind = "TXN" /\ raw[<<c, t>>].at > at - Day}

(* The 24 h inputs of the derived attribute, over the raw rows R: event     *)
(* time, and no upper bound on CREATED_AT.                                  *)
Rows24h(R, c, at) ==
  {t \in Txns : /\ R[<<c, t>>] # None
                /\ R[<<c, t>>].event.kind = "TXN"
                /\ R[<<c, t>>].at > at - Day}

(* sum / count at scale 4, RoundingMode.HALF_UP; NULL when there is no row. *)
AvgTicket(sum, count) ==
  IF count = 0 THEN None ELSE (2 * sum * AvgScale + count) \div (2 * count)

(* LAST_ATTEMPT_AT, a nullable column, left out of the insert.              *)
BugInserted(at, e) == [at |-> at, event |-> e, attempts |-> 1, lastAttemptAt |-> None]

Inserted(at, e) == [at |-> at, event |-> e, attempts |-> 1, lastAttemptAt |-> at]

(* The retry's UPDATE, as an upsert that also moves CREATED_AT; and as it   *)
(* is, with only the result rewritten.                                      *)
BugRetriedUpsert(row, at, e) ==
  [at |-> at, event |-> e, attempts |-> row.attempts + 1, lastAttemptAt |-> at]
Retried(row, at, e) ==
  [at |-> row.at, event |-> [row.event EXCEPT !.result = e.result],
   attempts |-> row.attempts + 1, lastAttemptAt |-> at]

RawAfter(c, t, at, e, duplicate) ==
  [raw EXCEPT ![<<c, t>>] =
     IF duplicate THEN Retried(raw[<<c, t>>], at, e) ELSE Inserted(at, e)]

(* R: the raw rows after the call's insert or update.                       *)
ProfileAfter(c, R, at, e, duplicate) ==
  LET old    == profile[c]
      adds   == ~duplicate /\ Matches("txn", e)
      rows   == Rows24h(R, c, at)
      sum24  == SumFunction([t \in rows |-> R[<<c, t>>].event.amount])
  IN  [ firstSeen |-> IF old = None THEN at ELSE old.firstSeen,
        lastTxnAt |-> at,
        lastCity  |-> e.city,
        lifeCount |-> (IF old = None THEN 0 ELSE old.lifeCount) + (IF adds THEN 1 ELSE 0),
        lifeSum   |-> (IF old = None THEN 0 ELSE old.lifeSum) + (IF adds THEN e.amount ELSE 0),
        count24   |-> Cardinality(rows),
        sum24     |-> sum24,
        avg       |-> AvgTicket(sum24, Cardinality(rows)) ]

(* A row that has a success already is the only one taken for a retry. *)
BugIsDuplicate(c, t) == raw[<<c, t>>] # None /\ raw[<<c, t>>].event.result = "SUCCESS"

IsDuplicate(c, t) == raw[<<c, t>>] # None

(* One call of the procedure.  A duplicate updates the row it finds, counts *)
(* an attempt in its own day, and refreshes the profile; it adds nothing.   *)
Record(c, t, at, e) ==
  LET duplicate == IsDuplicate(c, t)
      d         == FloorTo(at, Day)
  IN  /\ raw' = RawAfter(c, t, at, e, duplicate)
      /\ daily' = [daily EXCEPT ![<<c, d>>] = Accumulated(@, CustomerFilters, e, duplicate)]
      /\ profile' = [profile EXCEPT ![c] = ProfileAfter(c, raw', at, e, duplicate)]
      /\ ledger' = IF duplicate THEN ledger
                   ELSE ledger \cup {[key |-> <<c, t>>, at |-> at, event |-> e]}

RecordTxn(c, t, at, e) ==
  /\ calls < MaxCalls
  /\ now - MaxAge <= at /\ at <= now + MaxAhead
  /\ Record(c, t, at, e)
  /\ calls' = calls + 1
  /\ UNCHANGED now

----------------------------------------------------------------------------
(* TTL eviction and the clock *)

(* TTL ON COLUMN LAST_ATTEMPT_AT; and a TTL one day short. *)
BugRawExpiredByAttempt(c, t) == now - raw[<<c, t>>].lastAttemptAt > RawTTL
BugRawExpiredEarly(c, t) == now - raw[<<c, t>>].at > RawTTL - Day

RawExpired(c, t) == now - raw[<<c, t>>].at > RawTTL

EvictRaw(c, t) ==
  /\ raw[<<c, t>>] # None
  /\ RawExpired(c, t)
  /\ raw' = [raw EXCEPT ![<<c, t>>] = None]
  /\ UNCHANGED <<daily, profile, now, calls, ledger>>

EvictDaily(c, d) ==
  /\ daily[<<c, d>>] # None
  /\ now - d > DailyTTL
  /\ daily' = [daily EXCEPT ![<<c, d>>] = None]
  /\ UNCHANGED <<raw, profile, now, calls, ledger>>

Tick ==
  /\ now < MaxTime
  /\ now' = now + 1
  /\ UNCHANGED <<raw, daily, profile, calls, ledger>>

Init ==
  /\ raw = [k \in Keys |-> None]
  /\ daily = [k \in Customers \X Days |-> None]
  /\ profile = [c \in Customers |-> None]
  /\ now = 0
  /\ calls = 0
  /\ ledger = {}

Next ==
  \/ \E c \in Customers, t \in Txns, at \in Time, e \in Payloads : RecordTxn(c, t, at, e)
  \/ \E c \in Customers, t \in Txns : EvictRaw(c, t)
  \/ \E c \in Customers, d \in Days : EvictDaily(c, d)
  \/ Tick

Spec == Init /\ [][Next]_vars

----------------------------------------------------------------------------
(* GetRollingFeatures: the read at this instant, W the window in ticks *)

MinuteCutoff(W) == FloorTo(now, Minute) - W
BugDayCutoff(W) == FloorTo(now, Day) + Day - W   \* counts from the end of today
DayCutoff(W)    == FloorTo(now, Day) - W

HotRows(c, W) ==
  {t \in Txns : raw[<<c, t>>] # None /\ raw[<<c, t>>].at > MinuteCutoff(W)}
HotMatches(c, W, f) == {t \in HotRows(c, W) : Matches(f, raw[<<c, t>>].event)}
WarmDays(c, W) ==
  {d \in Days : daily[<<c, d>>] # None /\ d > DayCutoff(W)}

(* COUNT and SUM of a filter over a window, from the tier that serves it. *)
RollingCount(c, W, f) ==
  IF W <= HotTier
  THEN Cardinality(HotMatches(c, W, f))
  ELSE SumFunction([d \in WarmDays(c, W) |-> daily[<<c, d>>].count[f]])
RollingSum(c, W, f) ==
  IF W <= HotTier
  THEN SumFunction([t \in HotMatches(c, W, f) |-> raw[<<c, t>>].event.amount])
  ELSE SumFunction([d \in WarmDays(c, W) |-> daily[<<c, d>>].sum[f]])

----------------------------------------------------------------------------
(* Properties *)

(* The columns of a profile row, save the 24 h sum and its quotient, which  *)
(* ProfileExact fixes.                                                      *)
ProfileOK ==
  /\ DOMAIN profile = Customers
  /\ \A c \in Customers : profile[c] # None =>
       /\ {profile[c].firstSeen, profile[c].lastTxnAt} \subseteq Time
       /\ profile[c].lastCity \in Cities \cup {None}
       /\ {profile[c].lifeCount, profile[c].lifeSum} \subseteq Nat

TypeOK ==
  /\ raw \in [Keys -> RawRow \cup {None}]
  /\ daily \in [Customers \X Days -> BucketOf(CustomerFilters) \cup {None}]
  /\ ProfileOK
  /\ now \in Time
  /\ calls \in 0 .. MaxCalls
  /\ ledger \subseteq Facts

(* The facts of a customer that match a filter, and their total amount.     *)
FactsOf(c, f) == {x \in ledger : x.key[1] = c /\ Matches(f, x.event)}
Amount(F) == SumFunction([x \in F |-> x.event.amount])

(* The windows a read may be asked for.  A hot window may reach back to one *)
(* minute less than the TTL of the raw rows (the cutoff is floored to the   *)
(* minute), a warm one to one day less than the TTL of the daily buckets.   *)
Windows == {m * Minute : m \in 1 .. MaxTime \div Minute}
ReadableWindows ==
  {W \in Windows : IF W <= HotTier THEN W + Minute <= RawTTL ELSE W + Day <= DailyTTL}

(* SUCCESS is left out where both tiers are compared: a retry rewrites the  *)
(* result in the raw row alone (see SuccessTiersAgree).                     *)
StableFilters == CustomerFilters \ {"success"}

(* The raw table is the ledger's memory: a row is the last fact of its key, *)
(* earlier facts of the key are beyond the TTL, and where there is no row   *)
(* all of them are.  This is what makes RecordTxn's primary-key probe a     *)
(* dedupe although the background TTL deletes the rows it probes.           *)
RawRemembersLedger ==
  \A k \in Keys :
    LET facts == {x \in ledger : x.key = k}
        live  == {x \in facts : now - x.at <= RawTTL}
    IN  IF raw[k] = None
        THEN live = {}
        ELSE \E x \in facts : /\ raw[k].at = x.at
                              /\ raw[k].event.amount = x.event.amount
                              /\ live \subseteq {x}

(* Every stored daily bucket holds exactly the facts of its day, whatever   *)
(* retries, late events and evictions came between: counts, sums, MIN, MAX. *)
DailyExact ==
  \A c \in Customers, d \in Days : daily[<<c, d>>] # None =>
    LET b == daily[<<c, d>>]
        F(f) == {x \in FactsOf(c, f) : FloorTo(x.at, Day) = d}
        amounts == {x.event.amount : x \in F("txn")}
    IN  /\ \A f \in CustomerFilters : /\ b.count[f] = Cardinality(F(f))
                                     /\ b.sum[f] = Amount(F(f))
        /\ b.min = IF amounts = {} THEN None ELSE Min(amounts)
        /\ b.max = IF amounts = {} THEN None ELSE Max(amounts)

(* The profile after any history: lifetime totals over every fact, and the  *)
(* materialized 24 h inputs are those of the window that ends at            *)
(* LAST_TXN_AT, the fact just recorded included and no row of the window    *)
(* lost to the TTL; avg_ticket is their quotient to within half a unit.     *)
ProfileExact ==
  \A c \in Customers : profile[c] # None =>
    LET p == profile[c]
        F == FactsOf(c, "txn")
        F24 == {x \in F : x.at > p.lastTxnAt - Day}
    IN  /\ p.lifeCount = Cardinality(F) /\ p.lifeSum = Amount(F)
        /\ p.count24 = Cardinality(F24) /\ p.sum24 = Amount(F24)
        /\ p.count24 = 0 <=> p.avg = None
        /\ p.count24 # 0 =>
             LET error == p.avg * p.count24 - p.sum24 * AvgScale
             IN  2 * error <= p.count24 /\ 2 * error > -p.count24

(* A read answers for exactly the facts behind its tier's own cutoff: the   *)
(* TTL never takes a row or a bucket that a readable window still covers.   *)
ReadsExact ==
  \A c \in Customers, W \in ReadableWindows, f \in StableFilters :
    LET F == {x \in FactsOf(c, f) :
                IF W <= HotTier THEN x.at > MinuteCutoff(W)
                                ELSE FloorTo(x.at, Day) > DayCutoff(W)}
    IN  RollingCount(c, W, f) = Cardinality(F) /\ RollingSum(c, W, f) = Amount(F)

(* A wider window never counts less, across the boundary between the tiers  *)
(* too: the day-floored cutoff of the narrowest warm window still covers    *)
(* what the widest hot window covers.                                       *)
WindowsNest ==
  \A c \in Customers, f \in StableFilters, V \in Windows, W \in ReadableWindows :
    V <= W => RollingCount(c, V, f) <= RollingCount(c, W, f)

(* The attempts of the raw rows inside their TTL are all in stored daily    *)
(* buckets, a retry's attempt in the bucket of the retry's own day.         *)
AttemptsCovered ==
  \A c \in Customers :
    LET live == {t \in Txns : raw[<<c, t>>] # None /\ now - raw[<<c, t>>].at <= RawTTL}
        kept == {d \in Days : daily[<<c, d>>] # None}
    IN  SumFunction([t \in live |-> raw[<<c, t>>].attempts])
          <= SumFunction([d \in kept |-> daily[<<c, d>>].attempts])

(* A window only shrinks as time passes: neither a recorded event, late,    *)
(* future or duplicate, nor an eviction takes anything out of a read.       *)
OnlyTimeShrinksWindows ==
  [][ \A c \in Customers, W \in ReadableWindows, f \in StableFilters :
        RollingCount(c, W, f)' < RollingCount(c, W, f) => now' > now ]_vars

(* The dedupe promise, with the raw TTL as its retention.                   *)
Dedup == INSTANCE DedupLedger
  WITH clock <- now, Times <- Time, Events <- Payloads, Retention <- RawTTL
ImplementsDedup == Dedup!Spec

(* What the DDL says of SUCCESS_COUNT (ddl.sql:77): the TXN rows of the day *)
(* whose payment_result is SUCCESS.                                         *)
SuccessTiersAgree ==
  \A c \in Customers, d \in Days : daily[<<c, d>>] # None =>
    daily[<<c, d>>].count["success"] >=
      Cardinality({t \in Txns : /\ raw[<<c, t>>] # None
                                /\ FloorTo(raw[<<c, t>>].at, Day) = d
                                /\ Matches("success", raw[<<c, t>>].event)})

(* What the README says of the hot tier (README.md:145): exact to the       *)
(* second, here to the tick.                                                *)
ExactToTheSecond ==
  \A c \in Customers, W \in Windows : W <= HotTier =>
    RollingCount(c, W, "txn") = Cardinality({x \in FactsOf(c, "txn") : x.at > now - W})
=============================================================================

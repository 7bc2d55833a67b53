--------------------------- MODULE CustomerPanels ---------------------------
(***************************************************************************)
(* What the console's pages make of the customer tier's answers: the       *)
(* profile, the feature cards, the bar chart and the list of transactions  *)
(* of the Explorer, the bucket strip of the Decay Story, and the retries   *)
(* that the Ingest Hygiene page shows.  Each is a function of the state,   *)
(* for the answers of one instant and a browser with the server's clock.   *)
(***************************************************************************)
EXTENDS CustomerTier, Sequences

CONSTANTS
  BucketLimit,   \* LIMIT of GetDailyBuckets
  RecentLimit,   \* LIMIT of GetRecentTxns
  RetryLimit,    \* LIMIT of the eighth of the repository's queries
  StripDays,     \* days the strip shows before today
  SuccessFrom    \* the shortest window whose card counts successes

ASSUME PanelsAssumption ==
  /\ {BucketLimit, RecentLimit, RetryLimit} \subseteq Nat \ {0}
  /\ {StripDays, SuccessFrom} \subseteq Nat /\ BucketLimit <= StripDays

Today == FloorTo(now, Day)

----------------------------------------------------------------------------
(* The answers: tables of one row, as records                              *)

(* A SUM over no row is NULL.                                               *)
HotAggregate(c, W) ==
  LET sum(n) == IF HotRows(c, W) = {} THEN None ELSE n
  IN  [ RAW_EVENTS     |-> Cardinality(HotRows(c, W)),
        TXN_COUNT      |-> sum(RollingCount(c, W, "txn")),
        TXN_AMOUNT_SUM |-> sum(RollingSum(c, W, "txn")),
        SUCCESS_COUNT  |-> sum(RollingCount(c, W, "success")) ]

Distinct(c, W) ==
  LET events == {raw[<<c, t>>].event : t \in HotMatches(c, W, "txn")}
  IN  << [AMOUNT_DISTINCT |-> Cardinality({e.amount : e \in events})],
         [DISTINCT_MERCHANTS |-> Cardinality({e.merchant : e \in events} \ {None})] >>

WarmAggregate(c, W) ==
  [ DAYS           |-> Cardinality(WarmDays(c, W)),
    TXN_COUNT      |-> RollingCount(c, W, "txn"),
    ATTEMPT_COUNT  |-> SumFunction([d \in WarmDays(c, W) |-> daily[<<c, d>>].attempts]),
    TXN_AMOUNT_SUM |-> RollingSum(c, W, "txn") ]

RollingFeatures(c, W) ==
  IF W <= HotTier
  THEN << HotAggregate(c, W) >> \o Distinct(c, W) \o << profile[c] >>
  ELSE << WarmAggregate(c, W), profile[c] >>

Stored(c) == {d \in Days : daily[<<c, d>>] # None}

(* Defective: one row short.                                                *)
BugDailyBuckets(c) ==
  {d \in Stored(c) : Cardinality({e \in Stored(c) : e > d}) < BucketLimit - 1}
(* GetDailyBuckets: ORDER BY DAY_START DESC LIMIT.                          *)
DailyBuckets(c) ==
  {d \in Stored(c) : Cardinality({e \in Stored(c) : e > d}) < BucketLimit}

(* ORDER BY ... DESC LIMIT n: the answers there may be, as sets; ties are    *)
(* broken either way.                                                       *)
Firsts(rows, n, rank) ==
  {S \in SUBSET rows :
     /\ Cardinality(S) = Min({n, Cardinality(rows)})
     /\ \A k \in S, l \in rows \ S : rank[l] <= rank[k]}

(* GetRecentTxns, newest first.                                             *)
RecentTxns(c) ==
  LET rows == {t \in Txns : raw[<<c, t>>] # None}
  IN  Firsts(rows, RecentLimit, [t \in rows |-> raw[<<c, t>>].at])

(* The eighth query: rows of any customer with more than one attempt, those *)
(* with the most first.                                                     *)
Retries ==
  LET rows == {k \in Keys : raw[k] # None /\ raw[k].attempts > 1}
  IN  Firsts(rows, RetryLimit, [k \in rows |-> raw[k].attempts])

----------------------------------------------------------------------------
(* The panels *)

(* GetProfile, a column to a cell, of a customer that has a profile.        *)
ProfileStrip(c) ==
  [ LAST_TXN_AT   |-> profile[c].lastTxnAt,
    LIFETIME_TXNS |-> profile[c].lifeCount,
    LIFETIME_SUM  |-> profile[c].lifeSum,
    COUNT_24H     |-> profile[c].count24,
    AVG_TICKET    |-> profile[c].avg ]

(* Of the columns of the list of transactions those that the evidence has   *)
(* too, for the rows with the badge "retry deduplicated"; the evidence has  *)
(* the badge on all of its rows.                                            *)
RetryRow(k) ==
  [TXN_ID |-> k[2], AMOUNT |-> raw[k].event.amount, RESULT |-> raw[k].event.result,
   ATTEMPT_COUNT |-> raw[k].attempts]
BadgedRows(c, listed) == {RetryRow(<<c, t>>) : t \in {u \in listed : raw[<<c, u>>].attempts > 1}}
RetryEvidence(c, shown) == {RetryRow(k) : k \in {l \in shown : l[1] = c}}

(* The page's own idea of the tier that serves a window.                    *)
WindowTier(W) == IF W <= HotTier THEN "hot" ELSE "warm"

(* A column the table does not have makes no line.                          *)
MetricLines(table, names) == {<<n, table[n]>> : n \in names \cap DOMAIN table}

(* Of the two distinct counts only the first is shown.                      *)
Card(c, W) ==
  LET answer == RollingFeatures(c, W)
  IN  IF WindowTier(W) = "hot"
      THEN MetricLines(answer[1],
             {"RAW_EVENTS", "TXN_COUNT", "TXN_AMOUNT_SUM"}
               \cup (IF W >= SuccessFrom THEN {"SUCCESS_COUNT"} ELSE {}))
           \cup (IF Len(answer) = 4 THEN MetricLines(answer[2], {"AMOUNT_DISTINCT"}) ELSE {})
      ELSE MetricLines(answer[1], {"DAYS", "TXN_COUNT", "ATTEMPT_COUNT", "TXN_AMOUNT_SUM"})

(* The card of a window the visitor types.                                  *)
CustomCard(c, W) ==
  MetricLines(RollingFeatures(c, W)[1],
    IF WindowTier(W) = "hot" THEN {"RAW_EVENTS", "TXN_COUNT", "TXN_AMOUNT_SUM", "SUCCESS_COUNT"}
    ELSE {"DAYS", "TXN_COUNT", "ATTEMPT_COUNT", "TXN_AMOUNT_SUM"})

(* The strip: a cell for each of the last days; it is filled when its       *)
(* bucket is among the rows, bright when the day is inside the window.      *)
Cells == {d \in Days : d <= Today /\ d >= Today - StripDays * Day}
Bright(c, W) == {d \in Cells \cap DailyBuckets(c) : d > Today - W}

(* The chart highlights its last bar.                                       *)
Highlighted(c) == IF Stored(c) = {} THEN None ELSE Max(DailyBuckets(c))

----------------------------------------------------------------------------
(* Properties *)

DatedAhead(c) == \E d \in Stored(c) : d > Today

(* Profile, cards, list and retries agree.  The list begins with the events *)
(* that a hot card counts; a badge in it is among the retries, or those are *)
(* as many as fit with no fewer attempts; the lifetime covers what is       *)
(* listed.  The profile's 24 hours end at its last event: the card of a day *)
(* never counts more, and the same when that event is of this very minute.  *)
ProfileAgrees ==
  \A c \in Customers : \A listed \in RecentTxns(c) :
    LET p == ProfileStrip(c)
        minute == FloorTo(now, Minute)
        today == RollingCount(c, Day, "txn")
        txns == {t \in listed : Matches("txn", raw[<<c, t>>].event)}
    IN  /\ \A W \in Windows : WindowTier(W) = "hot" =>
             Cardinality(listed \cap HotRows(c, W)) =
               Min({RecentLimit, RollingFeatures(c, W)[1].RAW_EVENTS})
        /\ \A row \in BadgedRows(c, listed), shown \in Retries :
             \/ row \in RetryEvidence(c, shown)
             \/ /\ Cardinality(shown) = RetryLimit
                /\ \A k \in shown : raw[k].attempts >= row.ATTEMPT_COUNT
        /\ listed # {} =>
             /\ profile[c] # None /\ p.LIFETIME_TXNS >= Cardinality(txns)
             /\ p.LIFETIME_SUM >= SumFunction([t \in txns |-> raw[<<c, t>>].event.amount])
        /\ profile[c] # None /\ p.LAST_TXN_AT <= minute /\ Day <= HotTier =>
             /\ today <= p.COUNT_24H
             /\ p.LAST_TXN_AT = minute => today = p.COUNT_24H
             /\ today > 0 => p.AVG_TICKET # None

(* The panels tell one story.  A card has every line of the tier that       *)
(* answered, at the boundary window too, and the custom one agrees with it. *)
(* Unless a bucket is dated ahead of today, the bright cells of a warm      *)
(* window are as many as the days on its card and add up to its sum, for    *)
(* every window of the rows' limit, and the highlighted bar is today's when *)
(* there is one.  A bucket dated ahead takes a row from the limit: then a   *)
(* cell may be missing, never too many.                                     *)
PanelsAgree ==
  /\ ProfileAgrees
  /\ \A c \in Customers :
       /\ \A W \in Windows :
            LET extra == IF WindowTier(W) = "hot" /\ W >= SuccessFrom THEN 1 ELSE 0
            IN  /\ Cardinality({line[1] : line \in Card(c, W)}) = 4 + extra
                /\ W >= SuccessFrom => CustomCard(c, W) \subseteq Card(c, W)
       /\ \A W \in {n * Day : n \in 1 .. BucketLimit} : Bright(c, W) \subseteq WarmDays(c, W)
       /\ ~DatedAhead(c) =>
            /\ \A W \in {n * Day : n \in 1 .. BucketLimit} : W > HotTier =>
                 {<<"DAYS", Cardinality(Bright(c, W))>>,
                  <<"TXN_AMOUNT_SUM", SumFunction([d \in Bright(c, W) |->
                                                     daily[<<c, d>>].sum["txn"]])>>} \subseteq Card(c, W)
            /\ Today \in Stored(c) => Highlighted(c) = Today
=============================================================================

--------------------------- MODULE IngestPipeline ---------------------------
(***************************************************************************)
(* TxnFeaturePipeline between its Kafka topic and the two tiers: the       *)
(* handler that classifies an event and emits asynchronous procedure       *)
(* calls, their execution in any order, the dead-letter topic, the         *)
(* COUNTERS table, offset commits, crashes and redelivery.                 *)
(*                                                                         *)
(* The Kafka source and the procedure sink are the streaming runtime's,    *)
(* not this repository's, and are modelled from how TxnFeaturePipeline     *)
(* configures them: a consumer group that starts at LATEST when it has no  *)
(* committed offset, commits an offset once the calls before it are        *)
(* acknowledged, and resumes at the committed offset (at least once).      *)
(*                                                                         *)
(* The horizon is short of every TTL, so eviction, which CustomerTier and  *)
(* MerchantTier model, does not occur here.                                *)
(***************************************************************************)
EXTENDS FeatureEvents, FiniteSetsExt, Sequences

CONSTANTS
  Customers, Txns, Payloads,      \* of the tiers
  Minute, Day, AvgScale, HotTier,
  RawTTL, DailyTTL, SeenTTL, BucketTTL,
  Messages,      \* [cust, txn, event, form]: what a producer may send
  LateBy,        \* how late the producers' late events are
  Lateness,      \* ingest.latenessSeconds
  MaxAge,        \* bound: age of an event when its calls have executed
  MaxTime,       \* bound: the last tick
  MaxRecords,    \* bound: records on the topic
  MaxCrashes     \* bound: crashes of the pipeline

(* The reasons a handler rejects an event for; a message's form is the one  *)
(* its text earns it, or "ok".                                              *)
Malformed ==
  {"dlq_unparseable_json", "dlq_missing_subject_key", "dlq_unparseable_created_at"}
Reasons == Malformed \cup {"dropped_late"}

MessageType ==
  [cust : Customers, txn : Txns, event : Payloads, form : Malformed \cup {"ok"}]
ASSUME MessagesAssumption == Messages \subseteq MessageType /\ Payloads \subseteq PayloadType
ASSUME PipelineBoundsAssumption ==
  /\ {LateBy, Lateness, MaxAge, MaxTime, MaxRecords, MaxCrashes} \subseteq Nat
  /\ Lateness <= MaxAge /\ None \notin Reasons
  /\ {RawTTL, DailyTTL, SeenTTL, BucketTTL} \subseteq {n \in Nat : MaxTime <= n}

VARIABLES
  raw, daily, profile, customerLedger,   \* the customer tier
  seen, buckets, merchantLedger,         \* the merchant tier
  now,
  topic,       \* the records of the source topic, in order
  committed,   \* the group's committed offset (the next to read), or None
  origin,      \* where LATEST put the group when it last had none
  position,    \* the next offset the running consumer handles
  up,          \* the pipeline process runs
  inflight,    \* calls emitted and not yet executed
  counters,    \* COUNTERS
  dlq,         \* offsets on the dead-letter topic
  crashes      \* crashes so far (bounds the run, tells the runs' calls apart)

customerVars == <<raw, daily, profile, customerLedger>>
merchantVars == <<seen, buckets, merchantLedger>>
consumerVars == <<committed, origin, position, up>>
vars == <<customerVars, merchantVars, consumerVars, now, topic, inflight, counters,
          dlq, crashes>>

C == INSTANCE CustomerTier
       WITH ledger <- customerLedger, calls <- 0, MaxCalls <- 0, MaxAhead <- 0
M == INSTANCE MerchantTier
       WITH ledger <- merchantLedger, calls <- 0, MaxCalls <- 0, MaxAhead <- 0

(* Units are positive, and no row is the value that stands for an absent    *)
(* one.                                                                     *)
ASSUME TiersAssumption ==
  /\ {Minute, Day, AvgScale} \subseteq Nat \ {0}
  /\ None \notin C!RawRow /\ None \notin C!ProfileRow
  /\ None \notin BucketOf(CustomerFilters) /\ None \notin BucketOf(MerchantFilters)

Offsets == 1 .. MaxRecords
CallType ==
  [proc : {"RecordTxn", "RecordMerchantTxn", "BumpCounter"}, offset : Offsets,
   run : 0 .. MaxCrashes, reason : Reasons \cup {None}]

----------------------------------------------------------------------------
(* Producers: the load generator and the console's produce button.  An      *)
(* event is dated now or LateBy earlier; a retry is a message with the same *)
(* txn and whatever else the generator draws.                               *)
Produce(msg, at) ==
  /\ Len(topic) < MaxRecords
  /\ at \in {now, now - LateBy} \cap Nat
  /\ topic' = Append(topic, [cust |-> msg.cust, txn |-> msg.txn, event |-> msg.event,
                             form |-> msg.form, at |-> at])
  /\ UNCHANGED <<customerVars, merchantVars, consumerVars, now, inflight, counters,
                 dlq, crashes>>

----------------------------------------------------------------------------
(* TxnFeaturePipeline.handle.  Definitions named Bug... are defective       *)
(* variants of the definition that follows them.                            *)

IsLate(r) == now - r.at > Lateness

Rejection(r) ==
  CASE r.form # "ok" -> r.form
    [] r.form = "ok" /\ IsLate(r) -> "dropped_late"
    [] OTHER -> None

Call(proc, o, reason) == [proc |-> proc, offset |-> o, run |-> crashes, reason |-> reason]

BugEmitted(o) ==   \* a late event is dead-lettered but not counted
  LET r == topic[o]
  IN  IF Rejection(r) = "dropped_late" THEN {}
      ELSE IF Rejection(r) # None THEN {Call("BumpCounter", o, Rejection(r))}
      ELSE {Call("RecordTxn", o, None)} \cup
           (IF r.event.merchant = None THEN {} ELSE {Call("RecordMerchantTxn", o, None)})

BugEmittedTogether(o) ==   \* an event without a merchant is given up
  LET r == topic[o]
  IN  IF Rejection(r) # None THEN {Call("BumpCounter", o, Rejection(r))}
      ELSE IF r.event.merchant = None THEN {}
      ELSE {Call("RecordTxn", o, None), Call("RecordMerchantTxn", o, None)}

(* The calls handle emits: BumpCounter for a rejected event, otherwise      *)
(* RecordTxn and, for an event with a merchant, RecordMerchantTxn.          *)
Emitted(o) ==
  LET r == topic[o]
  IN  IF Rejection(r) # None THEN {Call("BumpCounter", o, Rejection(r))}
      ELSE {Call("RecordTxn", o, None)} \cup
           (IF r.event.merchant = None THEN {} ELSE {Call("RecordMerchantTxn", o, None)})

(* A rejected event goes to the dead-letter topic unless that emit fails,   *)
(* which handle only logs.                                                  *)
Handle ==
  /\ up
  /\ position <= Len(topic)
  /\ inflight' = inflight \cup Emitted(position)
  /\ dlq' \in IF Rejection(topic[position]) = None THEN {dlq}
              ELSE {dlq, dlq \cup {position}}
  /\ position' = position + 1
  /\ UNCHANGED <<customerVars, merchantVars, committed, origin, up, now, topic, counters,
                 crashes>>

----------------------------------------------------------------------------
(* The database executes the calls, in any order, after a crash too *)

ExecuteRecordTxn(call) ==
  LET r == topic[call.offset]
  IN  /\ call.proc = "RecordTxn"
      /\ C!Record(r.cust, r.txn, r.at, r.event)
      /\ inflight' = inflight \ {call}
      /\ UNCHANGED <<merchantVars, consumerVars, now, topic, counters, dlq, crashes>>

ExecuteRecordMerchantTxn(call) ==
  LET r == topic[call.offset]
  IN  /\ call.proc = "RecordMerchantTxn"
      /\ M!Record(r.event.merchant, r.txn, r.at, r.event)
      /\ inflight' = inflight \ {call}
      /\ UNCHANGED <<customerVars, consumerVars, now, topic, counters, dlq, crashes>>

BugBumpCounter(call) ==   \* a call whose answer was lost is sent again
  /\ call.proc = "BumpCounter"
  /\ counters' = [counters EXCEPT ![call.reason] = @ + 1]
  /\ inflight' \in {inflight, inflight \ {call}}
  /\ UNCHANGED <<customerVars, merchantVars, consumerVars, now, topic, dlq, crashes>>

BumpCounter(call) ==
  /\ call.proc = "BumpCounter"
  /\ counters' = [counters EXCEPT ![call.reason] = @ + 1]
  /\ inflight' = inflight \ {call}
  /\ UNCHANGED <<customerVars, merchantVars, consumerVars, now, topic, dlq, crashes>>

Execute(call) ==
  ExecuteRecordTxn(call) \/ ExecuteRecordMerchantTxn(call) \/ BumpCounter(call)

----------------------------------------------------------------------------
(* The consumer group (external) *)

Acknowledged(o) ==
  \A call \in inflight : call.run = crashes => call.offset # o

Committed == IF committed = None THEN 0 ELSE committed

Commit(o) ==
  /\ up
  /\ Committed < o
  /\ \A p \in 1 .. o - 1 : Acknowledged(p)
  /\ committed' = o
  /\ UNCHANGED <<customerVars, merchantVars, origin, position, up, now, topic, inflight,
                 counters, dlq, crashes>>

(* Calls already on their way to the database survive the process.          *)
Crash(survivors) ==
  /\ up
  /\ crashes < MaxCrashes
  /\ up' = FALSE
  /\ crashes' = crashes + 1
  /\ inflight' = survivors
  /\ UNCHANGED <<customerVars, merchantVars, committed, origin, position, now, topic, counters,
                 dlq>>

ResumeAt == IF committed = None THEN Len(topic) + 1 ELSE committed

Restart ==
  /\ ~up
  /\ up' = TRUE
  /\ position' = ResumeAt
  /\ origin' = IF committed = None THEN ResumeAt ELSE origin
  /\ UNCHANGED <<customerVars, merchantVars, committed, now, topic, inflight, counters,
                 dlq, crashes>>

(* A call executes before its event is older than MaxAge.                   *)
Tick ==
  /\ now < MaxTime
  /\ \A call \in inflight : call.proc = "BumpCounter" \/ now - topic[call.offset].at < MaxAge
  /\ now' = now + 1
  /\ UNCHANGED <<customerVars, merchantVars, consumerVars, topic, inflight, counters,
                 dlq, crashes>>

----------------------------------------------------------------------------
Init ==
  /\ raw = [k \in C!Keys |-> None]
  /\ daily = [k \in Customers \X C!Days |-> None]
  /\ profile = [c \in Customers |-> None]
  /\ seen = [k \in M!Keys |-> None]
  /\ buckets = [k \in Merchants \X M!Minutes |-> None]
  /\ customerLedger = {} /\ merchantLedger = {}
  /\ now = 0
  /\ topic = <<>>
  /\ committed = None /\ origin = 1 /\ position = 1 /\ up = TRUE
  /\ inflight = {}
  /\ counters = [reason \in Reasons |-> 0]
  /\ dlq = {}
  /\ crashes = 0

Next ==
  \/ \E msg \in Messages, at \in 0 .. MaxTime : Produce(msg, at)
  \/ Handle
  \/ \E call \in inflight : Execute(call)
  \/ \E o \in 1 .. position : Commit(o)
  \/ \E survivors \in SUBSET inflight : Crash(survivors)
  \/ Restart
  \/ Tick

(* The runtime keeps polling, executing, committing and is restarted when   *)
(* it is down; nothing forces a producer, a crash or the clock.             *)
Fairness ==
  /\ WF_vars(Handle)
  /\ WF_vars(\E call \in inflight : Execute(call))
  /\ WF_vars(\E o \in 1 .. position : Commit(o))
  /\ WF_vars(Restart)

Spec == Init /\ [][Next]_vars
FairSpec == Spec /\ Fairness

----------------------------------------------------------------------------
(* What the console's pages read of this, at one instant *)

(* consumerLag: the high watermark less the committed offset, unknown       *)
(* without one.                                                             *)
Lag == IF committed = None THEN None ELSE Max({0, Len(topic) + 1 - committed})

----------------------------------------------------------------------------
(* Properties *)

(* What the record at an offset should have led to: a fact of its           *)
(* transaction in the customer tier and in the tier of its merchant.        *)
Recorded(o) ==
  LET r == topic[o]
      m == r.event.merchant
  IN  /\ \E x \in customerLedger : x.key = <<r.cust, r.txn>>
      /\ m = None \/ \E x \in merchantLedger : x.key = <<m, r.txn>>

Due(o) == IF topic[o].form # "ok" THEN topic[o].form
          ELSE IF Recorded(o) THEN None ELSE "dropped_late"

(* A lag says how much is still to do: all but that many of the records     *)
(* since the origin are accounted for, recorded in both tiers, or one of as *)
(* many bumps of their counter as records were rejected for that reason,    *)
(* whichever calls the crashes took with them and however often the records *)
(* were handled.                                                            *)
CommittedIsAccounted ==
  Lag # None =>
    \A reason \in Reasons :
      Cardinality({o \in origin .. Len(topic) - Lag : Due(o) = reason}) <= counters[reason]

(* COUNTERS is the classification the Ingest Hygiene page calls             *)
(* authoritative, although nothing makes its bump idempotent: a reason is   *)
(* counted at most once for each rejected record and start of the pipeline, *)
(* and while none has crashed no dead letter lacks its bump, executed or on *)
(* its way.                                                                 *)
RejectedFor(reason) == {o \in DOMAIN topic : Rejection(topic[o]) = reason}
Bumps(reason) == {call \in inflight : call.reason = reason}

CountersAreAuthoritative ==
  \A reason \in Reasons :
    /\ counters[reason] <= (1 + crashes) * Cardinality(RejectedFor(reason))
    /\ crashes = 0 => Cardinality(dlq \cap RejectedFor(reason)) <=
                        counters[reason] + Cardinality(Bumps(reason))

TxnsOf(keep(_)) ==
  {topic[o].txn : o \in {i \in DOMAIN topic : /\ topic[i].form = "ok"
                                              /\ keep(topic[i])}}

(* The customer tier counts a transaction once, whatever is retried,        *)
(* redelivered or still executing after a crash: a lifetime count never     *)
(* exceeds the distinct transactions on the topic, nor its daily buckets.   *)
CustomerNeverOvercounts ==
  \A c \in Customers : profile[c] # None =>
    LET counted == SumFunction([d \in {e \in C!Days : daily[<<c, e>>] # None} |->
                                 daily[<<c, d>>].count["txn"]])
    IN  /\ profile[c].lifeCount = counted
        /\ counted <= Cardinality(TxnsOf(LAMBDA r : r.cust = c /\ r.event.kind = "TXN"))

(* So does each merchant's tier for the transactions that name it.          *)
MerchantCounted(m) ==
  SumFunction([b \in {s \in M!Minutes : buckets[<<m, s>>] # None} |->
                 buckets[<<m, b>>].count["txn"]])
MerchantNeverOvercounts ==
  \A m \in Merchants :
    MerchantCounted(m) <=
      Cardinality(TxnsOf(LAMBDA r : r.event.merchant = m /\ r.event.kind = "TXN"))

(* Once the group has a committed offset, every record from its origin on   *)
(* is eventually recorded in both tiers, or rejected and counted.           *)
Accounted(o) ==
  /\ o \in DOMAIN topic
  /\ Due(o) # None => counters[Due(o)] > 0

NothingSilentlyDropped ==
  \A o \in Offsets :
    (committed # None /\ origin <= o /\ o \in DOMAIN topic) ~> Accounted(o)

(* README.md:48: unparseable, mis-keyed and late events are never silently  *)
(* dropped, here for the malformed ones the running pipeline has read: each *)
(* is eventually counted.                                                   *)
Read(o) == up /\ origin <= o /\ o < position

MalformedAlwaysCounted ==
  \A o \in Offsets :
    (o \in DOMAIN topic /\ Read(o) /\ topic[o].form \in Malformed) ~> Accounted(o)

(* README.md:60: retries never double-count.  Over all merchants, a         *)
(* transaction counts once.                                                 *)
RetriesNeverDoubleCount ==
  SumFunction([m \in Merchants |-> MerchantCounted(m)]) <=
    Cardinality(TxnsOf(LAMBDA r : r.event.kind = "TXN"))
=============================================================================

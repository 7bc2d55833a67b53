----------------------- MODULE IngestPipeline_proofs ------------------------
(***************************************************************************)
(* The ingest pipeline, for every set of messages and without any of the   *)
(* bounds of the runs: what a committed offset and a counter say.          *)
(*                                                                         *)
(* The argument follows one record through one run of the pipeline.  While *)
(* a call of the current run is in flight for it, the record is open and   *)
(* nothing is said of it.  Once no call is, it is settled: recorded in     *)
(* both tiers, or one of those that its counter has counted (SettledInv).  *)
(* The two calls of a record execute in any order, so that the last of     *)
(* them settles it needs that the other has left its fact (PairsInv), also *)
(* when it found the transaction recorded already (RowsInv).  What the     *)
(* committed offset has passed is settled (CommitInv), and stays so when a *)
(* crash moves the pipeline back.                                          *)
(*                                                                         *)
(* A counter is bounded by what may have bumped it: each start counts a    *)
(* record once, when it passes it, and sends the bump with the dead letter *)
(* (BumpsInv).                                                             *)
(***************************************************************************)
EXTENDS IngestPipeline, FeatureEvents_proofs, SequenceTheorems

Records == [cust : Customers, txn : Txns, event : Payloads, form : Malformed \cup {"ok"},
            at : Nat]

(* Why a record is rejected, when it is.                                    *)
Cause(o) == IF topic[o].form # "ok" THEN topic[o].form ELSE "dropped_late"

CallOK(call) ==
  /\ call.offset \in DOMAIN topic
  /\ call.run \in Nat /\ call.run <= crashes
  /\ call.run = crashes => up /\ call.offset < position
  /\ \/ call.proc = "BumpCounter" /\ call.reason = Cause(call.offset)
     \/ call.proc = "RecordTxn" /\ call.reason = None /\ topic[call.offset].form = "ok"
     \/ /\ call.proc = "RecordMerchantTxn" /\ call.reason = None
        /\ topic[call.offset].form = "ok" /\ topic[call.offset].event.merchant # None

QueueTypes ==
  /\ topic \in Seq(Records)
  /\ position \in Nat \ {0} /\ position <= Len(topic) + 1
  /\ origin \in Nat \ {0} /\ crashes \in Nat /\ up \in BOOLEAN
  /\ counters \in [Reasons -> Nat]
  /\ \A call \in inflight : CallOK(call)

CustomerFact(o) == \E x \in customerLedger : x.key = <<topic[o].cust, topic[o].txn>>
MerchantFact(o) ==
  \E x \in merchantLedger : x.key = <<topic[o].event.merchant, topic[o].txn>>

(* Where a tier finds a transaction, its ledger has a fact of it.           *)
RowsInv ==
  /\ DOMAIN raw = Customers \X Txns /\ DOMAIN seen = Merchants \X Txns
  /\ \A k \in Customers \X Txns : raw[k] # None => \E x \in customerLedger : x.key = k
  /\ \A k \in Merchants \X Txns : seen[k] # None => \E x \in merchantLedger : x.key = k

InFlight(proc, o) ==
  \E call \in inflight : call.proc = proc /\ call.run = crashes /\ call.offset = o
Open(o) == \E call \in inflight : call.run = crashes /\ call.offset = o

(* Of the two calls of a record, one that is no longer in flight has left   *)
(* its fact.                                                                *)
PairsInv ==
  \A o \in DOMAIN topic :
    /\ InFlight("RecordTxn", o) /\ topic[o].event.merchant # None =>
         InFlight("RecordMerchantTxn", o) \/ MerchantFact(o)
    /\ InFlight("RecordMerchantTxn", o) => InFlight("RecordTxn", o) \/ CustomerFact(o)

(* What the committed offset has passed is no longer open.                  *)
CommitInv ==
  committed # None =>
    /\ committed \in Nat \ {0} /\ committed <= position
    /\ \A p \in 1 .. committed - 1 : ~Open(p)

(* The offsets the pipeline has handled since it last chose an origin.      *)
Bound == IF up THEN position ELSE Committed
Settled(reason) == {o \in origin .. Bound - 1 : ~Open(o) /\ Due(o) = reason}
SettledInv == \A reason \in Reasons : Cardinality(Settled(reason)) <= counters[reason]

(* Of the records rejected for a reason, those the running pipeline has     *)
(* handled; a dead letter is one that was handled.                          *)
Handled(reason) == IF up THEN {o \in RejectedFor(reason) : o < position} ELSE {}
DeadFor(reason) == dlq \cap RejectedFor(reason)

BumpsInv ==
  /\ now \in Nat /\ IsFiniteSet(inflight)
  /\ \A o \in dlq : o \in DOMAIN topic /\ Rejection(topic[o]) # None
  /\ \A reason \in Reasons :
       /\ counters[reason] + Cardinality(Bumps(reason)) <=
            crashes * Cardinality(RejectedFor(reason)) + Cardinality(Handled(reason))
       /\ crashes = 0 => Cardinality(DeadFor(reason)) <=
                           counters[reason] + Cardinality(Bumps(reason))

PipelineInv ==
  QueueTypes /\ RowsInv /\ PairsInv /\ CommitInv /\ SettledInv /\ BumpsInv

----------------------------------------------------------------------------
(* What the parts of the step change *)

LEMMA BoundsInNat ==
  {LateBy, Lateness, MaxAge, MaxTime, MaxRecords, MaxCrashes} \subseteq Nat
  /\ None \notin Reasons
BY PipelineBoundsAssumption

LEMMA RecordFields ==
  ASSUME QueueTypes, NEW o \in DOMAIN topic
  PROVE  /\ topic[o] \in Records /\ o \in Nat \ {0} /\ o <= Len(topic)
         /\ topic[o].cust \in Customers /\ topic[o].txn \in Txns
         /\ topic[o].form \in Malformed \cup {"ok"}
         /\ topic[o].event.merchant \in Merchants \cup {None}
         /\ Cause(o) \in Reasons
<1>1. topic[o] \in Records /\ o \in 1 .. Len(topic) /\ Len(topic) \in Nat
  BY ElementOfSeq, LenProperties DEF QueueTypes
<1>2. topic[o].event \in PayloadType
  BY <1>1, MessagesAssumption DEF Records
<1>3. topic[o].event.merchant \in Merchants \cup {None}
  BY <1>2 DEF PayloadType
<1>4. topic[o].form \in Malformed \cup {"ok"}
  BY <1>1 DEF Records
<1>5. Cause(o) \in Reasons
  BY <1>4 DEF Cause, Reasons
<1> QED  BY <1>1, <1>3, <1>4, <1>5 DEF Records

(* A record that is sent is put behind the others.                          *)
LEMMA ProduceFacts ==
  ASSUME QueueTypes, NEW msg \in Messages, NEW at, Produce(msg, at)
  PROVE  /\ topic' \in Seq(Records) /\ Len(topic') = Len(topic) + 1
         /\ DOMAIN topic \subseteq DOMAIN topic'
         /\ \A o \in DOMAIN topic : topic'[o] = topic[o]
<1>1. PICK r : /\ r = [cust |-> msg.cust, txn |-> msg.txn, event |-> msg.event,
                       form |-> msg.form, at |-> at]
               /\ topic' = Append(topic, r) /\ at \in Nat
  BY DEF Produce
<1>2. r \in Records
  BY <1>1, MessagesAssumption DEF Records, MessageType
<1>3. topic \in Seq(Records)
  BY DEF QueueTypes
<1>4. /\ topic' \in Seq(Records) /\ Len(topic') = Len(topic) + 1
      /\ \A o \in 1 .. Len(topic) : topic'[o] = topic[o]
  BY <1>1, <1>2, <1>3, AppendProperties
<1> QED  BY <1>3, <1>4, LenProperties

(* What handle emits for the record at the position.                        *)
LEMMA EmittedFacts ==
  ASSUME QueueTypes, Handle
  PROVE  /\ position \in DOMAIN topic /\ Emitted(position) # {}
         /\ \A call \in Emitted(position) :
              /\ call.offset = position /\ call.run = crashes
              /\ \/ call.proc = "BumpCounter" /\ call.reason = Cause(position)
                 \/ /\ call.proc = "RecordTxn" /\ call.reason = None
                    /\ topic[position].form = "ok"
                 \/ /\ call.proc = "RecordMerchantTxn" /\ call.reason = None
                    /\ topic[position].form = "ok" /\ topic[position].event.merchant # None
         /\ Rejection(topic[position]) # None =>
              /\ Rejection(topic[position]) = Cause(position)
              /\ \E call \in Emitted(position) : call.reason = Cause(position)
         /\ (\E call \in Emitted(position) : call.proc = "RecordTxn")
            /\ topic[position].event.merchant # None
            => \E call \in Emitted(position) : call.proc = "RecordMerchantTxn"
         /\ (\E call \in Emitted(position) : call.proc = "RecordMerchantTxn")
            => \E call \in Emitted(position) : call.proc = "RecordTxn"
<1>1. position \in DOMAIN topic
  BY LenProperties DEF QueueTypes, Handle
<1>2. PICK r : r = topic[position]
  OBVIOUS
<1>3. r.form \in Malformed \cup {"ok"} /\ Cause(position) \in Reasons
  BY <1>1, <1>2, RecordFields
<1>4. CASE r.form # "ok"
  <2>1. Rejection(r) = r.form /\ Cause(position) = r.form /\ r.form # None
    BY <1>2, <1>3, <1>4, BoundsInNat DEF Rejection, Cause, Reasons
  <2>2. Emitted(position) = {Call("BumpCounter", position, r.form)}
    BY <1>2, <2>1 DEF Emitted
  <2> QED  BY <1>1, <1>2, <2>1, <2>2 DEF Call
<1>5. CASE r.form = "ok" /\ IsLate(r)
  <2>1. /\ Rejection(r) = "dropped_late" /\ Cause(position) = "dropped_late"
        /\ "dropped_late" # None
    BY <1>2, <1>5, BoundsInNat DEF Rejection, Cause, Reasons
  <2>2. Emitted(position) = {Call("BumpCounter", position, "dropped_late")}
    BY <1>2, <2>1 DEF Emitted
  <2> QED  BY <1>1, <1>2, <2>1, <2>2 DEF Call
<1>6. CASE r.form = "ok" /\ ~IsLate(r)
  <2>1. Rejection(r) = None
    BY <1>6 DEF Rejection
  <2>2. Emitted(position) = {Call("RecordTxn", position, None)} \cup
          (IF r.event.merchant = None THEN {} ELSE {Call("RecordMerchantTxn", position, None)})
    BY <1>2, <2>1 DEF Emitted
  <2>3. PICK a, b : /\ a = Call("RecordTxn", position, None)
                    /\ b = Call("RecordMerchantTxn", position, None)
    OBVIOUS
  <2>4. /\ a.proc = "RecordTxn" /\ a.offset = position /\ a.run = crashes /\ a.reason = None
        /\ b.proc = "RecordMerchantTxn" /\ b.offset = position /\ b.run = crashes
        /\ b.reason = None
    BY <2>3 DEF Call
  <2>5. Emitted(position) = {a} \cup (IF r.event.merchant = None THEN {} ELSE {b})
    BY <2>2, <2>3
  <2> QED  BY <1>1, <1>2, <1>6, <2>1, <2>4, <2>5
<1> QED  BY <1>4, <1>5, <1>6

(* A call of RecordTxn leaves a fact of its transaction, or finds one.      *)
LEMMA RecordTxnFacts ==
  ASSUME QueueTypes, RowsInv, NEW call \in inflight, ExecuteRecordTxn(call)
  PROVE  /\ RowsInv' /\ customerLedger \subseteq customerLedger' /\ CustomerFact(call.offset)'
         /\ UNCHANGED <<merchantVars, consumerVars, topic, counters, dlq, crashes>>
         /\ inflight' = inflight \ {call} /\ call.proc = "RecordTxn"
<1>1. PICK r, k : r = topic[call.offset] /\ k = <<r.cust, r.txn>>
  OBVIOUS
<1>2. call.offset \in DOMAIN topic
  BY DEF QueueTypes, CallOK
<1>3. k \in Customers \X Txns
  BY <1>1, <1>2, RecordFields
<1>4. /\ UNCHANGED <<merchantVars, consumerVars, topic, counters, dlq, crashes>>
      /\ inflight' = inflight \ {call} /\ call.proc = "RecordTxn"
      /\ C!Record(r.cust, r.txn, r.at, r.event)
  BY <1>1 DEF ExecuteRecordTxn
<1>5. PICK row, fact :
        /\ raw' = [raw EXCEPT ![k] = row] /\ fact.key = k
        /\ customerLedger' = IF raw[k] # None THEN customerLedger
                             ELSE customerLedger \cup {fact}
  <2>1. [key |-> k, at |-> r.at, event |-> r.event].key = k
    OBVIOUS
  <2> QED  BY <1>1, <1>4, <2>1 DEF C!Record, C!RawAfter, C!IsDuplicate
<1>6. customerLedger \subseteq customerLedger' /\ \E x \in customerLedger' : x.key = k
  BY <1>3, <1>5 DEF RowsInv
<1>7. RowsInv'
  <2>1. DOMAIN raw' = Customers \X Txns /\ \A q \in Customers \X Txns : q # k => raw'[q] = raw[q]
    BY <1>3, <1>5 DEF RowsInv
  <2>2. seen' = seen /\ merchantLedger' = merchantLedger
    BY <1>4 DEF merchantVars
  <2>3. \A q \in Customers \X Txns : raw'[q] # None => \E x \in customerLedger' : x.key = q
    BY <1>6, <2>1 DEF RowsInv
  <2> QED  BY <2>1, <2>2, <2>3 DEF RowsInv
<1>8. CustomerFact(call.offset)'
  BY <1>1, <1>4, <1>6 DEF CustomerFact
<1> QED  BY <1>4, <1>6, <1>7, <1>8

(* So does one of RecordMerchantTxn.                                        *)
LEMMA RecordMerchantTxnFacts ==
  ASSUME QueueTypes, RowsInv, NEW call \in inflight, ExecuteRecordMerchantTxn(call)
  PROVE  /\ RowsInv' /\ merchantLedger \subseteq merchantLedger' /\ MerchantFact(call.offset)'
         /\ UNCHANGED <<customerVars, consumerVars, topic, counters, dlq, crashes>>
         /\ inflight' = inflight \ {call} /\ call.proc = "RecordMerchantTxn"
<1>1. PICK r, k : r = topic[call.offset] /\ k = <<r.event.merchant, r.txn>>
  OBVIOUS
<1>2. call.offset \in DOMAIN topic /\ call.proc = "RecordMerchantTxn" /\ r.event.merchant # None
  BY <1>1 DEF QueueTypes, CallOK, ExecuteRecordMerchantTxn
<1>3. k \in Merchants \X Txns
  BY <1>1, <1>2, RecordFields
<1>4. /\ UNCHANGED <<customerVars, consumerVars, topic, counters, dlq, crashes>>
      /\ inflight' = inflight \ {call}
      /\ M!Record(r.event.merchant, r.txn, r.at, r.event)
  BY <1>1 DEF ExecuteRecordMerchantTxn
<1>5. PICK fact :
        /\ seen' = (IF seen[k] # None THEN seen ELSE [seen EXCEPT ![k] = r.at]) /\ fact.key = k
        /\ merchantLedger' = IF seen[k] # None THEN merchantLedger
                             ELSE merchantLedger \cup {fact}
  <2>1. [key |-> k, at |-> r.at, event |-> r.event].key = k
    OBVIOUS
  <2> QED  BY <1>1, <1>4, <2>1 DEF M!Record, M!SeenAfter, M!Seen
<1>6. merchantLedger \subseteq merchantLedger' /\ \E x \in merchantLedger' : x.key = k
  BY <1>3, <1>5 DEF RowsInv
<1>7. RowsInv'
  <2>1. DOMAIN seen' = Merchants \X Txns /\ \A q \in Merchants \X Txns : q # k => seen'[q] = seen[q]
    BY <1>3, <1>5 DEF RowsInv
  <2>2. raw' = raw /\ customerLedger' = customerLedger
    BY <1>4 DEF customerVars
  <2>3. \A q \in Merchants \X Txns : seen'[q] # None => \E x \in merchantLedger' : x.key = q
    BY <1>6, <2>1 DEF RowsInv
  <2> QED  BY <2>1, <2>2, <2>3 DEF RowsInv
<1>8. MerchantFact(call.offset)'
  BY <1>1, <1>4, <1>6 DEF MerchantFact
<1> QED  BY <1>2, <1>4, <1>6, <1>7, <1>8

LEMMA BumpFacts ==
  ASSUME QueueTypes, NEW call \in inflight, BumpCounter(call)
  PROVE  /\ UNCHANGED <<customerVars, merchantVars, consumerVars, topic, dlq, crashes>>
         /\ inflight' = inflight \ {call} /\ call.proc = "BumpCounter"
         /\ call.offset \in DOMAIN topic /\ call.reason = Cause(call.offset)
         /\ call.reason \in Reasons /\ counters' \in [Reasons -> Nat]
         /\ counters'[call.reason] = counters[call.reason] + 1
         /\ \A reason \in Reasons : counters'[reason] >= counters[reason]
<1>1. /\ call.offset \in DOMAIN topic /\ call.reason = Cause(call.offset)
      /\ call.proc = "BumpCounter"
  BY DEF QueueTypes, CallOK, BumpCounter
<1>2. call.reason \in Reasons
  BY <1>1, RecordFields
<1>3. counters \in [Reasons -> Nat] /\ counters' = [counters EXCEPT ![call.reason] = @ + 1]
  BY DEF QueueTypes, BumpCounter
<1> QED  BY <1>1, <1>2, <1>3 DEF BumpCounter

(* Whatever call executes, the ledgers and the counters only grow.          *)
LEMMA ExecuteFacts ==
  ASSUME QueueTypes, RowsInv, NEW call \in inflight, Execute(call)
  PROVE  /\ RowsInv' /\ UNCHANGED <<consumerVars, topic, dlq, crashes>>
         /\ inflight' = inflight \ {call}
         /\ customerLedger \subseteq customerLedger' /\ merchantLedger \subseteq merchantLedger'
         /\ counters' \in [Reasons -> Nat]
         /\ \A reason \in Reasons : counters'[reason] >= counters[reason]
<1>1. CASE ExecuteRecordTxn(call)
  BY <1>1, RecordTxnFacts DEF QueueTypes, merchantVars
<1>2. CASE ExecuteRecordMerchantTxn(call)
  BY <1>2, RecordMerchantTxnFacts DEF QueueTypes, customerVars
<1>3. CASE BumpCounter(call)
  BY <1>3, BumpFacts DEF RowsInv, customerVars, merchantVars
<1> QED  BY <1>1, <1>2, <1>3 DEF Execute

(* A step that neither executes a call nor is one of the others named here  *)
(* changes nothing but the clock.                                           *)
LEMMA OtherSteps ==
  ASSUME [Next]_vars
  PROVE  \/ \E msg \in Messages, at \in 0 .. MaxTime : Produce(msg, at)
         \/ Handle
         \/ \E call \in inflight : Execute(call)
         \/ \E o \in 1 .. position : Commit(o)
         \/ \E survivors \in SUBSET inflight : Crash(survivors)
         \/ Restart
         \/ UNCHANGED <<customerVars, merchantVars, consumerVars, topic, inflight, counters, dlq,
                        crashes>>
BY DEF Next, Tick, vars

LEMMA StepRows ==
  ASSUME QueueTypes, RowsInv, [Next]_vars
  PROVE  RowsInv'
<1>1. ASSUME UNCHANGED <<customerVars, merchantVars>> PROVE RowsInv'
  BY <1>1 DEF RowsInv, customerVars, merchantVars
<1>2. ASSUME NEW call \in inflight, Execute(call) PROVE RowsInv'
  BY <1>2, ExecuteFacts
<1>3. ASSUME NEW msg \in Messages, NEW at, Produce(msg, at) PROVE RowsInv'
  BY <1>1, <1>3 DEF Produce
<1>4. ASSUME NEW o, Commit(o) PROVE RowsInv'
  BY <1>1, <1>4 DEF Commit
<1>5. ASSUME NEW survivors, Crash(survivors) PROVE RowsInv'
  BY <1>1, <1>5 DEF Crash
<1>6. CASE Handle \/ Restart
  BY <1>1, <1>6 DEF Handle, Restart
<1> QED  BY <1>1, <1>2, <1>3, <1>4, <1>5, <1>6, OtherSteps

LEMMA StepQueue ==
  ASSUME QueueTypes, RowsInv, CommitInv, [Next]_vars
  PROVE  QueueTypes'
<1> topic \in Seq(Records) /\ Len(topic) \in Nat /\ DOMAIN topic = 1 .. Len(topic)
  BY LenProperties DEF QueueTypes
<1>1. ASSUME UNCHANGED <<consumerVars, topic, crashes>>, inflight' \subseteq inflight,
             counters' \in [Reasons -> Nat]
      PROVE  QueueTypes'
  BY <1>1 DEF QueueTypes, CallOK, Cause, consumerVars
<1>2. ASSUME NEW msg \in Messages, NEW at, Produce(msg, at) PROVE QueueTypes'
  <2>1. /\ topic' \in Seq(Records) /\ Len(topic') = Len(topic) + 1
        /\ DOMAIN topic \subseteq DOMAIN topic'
        /\ \A o \in DOMAIN topic : topic'[o] = topic[o]
    BY <1>2, ProduceFacts
  <2>2. UNCHANGED <<position, origin, crashes, up, counters, inflight>>
    BY <1>2 DEF Produce, consumerVars
  <2>3. \A call \in inflight : CallOK(call)'
    BY <2>1, <2>2 DEF QueueTypes, CallOK, Cause
  <2> QED  BY <2>1, <2>2, <2>3 DEF QueueTypes
<1>3. CASE Handle
  <2>1. /\ UNCHANGED <<topic, origin, crashes, up, counters>> /\ up
        /\ position <= Len(topic) /\ position' = position + 1
        /\ inflight' = inflight \cup Emitted(position)
    BY <1>3 DEF Handle
  <2>2. \A call \in inflight : CallOK(call)'
    BY <2>1 DEF QueueTypes, CallOK, Cause
  <2>3. position \in Nat \ {0} /\ crashes \in Nat
    BY DEF QueueTypes
  <2>4. \A call \in Emitted(position) : CallOK(call)'
    BY <1>3, <2>1, <2>3, EmittedFacts DEF CallOK, Cause
  <2> QED  BY <2>1, <2>2, <2>3, <2>4 DEF QueueTypes
<1>4. ASSUME NEW call \in inflight, Execute(call) PROVE QueueTypes'
  BY <1>1, <1>4, ExecuteFacts
<1>5. ASSUME NEW o, Commit(o) PROVE QueueTypes'
  BY <1>5 DEF Commit, QueueTypes, CallOK, Cause
<1>6. ASSUME NEW survivors \in SUBSET inflight, Crash(survivors) PROVE QueueTypes'
  <2>1. /\ UNCHANGED <<topic, position, origin, counters>>
        /\ inflight' \subseteq inflight /\ crashes' = crashes + 1 /\ up' = FALSE
    BY <1>6 DEF Crash
  <2>2. \A call \in inflight' : CallOK(call)'
    BY <2>1 DEF QueueTypes, CallOK, Cause
  <2>3. topic' = topic /\ position' = position /\ origin' = origin /\ counters' = counters
    BY <2>1
  <2>4. crashes \in Nat
    BY DEF QueueTypes
  <2>5. crashes' \in Nat
    BY <2>1, <2>4
  <2>6. up' \in BOOLEAN
    BY <2>1, Zenon
  <2> QED  BY <2>2, <2>3, <2>5, <2>6 DEF QueueTypes
<1>7. CASE Restart
  <2>1. /\ UNCHANGED <<topic, crashes, counters, inflight>> /\ ~up /\ up' = TRUE
        /\ position' = ResumeAt
        /\ origin' = (IF committed = None THEN ResumeAt ELSE origin)
    BY <1>7 DEF Restart
  <2>2. ResumeAt \in Nat \ {0} /\ ResumeAt <= Len(topic) + 1
    BY DEF ResumeAt, QueueTypes, CommitInv
  <2>3. \A call \in inflight : CallOK(call)'
    BY <2>1 DEF QueueTypes, CallOK, Cause
  <2> QED  BY <2>1, <2>2, <2>3 DEF QueueTypes
<1>8. CASE UNCHANGED <<consumerVars, topic, inflight, counters, crashes>>
  BY <1>1, <1>8 DEF QueueTypes
<1> QED  BY <1>2, <1>3, <1>4, <1>5, <1>6, <1>7, <1>8, OtherSteps

LEMMA StepCommitted ==
  ASSUME QueueTypes, RowsInv, CommitInv, [Next]_vars
  PROVE  CommitInv'
<1>1. ASSUME UNCHANGED <<committed, position, crashes>>, inflight' \subseteq inflight
      PROVE  CommitInv'
  BY <1>1 DEF CommitInv, Open
<1>2. ASSUME NEW msg \in Messages, NEW at, Produce(msg, at) PROVE CommitInv'
  BY <1>1, <1>2 DEF Produce, consumerVars
<1>3. CASE Handle
  <2>1. /\ UNCHANGED <<committed, crashes>> /\ position' = position + 1
        /\ inflight' = inflight \cup Emitted(position) /\ position \in Nat
    BY <1>3 DEF Handle, QueueTypes
  <2>2. \A call \in Emitted(position) : call.offset = position
    BY <1>3, EmittedFacts
  <2>3. ASSUME committed # None, NEW p \in 1 .. committed - 1 PROVE ~Open(p)'
    BY <2>1, <2>2, <2>3 DEF CommitInv, Open
  <2> QED  BY <2>1, <2>3 DEF CommitInv
<1>4. ASSUME NEW call \in inflight, Execute(call) PROVE CommitInv'
  BY <1>1, <1>4, ExecuteFacts DEF consumerVars
<1>5. ASSUME NEW o \in 1 .. position, Commit(o) PROVE CommitInv'
  <2>1. /\ committed' = o /\ UNCHANGED <<position, inflight, crashes>>
        /\ \A p \in 1 .. o - 1 : Acknowledged(p)
    BY <1>5 DEF Commit
  <2>2. o \in Nat \ {0} /\ o <= position
    BY DEF QueueTypes
  <2>3. \A p \in 1 .. o - 1 : ~Open(p)'
    BY <2>1 DEF Acknowledged, Open
  <2> QED  BY <2>1, <2>2, <2>3 DEF CommitInv
<1>6. ASSUME NEW survivors \in SUBSET inflight, Crash(survivors) PROVE CommitInv'
  <2>1. /\ UNCHANGED <<committed, position>> /\ inflight' \subseteq inflight
        /\ crashes' = crashes + 1
    BY <1>6 DEF Crash
  <2>2. \A p : ~Open(p)'
    BY <2>1 DEF Open, QueueTypes, CallOK
  <2> QED  BY <2>1, <2>2 DEF CommitInv
<1>7. CASE Restart
  <2>1. UNCHANGED <<committed, inflight, crashes>> /\ position' = ResumeAt
    BY <1>7 DEF Restart
  <2> QED  BY <2>1 DEF CommitInv, ResumeAt, Open
<1>8. CASE UNCHANGED <<consumerVars, inflight, crashes>>
  BY <1>1, <1>8 DEF consumerVars
<1> QED  BY <1>2, <1>3, <1>4, <1>5, <1>6, <1>7, <1>8, OtherSteps

LEMMA StepPairs ==
  ASSUME QueueTypes, RowsInv, PairsInv, [Next]_vars
  PROVE  PairsInv'
<1>1. ASSUME UNCHANGED <<topic, inflight, crashes, customerLedger, merchantLedger>>
      PROVE  PairsInv'
  BY <1>1 DEF PairsInv, InFlight, CustomerFact, MerchantFact
<1>2. ASSUME NEW msg \in Messages, NEW at, Produce(msg, at) PROVE PairsInv'
  <2>1. /\ \A o \in DOMAIN topic : topic'[o] = topic[o]
        /\ UNCHANGED <<inflight, crashes, customerLedger, merchantLedger>>
    BY <1>2, ProduceFacts DEF Produce, customerVars, merchantVars
  <2>2. \A call \in inflight : call.offset \in DOMAIN topic
    BY DEF QueueTypes, CallOK
  <2>3. ASSUME NEW o \in DOMAIN topic', o \notin DOMAIN topic
        PROVE  ~InFlight("RecordTxn", o)' /\ ~InFlight("RecordMerchantTxn", o)'
    BY <2>1, <2>2, <2>3 DEF InFlight
  <2>4. ASSUME NEW o \in DOMAIN topic
        PROVE  /\ CustomerFact(o)' <=> CustomerFact(o)
               /\ MerchantFact(o)' <=> MerchantFact(o)
               /\ topic'[o] = topic[o]
    BY <2>1 DEF CustomerFact, MerchantFact
  <2>5. \A proc, o : InFlight(proc, o)' <=> InFlight(proc, o)
    BY <2>1 DEF InFlight
  <2> QED  BY <2>3, <2>4, <2>5 DEF PairsInv
<1>3. CASE Handle
  <2> PICK p, E : p = position /\ E = Emitted(position)
    OBVIOUS
  <2>1. /\ UNCHANGED <<topic, crashes, customerLedger, merchantLedger>>
        /\ inflight' = inflight \cup E
    BY <1>3 DEF Handle, customerVars, merchantVars
  <2>2. \A call \in E : call.offset = p /\ call.run = crashes
    BY <1>3, EmittedFacts
  <2>3. \A call \in inflight : call.run = crashes => call.offset # p
    BY DEF QueueTypes, CallOK
  <2>4. \A o : o # p => \A proc : InFlight(proc, o)' <=> InFlight(proc, o)
    BY <2>1, <2>2 DEF InFlight
  <2>5. \A proc : InFlight(proc, p)' => \E call \in E : call.proc = proc
    BY <2>1, <2>3 DEF InFlight
  <2>6. \A proc : (\E call \in E : call.proc = proc) => InFlight(proc, p)'
    BY <2>1, <2>2 DEF InFlight
  <2>7. \A o : (CustomerFact(o)' <=> CustomerFact(o)) /\ (MerchantFact(o)' <=> MerchantFact(o))
    BY <2>1 DEF CustomerFact, MerchantFact
  <2>8. /\ (\E call \in E : call.proc = "RecordTxn") /\ topic[p].event.merchant # None
           => \E call \in E : call.proc = "RecordMerchantTxn"
        /\ (\E call \in E : call.proc = "RecordMerchantTxn")
           => \E call \in E : call.proc = "RecordTxn"
    BY <1>3, EmittedFacts
  <2>9. /\ InFlight("RecordTxn", p)' /\ topic[p].event.merchant # None
           => InFlight("RecordMerchantTxn", p)'
        /\ InFlight("RecordMerchantTxn", p)' => InFlight("RecordTxn", p)'
    BY <2>5, <2>6, <2>8, Zenon
  <2>10. ASSUME NEW o \in DOMAIN topic
         PROVE  /\ InFlight("RecordTxn", o)' /\ topic[o].event.merchant # None
                   => InFlight("RecordMerchantTxn", o)' \/ MerchantFact(o)'
                /\ InFlight("RecordMerchantTxn", o)' => InFlight("RecordTxn", o)' \/ CustomerFact(o)'
    <3>1. CASE o = p
      BY <2>9, <3>1, Zenon
    <3>2. CASE o # p
      BY <2>4, <2>7, <3>2 DEF PairsInv
    <3> QED  BY <3>1, <3>2
  <2> QED  BY <2>1, <2>10 DEF PairsInv
<1>4. ASSUME NEW call \in inflight, Execute(call) PROVE PairsInv'
  <2>1. /\ UNCHANGED <<topic, crashes>> /\ inflight' = inflight \ {call}
        /\ customerLedger \subseteq customerLedger' /\ merchantLedger \subseteq merchantLedger'
    BY <1>4, ExecuteFacts
  <2>2. \A o : (CustomerFact(o) => CustomerFact(o)') /\ (MerchantFact(o) => MerchantFact(o)')
    BY <2>1 DEF CustomerFact, MerchantFact
  <2>3. \A proc, o : InFlight(proc, o)' => InFlight(proc, o)
    BY <2>1 DEF InFlight
  <2>4. \A proc, o : InFlight(proc, o) /\ ~InFlight(proc, o)' => call.proc = proc /\ call.offset = o
    BY <2>1 DEF InFlight
  <2>5. call.proc = "RecordTxn" => CustomerFact(call.offset)'
    BY <1>4, RecordTxnFacts, RecordMerchantTxnFacts, BumpFacts DEF Execute
  <2>6. call.proc = "RecordMerchantTxn" => MerchantFact(call.offset)'
    BY <1>4, RecordTxnFacts, RecordMerchantTxnFacts, BumpFacts DEF Execute
  <2>7. ASSUME NEW o \in DOMAIN topic
        PROVE  /\ InFlight("RecordTxn", o)' /\ topic[o].event.merchant # None
                  => InFlight("RecordMerchantTxn", o)' \/ MerchantFact(o)'
               /\ InFlight("RecordMerchantTxn", o)' => InFlight("RecordTxn", o)' \/ CustomerFact(o)'
    BY <2>2, <2>3, <2>4, <2>5, <2>6 DEF PairsInv
  <2> QED  BY <2>1, <2>7 DEF PairsInv
<1>5. ASSUME NEW o, Commit(o) PROVE PairsInv'
  BY <1>1, <1>5 DEF Commit, customerVars, merchantVars
<1>6. ASSUME NEW survivors \in SUBSET inflight, Crash(survivors) PROVE PairsInv'
  <2>1. topic' = topic /\ inflight' \subseteq inflight /\ crashes' = crashes + 1
    BY <1>6 DEF Crash
  <2>2. \A proc, o : ~InFlight(proc, o)'
    BY <2>1 DEF InFlight, QueueTypes, CallOK
  <2> QED  BY <2>2 DEF PairsInv
<1>7. CASE Restart
  BY <1>1, <1>7 DEF Restart, customerVars, merchantVars
<1>8. CASE UNCHANGED <<customerVars, merchantVars, topic, inflight, crashes>>
  BY <1>1, <1>8 DEF customerVars, merchantVars
<1> QED  BY <1>2, <1>3, <1>4, <1>5, <1>6, <1>7, <1>8, OtherSteps

----------------------------------------------------------------------------
(* What is settled, is counted *)

(* A set of offsets that does not grow stays below a counter that does not  *)
(* fall, and one that grows by one offset below the counter bumped for it.  *)
LEMMA StaysBelow ==
  ASSUME NEW S, NEW T, NEW n \in Nat, NEW m \in Nat, IsFiniteSet(S), Cardinality(S) <= n,
         T \subseteq S, n <= m
  PROVE  Cardinality(T) <= m
BY FS_Subset, FS_CardinalityType

LEMMA GrowsByOne ==
  ASSUME NEW S, NEW T, NEW x, NEW n \in Nat, IsFiniteSet(S), Cardinality(S) <= n,
         T \subseteq S \cup {x}
  PROVE  Cardinality(T) <= n + 1
<1>1. IsFiniteSet(S \cup {x}) /\ Cardinality(S \cup {x}) <= Cardinality(S) + 1
  <2>1. Cardinality(S) \in Nat
    BY FS_CardinalityType
  <2>2. /\ IsFiniteSet(S \cup {x})
        /\ Cardinality(S \cup {x}) = IF x \in S THEN Cardinality(S) ELSE Cardinality(S) + 1
    BY FS_AddElement
  <2> QED  BY <2>1, <2>2
<1>2. Cardinality(T) <= Cardinality(S \cup {x})
  BY <1>1, FS_Subset
<1>3. Cardinality(S) \in Nat /\ Cardinality(T) \in Nat /\ Cardinality(S \cup {x}) \in Nat
  BY <1>1, FS_Subset, FS_CardinalityType
<1> QED  BY <1>1, <1>2, <1>3

LEMMA BoundFacts ==
  ASSUME QueueTypes, CommitInv
  PROVE  /\ Bound \in Nat /\ Bound <= position
         /\ \A o \in origin .. Bound - 1 : o \in DOMAIN topic
         /\ \A reason : IsFiniteSet(Settled(reason))
<1>1. position \in Nat /\ origin \in Nat \ {0} /\ position <= Len(topic) + 1
      /\ Len(topic) \in Nat /\ DOMAIN topic = 1 .. Len(topic)
  BY LenProperties DEF QueueTypes
<1>2. Bound \in Nat /\ Bound <= position
  BY <1>1 DEF Bound, Committed, CommitInv
<1>3. ASSUME NEW reason PROVE IsFiniteSet(Settled(reason))
  <2>1. IsFiniteSet(origin .. Bound - 1)
    BY <1>1, <1>2, FS_Interval
  <2>2. Settled(reason) \subseteq origin .. Bound - 1
    BY DEF Settled
  <2> QED  BY <2>1, <2>2, FS_Subset
<1> QED  BY <1>1, <1>2, <1>3

LEMMA SettledMembers ==
  ASSUME NEW reason, NEW o
  PROVE  o \in Settled(reason) <=> /\ o \in origin .. Bound - 1
                                   /\ ~Open(o) /\ Due(o) = reason
BY DEF Settled

(* What is due of a record, by the facts the ledgers have of it.            *)
LEMMA DueIs ==
  ASSUME NEW o
  PROVE  Due(o) = IF topic[o].form # "ok" THEN topic[o].form
                  ELSE IF /\ CustomerFact(o)
                          /\ topic[o].event.merchant = None \/ MerchantFact(o)
                       THEN None ELSE "dropped_late"
BY DEF Due, Recorded, CustomerFact, MerchantFact

(* As the ledgers grow, a record is still due what it was, or nothing.      *)
LEMMA DueStays ==
  ASSUME NEW o, topic'[o] = topic[o],
         customerLedger \subseteq customerLedger', merchantLedger \subseteq merchantLedger'
  PROVE  /\ Due(o)' \in {Due(o), None}
         /\ UNCHANGED <<customerLedger, merchantLedger>> => Due(o)' = Due(o)
<1>1. /\ CustomerFact(o) => CustomerFact(o)'
      /\ MerchantFact(o) => MerchantFact(o)'
      /\ UNCHANGED <<customerLedger, merchantLedger>> =>
           (CustomerFact(o)' <=> CustomerFact(o)) /\ (MerchantFact(o)' <=> MerchantFact(o))
  BY DEF CustomerFact, MerchantFact
<1>2. Due(o)' = IF topic'[o].form # "ok" THEN topic'[o].form
                ELSE IF /\ CustomerFact(o)'
                        /\ topic'[o].event.merchant = None \/ MerchantFact(o)'
                     THEN None ELSE "dropped_late"
  BY DEF Due, Recorded, CustomerFact, MerchantFact
<1> QED  BY <1>1, <1>2, DueIs

LEMMA StepSettled ==
  ASSUME QueueTypes, RowsInv, PairsInv, CommitInv, SettledInv, [Next]_vars
  PROVE  SettledInv'
<1> /\ position \in Nat \ {0} /\ origin \in Nat \ {0} /\ crashes \in Nat /\ up \in BOOLEAN
    /\ counters \in [Reasons -> Nat]
  BY DEF QueueTypes
<1> /\ Bound \in Nat /\ Bound <= position
    /\ \A o \in origin .. Bound - 1 : o \in DOMAIN topic
    /\ \A reason : IsFiniteSet(Settled(reason))
  BY BoundFacts
<1>1. ASSUME NEW reason \in Reasons, counters' \in [Reasons -> Nat],
             counters'[reason] >= counters[reason], Settled(reason)' \subseteq Settled(reason)
      PROVE  Cardinality(Settled(reason)') <= counters'[reason]
  <2>1. PICK T : T = Settled(reason)'
    OBVIOUS
  <2>2. Cardinality(Settled(reason)) <= counters[reason]
    BY DEF SettledInv
  <2>3. Cardinality(T) <= counters'[reason]
    BY <1>1, <2>1, <2>2, StaysBelow
  <2> QED  BY <2>1, <2>3, Zenon
<1>2. ASSUME counters' \in [Reasons -> Nat],
             \A reason \in Reasons : counters'[reason] >= counters[reason],
             \A reason \in Reasons : Settled(reason)' \subseteq Settled(reason)
      PROVE  SettledInv'
  <2>1. ASSUME NEW reason \in Reasons
        PROVE  Cardinality(Settled(reason)') <= counters'[reason]
    <3>1. counters'[reason] >= counters[reason] /\ Settled(reason)' \subseteq Settled(reason)
      BY <1>2, Zenon
    <3> QED  BY <1>1, <1>2, <3>1, Zenon
  <2> QED  BY <2>1, Zenon DEF SettledInv
(* It is enough to follow an offset that is settled after the step.         *)
<1>3. ASSUME NEW reason, NEW o, o \in Settled(reason)'
      PROVE  o \in origin' .. Bound' - 1 /\ ~Open(o)' /\ Due(o)' = reason
  BY <1>3 DEF Settled
<1>4. \A reason, o : o \in origin .. Bound - 1 /\ ~Open(o) /\ Due(o) = reason
                     => o \in Settled(reason)
  BY SettledMembers
<1>5. ASSUME NEW msg \in Messages, NEW at, Produce(msg, at) PROVE SettledInv'
  <2>1. /\ \A o \in DOMAIN topic : topic'[o] = topic[o]
        /\ UNCHANGED <<consumerVars, inflight, crashes, counters, customerLedger, merchantLedger>>
    BY <1>5, ProduceFacts DEF Produce, customerVars, merchantVars
  <2>2. Bound' = Bound /\ origin' = origin /\ counters' = counters
    BY <2>1 DEF Bound, Committed, consumerVars
  <2>3. ASSUME NEW reason, NEW o \in Settled(reason)' PROVE o \in Settled(reason)
    <3>1. o \in origin .. Bound - 1 /\ ~Open(o)' /\ Due(o)' = reason
      BY <1>3, <2>2
    <3>2. ~Open(o)
      BY <2>1, <3>1 DEF Open
    <3>3. Due(o)' = Due(o)
      BY <2>1, <3>1, DueStays
    <3> QED  BY <1>4, <3>1, <3>2, <3>3
  <2> QED  BY <1>2, <2>2, <2>3
<1>6. CASE Handle
  <2> PICK p, E : p = position /\ E = Emitted(position)
    OBVIOUS
  <2>1. /\ UNCHANGED <<topic, origin, up, crashes, counters, customerLedger, merchantLedger>>
        /\ up /\ position' = p + 1 /\ inflight' = inflight \cup E
    BY <1>6 DEF Handle, customerVars, merchantVars
  <2>2. E # {} /\ \A call \in E : call.offset = p /\ call.run = crashes
    BY <1>6, EmittedFacts
  <2>3. Bound = p /\ Bound' = p + 1 /\ p \in Nat
    BY <2>1 DEF Bound
  <2>4. Open(p)'
    BY <2>1, <2>2 DEF Open
  <2>5. ASSUME NEW reason, NEW o \in Settled(reason)' PROVE o \in Settled(reason)
    <3>1. o \in origin .. p /\ ~Open(o)' /\ Due(o)' = reason
      BY <1>3, <2>1, <2>3
    <3>2. o # p
      BY <2>4, <3>1, Zenon
    <3>3. o \in origin .. Bound - 1
      BY <2>3, <3>1, <3>2
    <3>4. ~Open(o)
      BY <2>1, <3>1 DEF Open
    <3>5. Due(o)' = Due(o)
      BY <2>1, <3>1, DueStays
    <3> QED  BY <1>4, <3>1, <3>3, <3>4, <3>5
  <2> QED  BY <1>2, <2>1, <2>5
<1>7. ASSUME NEW call \in inflight, Execute(call) PROVE SettledInv'
  <2>1. /\ UNCHANGED <<consumerVars, topic, crashes>> /\ inflight' = inflight \ {call}
        /\ customerLedger \subseteq customerLedger' /\ merchantLedger \subseteq merchantLedger'
        /\ counters' \in [Reasons -> Nat]
        /\ \A reason \in Reasons : counters'[reason] >= counters[reason]
    BY <1>7, ExecuteFacts
  <2>2. Bound' = Bound /\ origin' = origin
    BY <2>1 DEF Bound, Committed, consumerVars
  <2>3. ASSUME NEW reason \in Reasons, NEW o \in Settled(reason)', ~Open(o)
        PROVE  o \in Settled(reason)
    <3>1. o \in origin .. Bound - 1 /\ Due(o)' = reason
      BY <1>3, <2>2
    <3>2. Due(o)' \in {Due(o), None}
      BY <2>1, DueStays
    <3> QED  BY <1>4, <2>3, <3>1, <3>2, BoundsInNat
  <2>4. ASSUME NEW reason, NEW o \in Settled(reason)', Open(o)
        PROVE  o = call.offset /\ o \in DOMAIN topic /\ call.run = crashes
    <3>1. o \in origin .. Bound - 1 /\ ~Open(o)'
      BY <1>3, <2>2
    <3> QED  BY <2>1, <2>4, <3>1 DEF Open
  <2>5. CASE BumpCounter(call)
    <3>1. /\ call.reason = Cause(call.offset) /\ call.reason \in Reasons
          /\ counters'[call.reason] = counters[call.reason] + 1
      BY <2>5, BumpFacts
    <3>2. UNCHANGED <<customerLedger, merchantLedger>>
      BY <2>5 DEF BumpCounter, customerVars, merchantVars
    <3>3. ASSUME NEW reason \in Reasons, NEW o \in Settled(reason)', Open(o)
          PROVE  o = call.offset /\ reason = call.reason
      <4>1. Due(o)' = reason /\ o = call.offset
        BY <1>3, <2>4, <3>3
      <4>2. Due(o) = reason /\ reason # None
        BY <2>1, <3>2, <4>1, DueStays, BoundsInNat
      <4> QED  BY <3>1, <4>1, <4>2, DueIs DEF Cause
    <3>4. ASSUME NEW reason \in Reasons
          PROVE  Cardinality(Settled(reason)') <= counters'[reason]
      <4>1. CASE reason = call.reason
        <5>1. Settled(reason)' \subseteq Settled(reason) \cup {call.offset}
          BY <2>3, <3>3
        <5>2. PICK T, n : T = Settled(reason)' /\ n = counters[reason] /\ n \in Nat
          OBVIOUS
        <5>3. Cardinality(T) <= n + 1
          BY <5>1, <5>2, GrowsByOne DEF SettledInv
        <5> QED  BY <3>1, <4>1, <5>2, <5>3
      <4>2. CASE reason # call.reason
        <5>1. Settled(reason)' \subseteq Settled(reason)
          BY <2>3, <3>3, <4>2
        <5> QED  BY <1>1, <2>1, <5>1, Zenon
      <4> QED  BY <4>1, <4>2
    <3> QED  BY <3>4, Zenon DEF SettledInv
  <2>6. CASE ExecuteRecordTxn(call) \/ ExecuteRecordMerchantTxn(call)
    <3>1. ASSUME NEW reason \in Reasons, NEW o \in Settled(reason)', Open(o) PROVE FALSE
      <4>1. /\ o \in origin .. Bound - 1 /\ ~Open(o)' /\ Due(o)' = reason
            /\ o = call.offset /\ o \in DOMAIN topic /\ call.run = crashes
        BY <1>3, <2>2, <2>4, <3>1
      <4>2. topic[o].form = "ok" /\ topic'[o] = topic[o]
        BY <2>1, <2>6, <4>1 DEF ExecuteRecordTxn, ExecuteRecordMerchantTxn, QueueTypes, CallOK
      <4>3. \A other \in inflight : other.run = crashes /\ other.offset = o => other = call
        BY <2>1, <4>1 DEF Open
      <4>4. CustomerFact(o)' /\ (topic[o].event.merchant = None \/ MerchantFact(o)')
        <5>1. CASE ExecuteRecordTxn(call)
          <6>1. CustomerFact(o)' /\ call.proc = "RecordTxn" /\ merchantLedger' = merchantLedger
            BY <4>1, <5>1, RecordTxnFacts DEF merchantVars
          <6>2. InFlight("RecordTxn", o) /\ ~InFlight("RecordMerchantTxn", o)
            BY <4>1, <4>3, <6>1 DEF InFlight
          <6>3. topic[o].event.merchant = None \/ MerchantFact(o)
            BY <4>1, <6>2 DEF PairsInv
          <6> QED  BY <4>2, <6>1, <6>3 DEF MerchantFact
        <5>2. CASE ExecuteRecordMerchantTxn(call)
          <6>1. /\ MerchantFact(o)' /\ call.proc = "RecordMerchantTxn"
                /\ customerLedger' = customerLedger
            BY <4>1, <5>2, RecordMerchantTxnFacts DEF customerVars
          <6>2. InFlight("RecordMerchantTxn", o) /\ ~InFlight("RecordTxn", o)
            BY <4>1, <4>3, <6>1 DEF InFlight
          <6>3. CustomerFact(o)
            BY <4>1, <6>2 DEF PairsInv
          <6> QED  BY <4>2, <6>1, <6>3 DEF CustomerFact
        <5> QED  BY <2>6, <5>1, <5>2
      <4>5. Due(o)' = None
        BY <4>2, <4>4 DEF Due, Recorded, CustomerFact, MerchantFact
      <4> QED  BY <4>1, <4>5, BoundsInNat
    <3> QED  BY <1>2, <2>1, <2>3, <3>1
  <2> QED  BY <1>7, <2>5, <2>6 DEF Execute
<1>8. ASSUME NEW p \in 1 .. position, Commit(p) PROVE SettledInv'
  <2>1. /\ UNCHANGED <<topic, origin, position, up, crashes, inflight, counters,
                       customerLedger, merchantLedger>> /\ up
    BY <1>8 DEF Commit, customerVars, merchantVars
  <2>2. Bound' = Bound
    BY <2>1 DEF Bound
  <2>3. ASSUME NEW reason, NEW o \in Settled(reason)' PROVE o \in Settled(reason)
    <3>1. o \in origin .. Bound - 1 /\ ~Open(o)' /\ Due(o)' = reason
      BY <1>3, <2>1, <2>2
    <3>2. ~Open(o) /\ Due(o)' = Due(o)
      BY <2>1, <3>1, DueStays DEF Open
    <3> QED  BY <1>4, <3>1, <3>2
  <2> QED  BY <1>2, <2>1, <2>3
<1>9. ASSUME NEW survivors \in SUBSET inflight, Crash(survivors) PROVE SettledInv'
  <2>1. /\ UNCHANGED <<topic, origin, committed, position, counters, customerLedger,
                       merchantLedger>> /\ up /\ up' = FALSE
    BY <1>9 DEF Crash, customerVars, merchantVars
  <2>2. Bound' = Committed /\ Bound = position /\ counters' = counters
    BY <2>1 DEF Bound, Committed
  <2>3. ASSUME NEW reason, NEW o \in Settled(reason)' PROVE o \in Settled(reason)
    <3>1. o \in origin .. Committed - 1 /\ Due(o)' = reason
      BY <1>3, <2>1, <2>2
    <3>2. committed # None /\ o \in 1 .. committed - 1 /\ committed <= position
          /\ committed \in Nat
      BY <3>1 DEF Committed, CommitInv
    <3>3. ~Open(o) /\ o \in origin .. Bound - 1
      BY <2>2, <3>1, <3>2 DEF CommitInv
    <3>4. Due(o)' = Due(o)
      BY <2>1, DueStays
    <3> QED  BY <1>4, <3>1, <3>3, <3>4
  <2> QED  BY <1>2, <2>2, <2>3
<1>10. CASE Restart
  <2>1. /\ UNCHANGED <<topic, committed, crashes, inflight, counters, customerLedger,
                       merchantLedger>> /\ ~up /\ up' = TRUE /\ position' = ResumeAt
        /\ origin' = (IF committed = None THEN ResumeAt ELSE origin)
    BY <1>10 DEF Restart, customerVars, merchantVars
  <2>2. Bound' = ResumeAt /\ Bound = Committed /\ counters' = counters
    BY <2>1 DEF Bound
  <2>3. ASSUME NEW reason, NEW o \in Settled(reason)' PROVE o \in Settled(reason)
    <3>1. o \in origin' .. ResumeAt - 1 /\ ~Open(o)' /\ Due(o)' = reason
      BY <1>3, <2>2
    <3>2. Len(topic) \in Nat
      BY LenProperties DEF QueueTypes
    <3>3. committed # None /\ origin' = origin /\ ResumeAt = committed /\ Bound = committed
      BY <2>1, <2>2, <3>1, <3>2 DEF ResumeAt, Committed
    <3>4. ~Open(o) /\ Due(o)' = Due(o)
      BY <2>1, <3>1, DueStays DEF Open
    <3> QED  BY <1>4, <3>1, <3>3, <3>4
  <2> QED  BY <1>2, <2>2, <2>3
<1>11. CASE UNCHANGED <<customerVars, merchantVars, consumerVars, topic, inflight, counters, crashes>>
  <2>1. UNCHANGED <<topic, origin, committed, position, up, crashes, inflight, counters,
                    customerLedger, merchantLedger>>
    BY <1>11 DEF consumerVars, customerVars, merchantVars
  <2>2. Bound' = Bound
    BY <2>1 DEF Bound, Committed
  <2>3. ASSUME NEW reason, NEW o \in Settled(reason)' PROVE o \in Settled(reason)
    <3>1. o \in origin .. Bound - 1 /\ ~Open(o)' /\ Due(o)' = reason
      BY <1>3, <2>1, <2>2
    <3>2. ~Open(o) /\ Due(o)' = Due(o)
      BY <2>1, <3>1, DueStays DEF Open
    <3> QED  BY <1>4, <3>1, <3>2
  <2> QED  BY <1>2, <2>1, <2>3
<1> QED  BY <1>5, <1>6, <1>7, <1>8, <1>9, <1>10, <1>11, OtherSteps

----------------------------------------------------------------------------
(* Bumps and dead letters *)

(* The sets that are counted are finite, and a step that keeps the records  *)
(* and does not turn the clock back keeps what is rejected.                 *)
LEMMA FiniteParts ==
  ASSUME QueueTypes, IsFiniteSet(inflight), NEW reason
  PROVE  /\ IsFiniteSet(RejectedFor(reason)) /\ IsFiniteSet(Bumps(reason))
         /\ IsFiniteSet(Handled(reason)) /\ IsFiniteSet(DeadFor(reason))
         /\ Cardinality(RejectedFor(reason)) \in Nat /\ Cardinality(Bumps(reason)) \in Nat
         /\ Cardinality(Handled(reason)) \in Nat /\ Cardinality(DeadFor(reason)) \in Nat
         /\ Cardinality(Handled(reason)) <= Cardinality(RejectedFor(reason))
<1>1. IsFiniteSet(DOMAIN topic)
  BY LenProperties, FS_Interval DEF QueueTypes
<1>2. IsFiniteSet(RejectedFor(reason))
  BY <1>1, FS_Subset DEF RejectedFor
<1>3. IsFiniteSet(Bumps(reason))
  BY FS_Subset DEF Bumps
<1>4. Handled(reason) \subseteq RejectedFor(reason) /\ DeadFor(reason) \subseteq RejectedFor(reason)
  BY DEF Handled, DeadFor
<1> QED  BY <1>2, <1>3, <1>4, FS_Subset, FS_CardinalityType

LEMMA ClockFacts ==
  ASSUME [Next]_vars, now \in Nat
  PROVE  now' \in Nat /\ now <= now'
<1>1. now' = now \/ now' = now + 1
  <2>1. ASSUME NEW call \in inflight, Execute(call) PROVE now' = now
    BY <2>1 DEF Execute, ExecuteRecordTxn, ExecuteRecordMerchantTxn, BumpCounter
  <2> QED  BY <2>1 DEF Next, vars, Produce, Handle, Commit, Crash, Restart, Tick
<1> QED  BY <1>1

LEMMA StaysRejected ==
  ASSUME QueueTypes, now \in Nat, now' \in Nat, now <= now', NEW o \in DOMAIN topic,
         o \in DOMAIN topic', topic'[o] = topic[o], Rejection(topic[o]) # None
  PROVE  Rejection(topic[o])' = Rejection(topic[o])
<1>1. PICK r : r = topic[o]
  OBVIOUS
<1>2. topic[o]' = r
  BY <1>1
<1>3. r.at \in Nat /\ Lateness \in Nat
  BY <1>1, RecordFields, BoundsInNat DEF Records
<1>4. IsLate(r) => now' - r.at > Lateness
  BY <1>3 DEF IsLate
<1>5. r.form # "ok" \/ IsLate(r)
  BY <1>1 DEF Rejection
<1> QED  BY <1>1, <1>2, <1>4, <1>5 DEF Rejection, IsLate

LEMMA FinitePartsNext ==
  ASSUME QueueTypes', IsFiniteSet(inflight)', NEW reason
  PROVE  /\ IsFiniteSet(RejectedFor(reason)') /\ IsFiniteSet(Bumps(reason)')
         /\ IsFiniteSet(Handled(reason)') /\ IsFiniteSet(DeadFor(reason)')
         /\ Cardinality(RejectedFor(reason)') \in Nat /\ Cardinality(Bumps(reason)') \in Nat
         /\ Cardinality(Handled(reason)') \in Nat /\ Cardinality(DeadFor(reason)') \in Nat
<1>1. IsFiniteSet(DOMAIN topic')
  <2>1. topic' \in Seq(Records)
    BY DEF QueueTypes
  <2> QED  BY <2>1, LenProperties, FS_Interval
<1>2. IsFiniteSet(RejectedFor(reason)')
  <2>1. RejectedFor(reason)' \subseteq DOMAIN topic'
    BY DEF RejectedFor
  <2> QED  BY <1>1, <2>1, FS_Subset
<1>3. IsFiniteSet(Bumps(reason)')
  <2>1. Bumps(reason)' \subseteq inflight'
    BY DEF Bumps
  <2> QED  BY <2>1, FS_Subset
<1>4. /\ Handled(reason)' \subseteq RejectedFor(reason)'
      /\ DeadFor(reason)' \subseteq RejectedFor(reason)'
  BY DEF Handled, DeadFor
<1> QED  BY <1>2, <1>3, <1>4, FS_Subset, FS_CardinalityType

LEMMA TimesMonotone ==
  ASSUME NEW k \in Nat, NEW a \in Nat, NEW b \in Nat, a <= b
  PROVE  /\ k * a \in Nat /\ k * b \in Nat /\ k * a <= k * b
         /\ (k + 1) * a = k * a + a
<1>1. k * (b - a) \in Nat /\ k * b = k * a + k * (b - a)
  OBVIOUS
<1>2. k * a \in Nat /\ k * b \in Nat
  OBVIOUS
<1>3. (k + 1) * a = k * a + a
  OBVIOUS
<1> QED  BY ONLY <1>1, <1>2, <1>3

(* A step that leaves calls, counters and dead letters alone.               *)
LEMMA QuietBumps ==
  ASSUME QueueTypes, QueueTypes', BumpsInv, now' \in Nat, now <= now',
         UNCHANGED <<inflight, counters, dlq, crashes>>,
         ~up \/ UNCHANGED <<up, position>>,
         \A o \in DOMAIN topic : o \in DOMAIN topic' /\ topic'[o] = topic[o]
  PROVE  BumpsInv'
<1>1. now \in Nat /\ IsFiniteSet(inflight) /\ IsFiniteSet(inflight)' /\ crashes \in Nat
  BY DEF BumpsInv, QueueTypes
<1>2. \A o \in DOMAIN topic : Rejection(topic[o]) # None =>
        o \in DOMAIN topic' /\ Rejection(topic[o])' = Rejection(topic[o])
  BY <1>1, StaysRejected
<1>3. ASSUME NEW o \in dlq' PROVE o \in DOMAIN topic' /\ Rejection(topic[o])' # None
  BY <1>2 DEF BumpsInv
<1>4. ASSUME NEW reason \in Reasons
      PROVE  /\ (counters[reason] + Cardinality(Bumps(reason)) <=
                   crashes * Cardinality(RejectedFor(reason)) + Cardinality(Handled(reason)))'
             /\ (crashes = 0 => Cardinality(DeadFor(reason)) <=
                                  counters[reason] + Cardinality(Bumps(reason)))'
  <2>1. RejectedFor(reason) \subseteq RejectedFor(reason)'
    BY <1>2, BoundsInNat DEF RejectedFor
  <2>2. Handled(reason) \subseteq Handled(reason)'
    BY <2>1 DEF Handled
  <2>3. DeadFor(reason)' = DeadFor(reason)
    <3>1. ASSUME NEW o \in dlq PROVE o \in RejectedFor(reason)' <=> o \in RejectedFor(reason)
      BY <1>2 DEF RejectedFor, BumpsInv
    <3> QED  BY <3>1 DEF DeadFor
  <2>4. Bumps(reason)' = Bumps(reason)
    BY DEF Bumps
  <2>5. PICK c, b, r, h, s, g :
          /\ c = counters[reason] /\ b = Cardinality(Bumps(reason))
          /\ r = Cardinality(RejectedFor(reason)) /\ h = Cardinality(Handled(reason))
          /\ s = Cardinality(RejectedFor(reason)') /\ g = Cardinality(Handled(reason)')
    OBVIOUS
  <2>6. /\ c \in Nat /\ b \in Nat /\ r \in Nat /\ h \in Nat /\ s \in Nat /\ g \in Nat
        /\ IsFiniteSet(RejectedFor(reason)') /\ IsFiniteSet(Handled(reason)')
    BY <1>1, <2>5, FiniteParts, FinitePartsNext DEF QueueTypes
  <2>7. r <= s /\ h <= g
    BY <2>1, <2>2, <2>5, <2>6, FS_Subset
  <2>8. c + b <= crashes * r + h
    BY <2>5 DEF BumpsInv
  <2>9. crashes * r <= crashes * s /\ crashes * r \in Nat /\ crashes * s \in Nat
    BY <1>1, <2>6, <2>7, TimesMonotone
  <2>10. c + b <= crashes * s + g
    BY ONLY <2>6, <2>7, <2>8, <2>9
  <2> QED  BY <2>3, <2>4, <2>5, <2>10 DEF BumpsInv
<1> QED  BY <1>1, <1>3, <1>4 DEF BumpsInv

LEMMA StepBumps ==
  ASSUME QueueTypes, QueueTypes', RowsInv, BumpsInv, [Next]_vars
  PROVE  BumpsInv'
<1>1. now' \in Nat /\ now <= now' /\ now \in Nat /\ IsFiniteSet(inflight) /\ crashes \in Nat
  BY ClockFacts DEF BumpsInv, QueueTypes
<1>2. ASSUME NEW msg \in Messages, NEW at, Produce(msg, at) PROVE BumpsInv'
  BY <1>1, <1>2, ProduceFacts, QuietBumps DEF Produce, consumerVars
<1>3. CASE Handle
  <2>1. /\ UNCHANGED <<topic, now, crashes, counters, up>> /\ up /\ position' = position + 1
        /\ inflight' = inflight \cup Emitted(position)
        /\ dlq' = dlq \/ (dlq' = dlq \cup {position} /\ Rejection(topic[position]) # None)
    BY <1>3 DEF Handle
  <2>2. position \in DOMAIN topic /\ position \in Nat
    BY <1>3, EmittedFacts DEF QueueTypes
  <2>3. PICK cause : cause = Rejection(topic[position])
    OBVIOUS
  <2>4. PICK x : x = Call("BumpCounter", position, cause)
    OBVIOUS
  <2>5. cause # None => Emitted(position) = {x}
    BY <2>3, <2>4 DEF Emitted
  <2>6. x.reason = cause /\ x.run = crashes /\ x.offset = position
    BY <2>4 DEF Call
  <2>7. x \notin inflight
    BY <2>2, <2>6 DEF QueueTypes, CallOK
  <2>8. cause = None => \A call \in Emitted(position) : call.reason = None
    <3>1. PICK a, b : /\ a = Call("RecordTxn", position, None)
                      /\ b = Call("RecordMerchantTxn", position, None)
      OBVIOUS
    <3>2. a.reason = None /\ b.reason = None
      BY <3>1 DEF Call
    <3>3. cause = None => Emitted(position) \subseteq {a, b}
      BY <2>3, <3>1 DEF Emitted
    <3> QED  BY <3>2, <3>3
  <2>9. IsFiniteSet(inflight')
    <3>1. PICK a, b : /\ a = Call("RecordTxn", position, None)
                      /\ b = Call("RecordMerchantTxn", position, None)
      OBVIOUS
    <3>2. Emitted(position) \subseteq {a, b, x}
      <4>1. cause = None => Emitted(position) \subseteq {a, b}
        BY <2>3, <3>1 DEF Emitted
      <4> QED  BY <2>5, <4>1
    <3>3. inflight' \subseteq ((inflight \cup {a}) \cup {b}) \cup {x}
      BY <2>1, <3>2
    <3>4. IsFiniteSet(((inflight \cup {a}) \cup {b}) \cup {x})
      BY <1>1, FS_AddElement
    <3> QED  BY <3>3, <3>4, FS_Subset
  <2>10. ASSUME NEW o PROVE Rejection(topic[o])' = Rejection(topic[o])
    BY <2>1 DEF Rejection, IsLate
  <2>11. \A o \in dlq' : o \in DOMAIN topic' /\ Rejection(topic[o])' # None
    BY <2>1, <2>2, <2>10 DEF BumpsInv
  <2>12. ASSUME NEW reason \in Reasons
         PROVE  /\ (counters[reason] + Cardinality(Bumps(reason)) <=
                      crashes * Cardinality(RejectedFor(reason)) + Cardinality(Handled(reason)))'
                /\ (crashes = 0 => Cardinality(DeadFor(reason)) <=
                                     counters[reason] + Cardinality(Bumps(reason)))'
    <3>1. RejectedFor(reason)' = RejectedFor(reason)
      BY <2>1, <2>10 DEF RejectedFor
    <3>2. PICK c, b, r, h, d, e, g, f :
            /\ c = counters[reason] /\ b = Cardinality(Bumps(reason))
            /\ r = Cardinality(RejectedFor(reason)) /\ h = Cardinality(Handled(reason))
            /\ d = Cardinality(DeadFor(reason)) /\ e = Cardinality(Bumps(reason)')
            /\ g = Cardinality(Handled(reason)') /\ f = Cardinality(DeadFor(reason)')
      OBVIOUS
    <3>3. /\ c \in Nat /\ b \in Nat /\ r \in Nat /\ h \in Nat /\ d \in Nat
          /\ e \in Nat /\ g \in Nat /\ f \in Nat
          /\ IsFiniteSet(Bumps(reason)) /\ IsFiniteSet(Handled(reason))
          /\ IsFiniteSet(DeadFor(reason)) /\ IsFiniteSet(RejectedFor(reason))
      BY <1>1, <2>9, <3>2, FiniteParts, FinitePartsNext DEF QueueTypes
    <3>4. c + b <= crashes * r + h /\ (crashes = 0 => d <= c + b)
      BY <3>2 DEF BumpsInv
    <3>5. crashes * r \in Nat
      BY <1>1, <3>3, TimesMonotone
    <3>6. CASE reason = cause
      <4>1. reason # None
        BY BoundsInNat
      <4>2. Bumps(reason)' = Bumps(reason) \cup {x} /\ x \notin Bumps(reason)
        BY <2>1, <2>5, <2>6, <2>7, <3>6, <4>1 DEF Bumps
      <4>3. Handled(reason)' = Handled(reason) \cup {position} /\ position \notin Handled(reason)
        <5>1. position \in RejectedFor(reason)
          BY <2>2, <2>3, <3>6 DEF RejectedFor
        <5>2. \A o \in RejectedFor(reason) : o \in Nat
          BY LenProperties DEF RejectedFor, QueueTypes
        <5>3. \A o \in RejectedFor(reason) : o < position + 1 <=> o < position \/ o = position
          BY <2>2, <5>2
        <5>4. /\ Handled(reason)' = {o \in RejectedFor(reason) : o < position + 1}
              /\ Handled(reason) = {o \in RejectedFor(reason) : o < position}
          BY <2>1, <3>1 DEF Handled
        <5>5. ~(position < position)
          BY <2>2
        <5> QED  BY <5>1, <5>3, <5>4, <5>5
      <4>4. DeadFor(reason)' \subseteq DeadFor(reason) \cup {position}
        BY <2>1, <3>1 DEF DeadFor
      <4>5. e = b + 1 /\ g = h + 1
        BY <3>2, <3>3, <4>2, <4>3, FS_AddElement
      <4>6. f <= d + 1
        <5>1. d <= d
          BY <3>3
        <5> QED  BY <3>2, <3>3, <4>4, <5>1, GrowsByOne
      <4>7. c + e <= crashes * r + g /\ (crashes = 0 => f <= c + e)
        BY ONLY <1>1, <3>3, <3>4, <3>5, <4>5, <4>6
      <4> QED  BY <2>1, <3>1, <3>2, <4>7
    <3>7. CASE reason # cause
      <4>1. \A call \in Emitted(position) : call.reason # reason
        BY <2>5, <2>6, <2>8, <3>7, BoundsInNat
      <4>2. Bumps(reason)' = Bumps(reason)
        BY <2>1, <4>1 DEF Bumps
      <4>3. Handled(reason) \subseteq Handled(reason)'
        <5>1. \A o \in RejectedFor(reason) : o \in Nat
          BY LenProperties DEF RejectedFor, QueueTypes
        <5>2. \A o \in RejectedFor(reason) : o < position => o < position + 1
          BY <2>2, <5>1
        <5> QED  BY <2>1, <3>1, <5>2 DEF Handled
      <4>4. DeadFor(reason)' = DeadFor(reason)
        BY <2>1, <2>3, <3>1, <3>7 DEF DeadFor, RejectedFor
      <4>5. h <= g
        BY <1>1, <2>9, <3>2, <4>3, FinitePartsNext, FS_Subset
      <4>6. c + e <= crashes * r + g /\ e = b /\ f = d
        <5>1. e = b /\ f = d
          BY <3>2, <4>2, <4>4
        <5> QED  BY ONLY <1>1, <3>3, <3>4, <3>5, <4>5, <5>1
      <4> QED  BY <2>1, <3>1, <3>2, <3>4, <4>6
    <3> QED  BY <3>6, <3>7
  <2> QED  BY <1>1, <2>9, <2>11, <2>12 DEF BumpsInv
<1>4. ASSUME NEW call \in inflight, Execute(call) PROVE BumpsInv'
  <2>1. /\ UNCHANGED <<topic, crashes, dlq, up, position>> /\ inflight' = inflight \ {call}
    BY <1>4, ExecuteFacts DEF consumerVars
  <2>2. now' = now
    BY <1>4 DEF Execute, ExecuteRecordTxn, ExecuteRecordMerchantTxn, BumpCounter, C!Record, M!Record
  <2>3. \/ /\ call.reason \in Reasons /\ counters' = [counters EXCEPT ![call.reason] = @ + 1]
        \/ call.reason = None /\ counters' = counters
    <3>1. CASE call.proc = "BumpCounter"
      <4>1. BumpCounter(call)
        BY <1>4, <3>1 DEF Execute, ExecuteRecordTxn, ExecuteRecordMerchantTxn
      <4> QED  BY <4>1, BumpFacts DEF BumpCounter
    <3>2. CASE call.proc # "BumpCounter"
      BY <1>4, <3>2 DEF Execute, ExecuteRecordTxn, ExecuteRecordMerchantTxn, BumpCounter,
                        QueueTypes, CallOK
    <3> QED  BY <3>1, <3>2
  <2>4. ASSUME NEW o PROVE Rejection(topic[o])' = Rejection(topic[o])
    BY <2>1, <2>2 DEF Rejection, IsLate
  <2>5. \A o \in dlq' : o \in DOMAIN topic' /\ Rejection(topic[o])' # None
    BY <2>1, <2>4 DEF BumpsInv
  <2>6. IsFiniteSet(inflight')
    BY <1>1, <2>1, FS_Subset
  <2>7. ASSUME NEW reason \in Reasons
        PROVE  /\ (counters[reason] + Cardinality(Bumps(reason)) <=
                     crashes * Cardinality(RejectedFor(reason)) + Cardinality(Handled(reason)))'
               /\ (crashes = 0 => Cardinality(DeadFor(reason)) <=
                                    counters[reason] + Cardinality(Bumps(reason)))'
    <3>1. RejectedFor(reason)' = RejectedFor(reason)
      BY <2>1, <2>4 DEF RejectedFor
    <3>2. Handled(reason)' = Handled(reason) /\ DeadFor(reason)' = DeadFor(reason)
      BY <2>1, <3>1 DEF Handled, DeadFor
    <3>3. PICK c, b, k, e : /\ c = counters[reason] /\ b = Cardinality(Bumps(reason))
                            /\ k = counters'[reason] /\ e = Cardinality(Bumps(reason)')
      OBVIOUS
    <3>4. /\ c \in Nat /\ b \in Nat /\ k \in Nat /\ e \in Nat /\ IsFiniteSet(Bumps(reason))
      BY <1>1, <2>6, <3>3, FiniteParts, FinitePartsNext DEF QueueTypes
    <3>5. c + b = k + e
      <4>1. CASE call.reason = reason
        <5>1. Bumps(reason)' = Bumps(reason) \ {call} /\ call \in Bumps(reason)
          BY <2>1, <4>1 DEF Bumps
        <5>2. e = b - 1
          BY <3>3, <3>4, <5>1, FS_RemoveElement
        <5>3. k = c + 1
          BY <2>3, <3>3, <4>1, BoundsInNat DEF QueueTypes
        <5> QED  BY ONLY <3>4, <5>2, <5>3
      <4>2. CASE call.reason # reason
        <5>1. Bumps(reason)' = Bumps(reason)
          BY <2>1, <4>2 DEF Bumps
        <5>2. k = c
          BY <2>3, <3>3, <4>2 DEF QueueTypes
        <5> QED  BY <3>3, <5>1, <5>2
      <4> QED  BY <4>1, <4>2
    <3> QED  BY <2>1, <3>1, <3>2, <3>3, <3>5 DEF BumpsInv
  <2> QED  BY <1>1, <2>5, <2>6, <2>7 DEF BumpsInv
<1>5. ASSUME NEW o, Commit(o) PROVE BumpsInv'
  BY <1>1, <1>5, QuietBumps DEF Commit
<1>6. ASSUME NEW survivors \in SUBSET inflight, Crash(survivors) PROVE BumpsInv'
  <2>1. /\ UNCHANGED <<topic, counters, dlq, now>> /\ crashes' = crashes + 1
        /\ inflight' = survivors /\ up' = FALSE
    BY <1>6 DEF Crash
  <2>2. ASSUME NEW o PROVE Rejection(topic[o])' = Rejection(topic[o])
    BY <2>1 DEF Rejection, IsLate
  <2>3. \A o \in dlq' : o \in DOMAIN topic' /\ Rejection(topic[o])' # None
    BY <2>1, <2>2 DEF BumpsInv
  <2>4. IsFiniteSet(inflight')
    BY <1>1, <2>1, FS_Subset
  <2>5. ASSUME NEW reason \in Reasons
        PROVE  (counters[reason] + Cardinality(Bumps(reason)) <=
                  crashes * Cardinality(RejectedFor(reason)) + Cardinality(Handled(reason)))'
    <3>1. RejectedFor(reason)' = RejectedFor(reason)
      BY <2>1, <2>2 DEF RejectedFor
    <3>2. PICK c, b, r, h, e, g :
            /\ c = counters[reason] /\ b = Cardinality(Bumps(reason))
            /\ r = Cardinality(RejectedFor(reason)) /\ h = Cardinality(Handled(reason))
            /\ e = Cardinality(Bumps(reason)') /\ g = Cardinality(Handled(reason)')
      OBVIOUS
    <3>3. /\ c \in Nat /\ b \in Nat /\ r \in Nat /\ h \in Nat /\ e \in Nat /\ g \in Nat
          /\ h <= r /\ IsFiniteSet(Bumps(reason))
      BY <1>1, <2>4, <3>2, FiniteParts, FinitePartsNext DEF QueueTypes
    <3>4. Bumps(reason)' \subseteq Bumps(reason)
      BY <2>1 DEF Bumps
    <3>5. e <= b
      BY <3>2, <3>3, <3>4, FS_Subset
    <3>6. c + b <= crashes * r + h
      BY <3>2 DEF BumpsInv
    <3>7. r <= r
      BY <3>3
    <3>8. (crashes + 1) * r = crashes * r + r /\ crashes * r \in Nat
      BY <1>1, <3>3, <3>7, TimesMonotone
    <3>9. c + e <= (crashes + 1) * r + g
      BY ONLY <3>3, <3>5, <3>6, <3>8
    <3> QED  BY <2>1, <3>1, <3>2, <3>9
  <2>6. crashes' # 0
    BY <1>1, <2>1
  <2> QED  BY <1>1, <2>3, <2>4, <2>5, <2>6 DEF BumpsInv
<1>7. CASE Restart
  BY <1>1, <1>7, QuietBumps DEF Restart
<1>8. CASE UNCHANGED <<consumerVars, topic, inflight, counters, dlq, crashes>>
  BY <1>1, <1>8, QuietBumps DEF consumerVars
<1> QED  BY <1>2, <1>3, <1>4, <1>5, <1>6, <1>7, <1>8, OtherSteps

----------------------------------------------------------------------------
LEMMA InitPipeline ==
  ASSUME Init
  PROVE  PipelineInv
<1>1. /\ raw = [k \in Customers \X Txns |-> None] /\ seen = [k \in Merchants \X Txns |-> None]
      /\ topic = <<>> /\ committed = None /\ origin = 1 /\ position = 1 /\ up = TRUE
      /\ inflight = {} /\ counters = [reason \in Reasons |-> 0] /\ dlq = {} /\ crashes = 0
  BY DEF Init, C!Keys, M!Keys
<1>2. topic \in Seq(Records) /\ Len(topic) = 0
  BY <1>1, EmptySeq
<1>3. QueueTypes
  <2>1. up \in BOOLEAN
    BY <1>1, Zenon
  <2> QED  BY <1>1, <1>2, <2>1 DEF QueueTypes
<1>4. RowsInv /\ CommitInv
  BY <1>1, FS_EmptySet DEF RowsInv, CommitInv
<1>5. PairsInv
  BY <1>1 DEF PairsInv, InFlight
<1>6. ASSUME NEW reason \in Reasons PROVE Cardinality(Settled(reason)) <= counters[reason]
  <2>1. Settled(reason) = {}
    BY <1>1 DEF Settled, Bound
  <2> QED  BY <1>1, <2>1, FS_EmptySet
<1>7. BumpsInv
  <2>1. now \in Nat /\ dlq = {}
    BY <1>1 DEF Init
  <2>2. ASSUME NEW reason \in Reasons
        PROVE  /\ counters[reason] + Cardinality(Bumps(reason)) <=
                    crashes * Cardinality(RejectedFor(reason)) + Cardinality(Handled(reason))
               /\ Cardinality(DeadFor(reason)) <= counters[reason] + Cardinality(Bumps(reason))
    <3>1. Bumps(reason) = {} /\ RejectedFor(reason) = {} /\ DeadFor(reason) = {}
      BY <1>1, <1>2 DEF Bumps, RejectedFor, DeadFor
    <3>2. Handled(reason) = {}
      BY <3>1 DEF Handled
    <3>3. Cardinality({}) = 0 /\ counters[reason] = 0 /\ crashes = 0
      BY <1>1, FS_EmptySet
    <3> QED  BY <3>1, <3>2, <3>3
  <2> QED  BY <1>1, <2>1, <2>2, FS_EmptySet DEF BumpsInv
<1> QED  BY <1>3, <1>4, <1>5, <1>6, <1>7 DEF PipelineInv, SettledInv

LEMMA StepPipeline ==
  ASSUME PipelineInv, [Next]_vars
  PROVE  PipelineInv'
<1>1. QueueTypes'
  BY StepQueue DEF PipelineInv
<1> QED  BY <1>1, StepRows, StepPairs, StepCommitted, StepSettled, StepBumps DEF PipelineInv

(* The queue, the rows of both tiers, the pairs of calls, the committed     *)
(* offset, what has been settled and what was counted, in every reachable   *)
(* state of the pipeline (TxnFeaturePipeline.handle and its consumer).      *)
THEOREM PipelineInvariant == Spec => []PipelineInv
BY InitPipeline, StepPipeline, PTL DEF Spec

LEMMA GreaterOfZero ==
  ASSUME NEW n \in Nat
  PROVE  Max({0, n}) = n
<1>1. n \in {0, n} /\ \A y \in {0, n} : n >= y
  OBVIOUS
<1>2. Max({0, n}) \in {0, n} /\ \A y \in {0, n} : Max({0, n}) >= y
  BY <1>1 DEF Max
<1> QED  BY <1>2

(* The console's lag is an honest one: the records since the origin that it *)
(* does not count are recorded in both tiers, or are no more than the       *)
(* counter of the reason they were rejected for (TxnFeaturePipeline.handle, *)
(* kafka.ts consumerLag), whatever the producers send, however the calls    *)
(* are delayed and whichever are lost with a crash.                         *)
THEOREM LagIsHonest == Spec => []CommittedIsAccounted
<1>1. ASSUME PipelineInv PROVE CommittedIsAccounted
  <2> USE <1>1 DEF PipelineInv
  <2> SUFFICES ASSUME Lag # None, NEW reason \in Reasons
               PROVE  Cardinality({o \in origin .. Len(topic) - Lag : Due(o) = reason})
                        <= counters[reason]
    BY DEF CommittedIsAccounted
  <2>1. committed # None
    BY DEF Lag
  <2>2. /\ committed \in Nat \ {0} /\ committed <= position /\ position <= Len(topic) + 1
        /\ origin \in Nat \ {0} /\ position \in Nat /\ Len(topic) \in Nat
    BY <2>1, LenProperties DEF CommitInv, QueueTypes
  <2>3. Len(topic) - Lag = committed - 1
    <3>1. Len(topic) + 1 - committed \in Nat
      BY <2>2
    <3>2. Lag = Len(topic) + 1 - committed
      BY <2>1, <3>1, GreaterOfZero DEF Lag
    <3> QED  BY <2>2, <3>2
  <2>4. committed <= Bound
    BY <2>1, <2>2 DEF Bound, Committed
  <2>5. {o \in origin .. committed - 1 : Due(o) = reason} \subseteq Settled(reason)
    BY <2>1, <2>2, <2>4, BoundFacts DEF Settled, CommitInv
  <2>6. IsFiniteSet(Settled(reason)) /\ Cardinality(Settled(reason)) <= counters[reason]
        /\ counters[reason] \in Nat
    BY BoundFacts DEF SettledInv, QueueTypes
  <2> QED  BY <2>3, <2>5, <2>6, StaysBelow
<1> QED  BY <1>1, PipelineInvariant, PTL

(* COUNTERS is the classification to go by (Hygiene.tsx, BumpCounter): it   *)
(* counts a reason no more than once for each rejected record and start of  *)
(* the pipeline, and until a crash no dead letter is without its bump.      *)
THEOREM CountersAreAuthoritativeAlways == Spec => []CountersAreAuthoritative
<1>1. ASSUME PipelineInv, NEW reason \in Reasons
      PROVE  /\ counters[reason] <= (1 + crashes) * Cardinality(RejectedFor(reason))
             /\ crashes = 0 => Cardinality(dlq \cap RejectedFor(reason)) <=
                                 counters[reason] + Cardinality(Bumps(reason))
  <2>1. QueueTypes /\ BumpsInv
    BY <1>1 DEF PipelineInv
  <2>2. PICK c, b, r, h : /\ c = counters[reason] /\ b = Cardinality(Bumps(reason))
                          /\ r = Cardinality(RejectedFor(reason))
                          /\ h = Cardinality(Handled(reason))
    OBVIOUS
  <2>3. /\ c \in Nat /\ b \in Nat /\ r \in Nat /\ h \in Nat /\ h <= r /\ crashes \in Nat
    BY <2>1, <2>2, FiniteParts DEF BumpsInv, QueueTypes
  <2>4. c + b <= crashes * r + h
    BY <1>1, <2>1, <2>2 DEF BumpsInv
  <2>5. (1 + crashes) * r = crashes * r + r /\ crashes * r \in Nat
    BY ONLY <2>3
  <2>6. c <= (1 + crashes) * r
    BY ONLY <2>3, <2>4, <2>5
  <2> QED  BY <1>1, <2>1, <2>2, <2>6 DEF BumpsInv, DeadFor
<1>2. PipelineInv => CountersAreAuthoritative
  BY <1>1 DEF CountersAreAuthoritative
<1> QED  BY <1>2, PipelineInvariant, PTL

----------------------------------------------------------------------------
(* Nothing is counted twice                                                 *)
(*                                                                          *)
(* Within the horizon no TTL passes, so a row that a tier has once stored   *)
(* is there for every later probe: a ledger has one fact of a key, a bucket *)
(* holds the facts of its time, and the facts of an owner are as many as    *)
(* their transactions, each of which is on the topic.                       *)

Starts(unit)   == {t \in 0 .. MaxTime : t % unit = 0}
FactOf(owners) == [key : owners \X Txns, at : 0 .. MaxTime, event : Payloads]

OwnFacts(L, o) == {x \in L : x.key[1] = o}
FactsIn(L, o, s, unit) == {x \in OwnFacts(L, o) : FloorTo(x.at, unit) = s}

LedgerOK(L, owners) ==
  /\ IsFiniteSet(L) /\ L \subseteq FactOf(owners)
  /\ \A x, y \in L : x.key = y.key => x = y

(* The rows of a table of buckets hold the facts of L.                      *)
RowHolds(row, filters, F) == IF row = None THEN F = {} ELSE BucketHolds(row, filters, F)
RowsHold(rows, L, owners, unit, filters) ==
  /\ rows \in [owners \X Starts(unit) -> BucketOf(filters) \cup {None}]
  /\ \A o \in owners, s \in Starts(unit) :
       RowHolds(rows[<<o, s>>], filters, FactsIn(L, o, s, unit))

(* What the instances of the tiers call by names of their own is the same.  *)
LEMMA CustomerOperators ==
  /\ C!PayloadType = PayloadType
  /\ C!CustomerFilters = CustomerFilters
  /\ \A filters : C!BucketOf(filters) = BucketOf(filters)
  /\ \A f, e : C!Matches(f, e) = Matches(f, e)
  /\ \A t, u : C!FloorTo(t, u) = FloorTo(t, u)
  /\ \A row, filters, e, d : C!Accumulated(row, filters, e, d) = Accumulated(row, filters, e, d)
  /\ \A S : C!Cardinality(S) = Cardinality(S)
  /\ \A f : C!SumFunction(f) = SumFunction(f)
<1>1. C!PayloadType = PayloadType
  BY DEF C!PayloadType, PayloadType, C!EventKinds, EventKinds, C!TxnTypes, TxnTypes,
         C!PayResults, PayResults
<1>2. C!CustomerFilters = CustomerFilters /\ \A filters : C!BucketOf(filters) = BucketOf(filters)
  BY DEF C!CustomerFilters, CustomerFilters, C!BucketOf, BucketOf
<1>3. \A f, e : C!Matches(f, e) = Matches(f, e)
  BY DEF C!Matches, Matches
<1>4. \A t, u : C!FloorTo(t, u) = FloorTo(t, u)
  BY DEF C!FloorTo, FloorTo
<1>5. \A row, filters, e, d : C!Accumulated(row, filters, e, d) = Accumulated(row, filters, e, d)
  BY DEF C!Accumulated, Accumulated, C!Attempted, Attempted, C!RowOrEmpty, RowOrEmpty,
         C!EmptyBucket, EmptyBucket, C!Absorbed, Absorbed, C!Matches, Matches,
         C!Smaller, Smaller, C!Larger, Larger
<1>6. \A S : C!Cardinality(S) = Cardinality(S)
  BY DEF C!Cardinality, Cardinality
<1>7. \A f : C!SumFunction(f) = SumFunction(f)
  BY DEF C!SumFunction, SumFunction, C!SumFunctionOnSet, SumFunctionOnSet,
         C!FoldFunctionOnSet, FoldFunctionOnSet, C!MapThenFoldSet, MapThenFoldSet
<1> QED  BY <1>1, <1>2, <1>3, <1>4, <1>5, <1>6, <1>7

LEMMA MerchantOperators ==
  /\ M!MerchantFilters = MerchantFilters
  /\ \A t, u : M!FloorTo(t, u) = FloorTo(t, u)
  /\ \A row, filters, e, d : M!Accumulated(row, filters, e, d) = Accumulated(row, filters, e, d)
<1>1. M!MerchantFilters = MerchantFilters
  BY DEF M!MerchantFilters, MerchantFilters
<1>2. \A t, u : M!FloorTo(t, u) = FloorTo(t, u)
  BY DEF M!FloorTo, FloorTo
<1>3. \A row, filters, e, d : M!Accumulated(row, filters, e, d) = Accumulated(row, filters, e, d)
  BY DEF M!Accumulated, Accumulated, M!Attempted, Attempted, M!RowOrEmpty, RowOrEmpty,
         M!EmptyBucket, EmptyBucket, M!Absorbed, Absorbed, M!Matches, Matches,
         M!Smaller, Smaller, M!Larger, Larger
<1> QED  BY <1>1, <1>2, <1>3

LEMMA LedgerFields ==
  ASSUME NEW owners, NEW L, LedgerOK(L, owners), NEW x \in L
  PROVE  /\ x.key[1] \in owners /\ x.key[2] \in Txns /\ x.key = <<x.key[1], x.key[2]>>
         /\ x.at \in 0 .. MaxTime /\ x.at \in Nat /\ x.event \in PayloadType
BY BoundsInNat, MessagesAssumption DEF LedgerOK, FactOf

(* A call that finds no row of its transaction counts a fact of a new key.  *)
LEMMA LedgerGrows ==
  ASSUME NEW owners, NEW L, LedgerOK(L, owners), NEW fact \in FactOf(owners),
         \A x \in L : x.key # fact.key
  PROVE  LedgerOK(L \cup {fact}, owners)
BY FS_AddElement DEF LedgerOK

(* A call rewrites the bucket of its event's own time.                      *)
LEMMA CallRewritesItsBucket ==
  ASSUME NEW owners, NEW L, LedgerOK(L, owners), NEW unit \in Nat \ {0}, NEW filters,
         None \notin BucketOf(filters), NEW rows, RowsHold(rows, L, owners, unit, filters),
         NEW fact \in FactOf(owners), NEW o, NEW b, o = fact.key[1], b = FloorTo(fact.at, unit),
         NEW duplicate \in BOOLEAN, duplicate \/ \A x \in L : x.key # fact.key,
         NEW after,
         after = [rows EXCEPT ![<<o, b>>] = Accumulated(@, filters, fact.event, duplicate)],
         NEW Z, Z = IF duplicate THEN L ELSE L \cup {fact}
  PROVE  RowsHold(after, Z, owners, unit, filters)
<1>1. /\ o \in owners /\ fact.at \in Nat /\ fact.at \in 0 .. MaxTime /\ MaxTime \in Nat
      /\ fact.event \in PayloadType
  BY BoundsInNat, MessagesAssumption DEF FactOf
<1>2. b \in Starts(unit)
  <2>1. b \in 0 .. fact.at /\ b % unit = 0
    BY <1>1, FloorBounds
  <2> QED  BY <1>1, <2>1 DEF Starts
<1>3. PICK row, new : row = rows[<<o, b>>] /\ new = Accumulated(row, filters, fact.event, duplicate)
  OBVIOUS
<1>4. row \in BucketOf(filters) \cup {None} /\ <<o, b>> \in owners \X Starts(unit)
  BY <1>1, <1>2, <1>3 DEF RowsHold
<1>5. new \in BucketOf(filters) /\ new # None
  BY <1>1, <1>3, <1>4, AccumulatedType
<1>6. /\ after[<<o, b>>] = new /\ after \in [owners \X Starts(unit) -> BucketOf(filters) \cup {None}]
      /\ \A k \in owners \X Starts(unit) : k # <<o, b>> => after[k] = rows[k]
  BY <1>3, <1>4, <1>5 DEF RowsHold
<1>7. ASSUME NEW p \in owners, NEW s \in Starts(unit), <<p, s>> # <<o, b>>
      PROVE  RowHolds(after[<<p, s>>], filters, FactsIn(Z, p, s, unit))
  <2>1. FactsIn(Z, p, s, unit) = FactsIn(L, p, s, unit)
    BY <1>7 DEF FactsIn, OwnFacts
  <2> QED  BY <1>6, <1>7, <2>1 DEF RowsHold
<1>8. RowHolds(new, filters, FactsIn(Z, o, b, unit))
  <2> PICK F : F = FactsIn(L, o, b, unit)
    OBVIOUS
  <2>1. IsFiniteSet(F) /\ F \subseteq L /\ \A x \in F : x.event \in PayloadType
    BY LedgerFields, FS_Subset DEF FactsIn, OwnFacts, LedgerOK
  <2>2. IF row = None THEN F = {} ELSE BucketHolds(row, filters, F)
    BY <1>1, <1>2, <1>3 DEF RowsHold, RowHolds
  <2>3. CASE duplicate
    <3>1. BucketHolds(Accumulated(row, filters, fact.event, TRUE), filters, F)
      BY <1>4, <2>2, RetryHolds
    <3> QED  BY <1>3, <1>5, <2>3, <3>1 DEF RowHolds
  <2>4. CASE ~duplicate
    <3>1. fact \notin F /\ FactsIn(Z, o, b, unit) = F \cup {fact}
      BY <2>1, <2>4 DEF FactsIn, OwnFacts
    <3>2. BucketHolds(Accumulated(row, filters, fact.event, FALSE), filters, F \cup {fact})
      BY <1>1, <1>4, <2>1, <2>2, <3>1, NewFactHolds
    <3> QED  BY <1>3, <1>5, <2>4, <3>1, <3>2 DEF RowHolds
  <2> QED  BY <2>3, <2>4
<1> QED  BY <1>6, <1>7, <1>8 DEF RowsHold

(* The buckets of an owner add up to the facts of the owner.                *)
LEMMA BucketsAddUp ==
  ASSUME NEW owners, NEW L, LedgerOK(L, owners), NEW unit \in Nat \ {0}, NEW filters,
         "txn" \in filters, NEW rows, RowsHold(rows, L, owners, unit, filters), NEW o \in owners
  PROVE  SumFunction([s \in {e \in Starts(unit) : rows[<<o, e>>] # None} |->
                        rows[<<o, s>>].count["txn"]])
           = Cardinality(Matching(OwnFacts(L, o), "txn"))
<1> PICK G, start, K, counts :
      /\ G = Matching(OwnFacts(L, o), "txn") /\ start = [x \in G |-> FloorTo(x.at, unit)]
      /\ K = {e \in Starts(unit) : rows[<<o, e>>] # None}
      /\ counts = [s \in K |-> rows[<<o, s>>].count["txn"]]
  OBVIOUS
<1>1. G \subseteq L /\ IsFiniteSet(G)
  BY FS_Subset DEF Matching, OwnFacts, LedgerOK
<1>2. IsFiniteSet(K)
  <2>1. IsFiniteSet(0 .. MaxTime)
    BY BoundsInNat, FS_Interval
  <2> QED  BY <2>1, FS_Subset DEF Starts
<1>3. ASSUME NEW x \in G PROVE start[x] \in K
  <2>1. x.at \in Nat /\ x.at <= MaxTime /\ MaxTime \in Nat
    BY <1>1, LedgerFields, BoundsInNat
  <2>2. PICK s : s = FloorTo(x.at, unit) /\ s \in 0 .. x.at /\ s % unit = 0
    BY <2>1, FloorBounds
  <2>3. s \in Starts(unit)
    BY <2>1, <2>2 DEF Starts
  <2>4. x \in FactsIn(L, o, s, unit)
    BY <1>3, <2>2 DEF FactsIn, Matching
  <2>5. rows[<<o, s>>] # None
    BY <2>3, <2>4 DEF RowsHold, RowHolds
  <2> QED  BY <2>2, <2>3, <2>5
<1>4. Parts(G, start, K) = G
  BY <1>3 DEF Parts
<1>5. ASSUME NEW s \in K PROVE counts[s] = Cardinality(Part(G, start, s))
  <2>1. Part(G, start, s) = Matching(FactsIn(L, o, s, unit), "txn")
    BY DEF Part, Matching, FactsIn
  <2>2. BucketHolds(rows[<<o, s>>], filters, FactsIn(L, o, s, unit))
    BY DEF RowsHold, RowHolds
  <2> QED  BY <2>1, <2>2 DEF BucketHolds
<1>6. SumFunctionOnSet(counts, K) = Cardinality(Parts(G, start, K))
  BY ONLY <1>1, <1>2, <1>5, CountOfParts
<1> QED  BY <1>4, <1>6 DEF SumFunction

(* The facts of an owner are no more than the transactions they are of.     *)
LEMMA OneFactEach ==
  ASSUME NEW owners, NEW L, LedgerOK(L, owners), NEW o, NEW T, IsFiniteSet(T),
         \A x \in Matching(OwnFacts(L, o), "txn") : x.key[2] \in T
  PROVE  Cardinality(Matching(OwnFacts(L, o), "txn")) <= Cardinality(T)
<1> PICK G, txn, U : /\ G = Matching(OwnFacts(L, o), "txn")
                     /\ txn = [x \in G |-> x.key[2]] /\ U = {txn[x] : x \in G}
  OBVIOUS
<1>1. G \subseteq L /\ IsFiniteSet(G) /\ \A x \in G : x.key[1] = o
  BY FS_Subset DEF Matching, OwnFacts, LedgerOK
<1>2. txn \in Injection(G, U) /\ txn \in Surjection(G, U)
  <2>1. \A x, y \in G : txn[x] = txn[y] => x = y
    BY <1>1, LedgerFields DEF LedgerOK
  <2>2. txn \in [G -> U] /\ \A u \in U : \E x \in G : txn[x] = u
    OBVIOUS
  <2>3. txn \in Injection(G, U)
    BY <2>1, <2>2 DEF Injection, IsInjective
  <2>4. txn \in Surjection(G, U)
    BY <2>2 DEF Surjection
  <2> QED  BY <2>3, <2>4
<1>3. Cardinality(U) = Cardinality(G)
  BY <1>1, <1>2, FS_Surjection
<1>4. U \subseteq T
  OBVIOUS
<1>5. Cardinality(U) <= Cardinality(T)
  BY <1>4, FS_Subset
<1> QED  BY <1>3, <1>5

CustomerRecord(x) ==
  \E o \in DOMAIN topic : /\ topic[o].form = "ok" /\ x.event = topic[o].event
                          /\ x.key = <<topic[o].cust, topic[o].txn>>
MerchantRecord(x) ==
  \E o \in DOMAIN topic : /\ topic[o].form = "ok" /\ x.event = topic[o].event
                          /\ x.key = <<topic[o].event.merchant, topic[o].txn>>

TimesInv == \A o \in DOMAIN topic : topic[o].at \in 0 .. MaxTime

ProfileHolds(row, F) == IF row = None THEN F = {} ELSE row.lifeCount = Cardinality(F)

(* No row is lost, and all of a tier's rows tell of the same facts.         *)
CustomerInv ==
  /\ raw \in [Customers \X Txns -> C!RawRow \cup {None}]
  /\ profile \in [Customers -> C!ProfileRow \cup {None}]
  /\ LedgerOK(customerLedger, Customers)
  /\ \A x \in customerLedger : raw[x.key] # None /\ CustomerRecord(x)
  /\ RowsHold(daily, customerLedger, Customers, Day, CustomerFilters)
  /\ \A c \in Customers :
       ProfileHolds(profile[c], Matching(OwnFacts(customerLedger, c), "txn"))
MerchantInv ==
  /\ seen \in [Merchants \X Txns -> Nat \cup {None}]
  /\ LedgerOK(merchantLedger, Merchants)
  /\ \A x \in merchantLedger : seen[x.key] # None /\ MerchantRecord(x)
  /\ RowsHold(buckets, merchantLedger, Merchants, Minute, MerchantFilters)

CountsInv == TimesInv /\ CustomerInv /\ MerchantInv

(* The profile that a call of RecordTxn writes is a row.                    *)
LEMMA ProfileIsARow ==
  ASSUME NEW R, R \in [Customers \X Txns -> C!RawRow \cup {None}], NEW L, IsFiniteSet(L),
         \A k \in Customers \X Txns : R[k] # None => \E x \in L : x.key = k,
         NEW c \in Customers, NEW at \in 0 .. MaxTime, NEW e \in PayloadType,
         NEW duplicate \in BOOLEAN, profile \in [Customers -> C!ProfileRow \cup {None}]
  PROVE  C!ProfileAfter(c, R, at, e, duplicate) \in C!ProfileRow
<1> PICK T, p, second : /\ T = C!Rows24h(R, c, at) /\ second = [x \in L |-> x.key[2]]
                        /\ p = C!ProfileAfter(c, R, at, e, duplicate)
  OBVIOUS
<1> PICK U, amounts : /\ U = {second[x] : x \in L}
                      /\ amounts = [t \in T |-> R[<<c, t>>].event.amount]
  OBVIOUS
<1>1. IsFiniteSet(U)
  <2>1. second \in [L -> U] /\ \A u \in U : \E x \in L : second[x] = u
    OBVIOUS
  <2>2. second \in Surjection(L, U)
    BY <2>1 DEF Surjection
  <2> QED  BY <2>2, FS_Surjection
<1>2. T \subseteq U
  <2>1. ASSUME NEW t \in T PROVE t \in U
    <3>1. t \in Txns /\ R[<<c, t>>] # None
      BY <2>1 DEF C!Rows24h
    <3>2. PICK x \in L : x.key = <<c, t>>
      BY <3>1
    <3>3. second[x] = t
      BY <3>2
    <3> QED  BY <3>3
  <2> QED  BY <2>1
<1>3. IsFiniteSet(T) /\ Cardinality(T) \in Nat
  BY <1>1, <1>2, FS_Subset, FS_CardinalityType
<1>4. \A t \in T : amounts[t] \in Nat
  <2>1. ASSUME NEW t \in T PROVE amounts[t] \in Nat
    <3>1. <<c, t>> \in Customers \X Txns /\ R[<<c, t>>] # None
      BY <2>1 DEF C!Rows24h
    <3>2. R[<<c, t>>] \in C!RawRow
      BY <3>1
    <3>3. R[<<c, t>>].event \in PayloadType
      BY <3>2, CustomerOperators DEF C!RawRow
    <3> QED  BY <2>1, <3>3 DEF PayloadType
  <2> QED  BY <2>1
<1>5. PICK n, sum : n = Cardinality(T) /\ sum = SumFunction(amounts) /\ n \in Nat /\ sum \in Nat
  BY <1>3, <1>4, SumInNat DEF SumFunction
<1>6. C!AvgTicket(sum, n) \in Nat \cup {None}
  <2>1. CASE n = 0
    BY <2>1 DEF C!AvgTicket
  <2>2. CASE n # 0
    <3>1. PICK a \in Nat : a = 2 * sum * AvgScale
      <4>1. AvgScale \in Nat
        BY TiersAssumption
      <4>2. PICK s2 \in Nat : s2 = 2 * sum
        <5>1. sum \in Nat
          BY <1>5
        <5> QED  BY ONLY <5>1
      <4>3. s2 * AvgScale \in Nat
        BY <4>1, <4>2, SMT
      <4> QED  BY <4>2, <4>3
    <3>2. PICK u \in Nat, v \in Nat \ {0} : u = a + n /\ v = 2 * n
      BY <1>5, <2>2
    <3>3. u \div v \in Nat
      BY QuotientAndRest
    <3> QED  BY <2>2, <3>1, <3>2, <3>3 DEF C!AvgTicket
  <2> QED  BY <2>1, <2>2
<1>7. /\ p.count24 = n /\ p.sum24 = sum /\ p.avg = C!AvgTicket(sum, n)
  <2>1. C!SumFunction(amounts) = sum /\ C!Cardinality(T) = n
    BY <1>5, CustomerOperators
  <2>2. amounts = [t \in C!Rows24h(R, c, at) |-> R[<<c, t>>].event.amount]
    OBVIOUS
  <2> QED  BY <2>1, <2>2 DEF C!ProfileAfter
<1>8. /\ p.firstSeen \in 0 .. MaxTime /\ p.lastTxnAt \in 0 .. MaxTime
      /\ p.lastCity \in Cities \cup {None} /\ p.lifeCount \in Nat /\ p.lifeSum \in Nat
  <2>1. profile[c] = None \/ profile[c] \in C!ProfileRow
    OBVIOUS
  <2>2. e.amount \in Nat /\ e.city \in Cities \cup {None}
    BY DEF PayloadType
  <2> QED  BY <2>1, <2>2 DEF C!ProfileAfter, C!ProfileRow, C!Time
<1> QED  BY <1>5, <1>6, <1>7, <1>8 DEF C!ProfileAfter, C!ProfileRow, C!Time

LEMMA CustomerCall ==
  ASSUME QueueTypes, RowsInv, TimesInv, CustomerInv,
         NEW call \in inflight, ExecuteRecordTxn(call)
  PROVE  CustomerInv'
<1> PICK r, c, k, e, at, fact, duplicate, b, p, row :
      /\ r = topic[call.offset] /\ c = r.cust /\ k = <<c, r.txn>> /\ e = r.event /\ at = r.at
      /\ fact = [key |-> k, at |-> at, event |-> e] /\ duplicate = C!IsDuplicate(c, r.txn)
      /\ b = FloorTo(at, Day) /\ p = C!ProfileAfter(c, raw', at, e, duplicate)
      /\ row = IF duplicate THEN C!Retried(raw[k], at, e) ELSE C!Inserted(at, e)
  OBVIOUS
<1>1. /\ call.offset \in DOMAIN topic /\ r.form = "ok" /\ c \in Customers
      /\ k \in Customers \X Txns /\ at \in 0 .. MaxTime /\ e \in Payloads /\ e \in PayloadType
  <2>1. call.offset \in DOMAIN topic /\ r.form = "ok"
    BY DEF QueueTypes, CallOK, ExecuteRecordTxn
  <2>2. c \in Customers /\ r.txn \in Txns /\ r \in Records
    BY <2>1, RecordFields
  <2> QED  BY <2>1, <2>2, MessagesAssumption DEF TimesInv, Records
<1>2. /\ duplicate = (raw[k] # None) /\ duplicate \in BOOLEAN
      /\ raw' = [raw EXCEPT ![k] = row]
      /\ daily' = [daily EXCEPT ![<<c, b>>] = Accumulated(@, CustomerFilters, e, duplicate)]
      /\ profile' = [profile EXCEPT ![c] = p]
      /\ customerLedger' = IF duplicate THEN customerLedger ELSE customerLedger \cup {fact}
      /\ topic' = topic
  <2>1. C!Record(r.cust, r.txn, r.at, r.event) /\ topic' = topic
    BY DEF ExecuteRecordTxn
  <2>2. raw' = C!RawAfter(c, r.txn, at, e, duplicate)
    BY <2>1 DEF C!Record
  <2>3. raw' = [raw EXCEPT ![k] = row]
    BY <2>2 DEF C!RawAfter
  <2>4. daily' = [daily EXCEPT ![<<c, b>>] = Accumulated(@, CustomerFilters, e, duplicate)]
    BY <2>1, CustomerOperators DEF C!Record
  <2>5. profile' = [profile EXCEPT ![c] = p]
    BY <2>1 DEF C!Record
  <2>6. customerLedger' = IF duplicate THEN customerLedger ELSE customerLedger \cup {fact}
    BY <2>1 DEF C!Record
  <2>7. duplicate = (raw[k] # None) /\ duplicate \in BOOLEAN
    BY DEF C!IsDuplicate
  <2> QED  BY <2>1, <2>3, <2>4, <2>5, <2>6, <2>7, Zenon
<1>3. row \in C!RawRow /\ row # None
  <2>1. CASE duplicate
    <3>1. raw[k] \in C!RawRow
      BY <1>1, <1>2, <2>1 DEF CustomerInv
    <3>2. /\ raw[k].at \in C!Time /\ raw[k].attempts \in Nat /\ raw[k].event \in PayloadType
      BY <3>1, CustomerOperators DEF C!RawRow
    <3>3. [raw[k].event EXCEPT !.result = e.result] \in PayloadType
      BY <1>1, <3>2 DEF PayloadType
    <3>4. row \in C!RawRow
      BY <1>1, <2>1, <3>2, <3>3, CustomerOperators DEF C!Retried, C!RawRow, C!Time
    <3> QED  BY <3>4, TiersAssumption
  <2>2. CASE ~duplicate
    <3>1. row \in C!RawRow
      BY <1>1, <2>2, CustomerOperators DEF C!Inserted, C!RawRow, C!Time
    <3> QED  BY <3>1, TiersAssumption
  <2> QED  BY <1>2, <2>1, <2>2
<1>4. /\ raw' \in [Customers \X Txns -> C!RawRow \cup {None}] /\ raw'[k] = row
      /\ \A j \in Customers \X Txns : j # k => raw'[j] = raw[j]
  BY <1>1, <1>2, <1>3 DEF CustomerInv
<1>5. fact \in FactOf(Customers) /\ fact.key = k /\ fact.key[1] = c /\ fact.event = e /\ fact.at = at
  BY <1>1 DEF FactOf
<1>6. duplicate \/ \A x \in customerLedger : x.key # fact.key
  BY <1>2, <1>5 DEF CustomerInv
<1>7. LedgerOK(customerLedger', Customers)
  BY <1>2, <1>5, <1>6, LedgerGrows DEF CustomerInv
<1>8. ASSUME NEW x \in customerLedger' PROVE raw'[x.key] # None /\ CustomerRecord(x)'
  <2>1. CASE x \in customerLedger
    <3>1. x.key \in Customers \X Txns
      BY <2>1 DEF CustomerInv, LedgerOK, FactOf
    <3> QED  BY <1>2, <1>3, <1>4, <2>1, <3>1 DEF CustomerInv, CustomerRecord
  <2>2. CASE x = fact
    BY <1>1, <1>2, <1>3, <1>4, <1>5, <2>2 DEF CustomerRecord
  <2> QED  BY <1>2, <2>1, <2>2
<1>9. RowsHold(daily', customerLedger', Customers, Day, CustomerFilters)
  <2> PICK after, Z : after = daily' /\ Z = customerLedger'
    OBVIOUS
  <2>1. /\ c = fact.key[1] /\ b = FloorTo(fact.at, Day)
        /\ after = [daily EXCEPT ![<<c, b>>] =
                       Accumulated(@, CustomerFilters, fact.event, duplicate)]
        /\ Z = IF duplicate THEN customerLedger ELSE customerLedger \cup {fact}
    BY <1>2, <1>5
  <2>2. /\ LedgerOK(customerLedger, Customers) /\ Day \in Nat \ {0}
        /\ RowsHold(daily, customerLedger, Customers, Day, CustomerFilters)
        /\ None \notin BucketOf(CustomerFilters)
    BY TiersAssumption DEF CustomerInv
  <2>3. RowsHold(after, Z, Customers, Day, CustomerFilters)
    BY ONLY <1>2, <1>5, <1>6, <2>1, <2>2, CallRewritesItsBucket
  <2> QED  BY <2>3
<1>10. p \in C!ProfileRow /\ p # None
  <2> PICK R, L : R = raw' /\ L = customerLedger'
    OBVIOUS
  <2>1. \A j \in Customers \X Txns : R[j] # None => \E x \in L : x.key = j
    BY RecordTxnFacts DEF RowsInv
  <2>2. C!ProfileAfter(c, R, at, e, duplicate) \in C!ProfileRow
    <3>1. /\ IsFiniteSet(L) /\ profile \in [Customers -> C!ProfileRow \cup {None}]
          /\ R \in [Customers \X Txns -> C!RawRow \cup {None}]
      BY <1>4, <1>7 DEF CustomerInv, LedgerOK
    <3> QED  BY ONLY <1>1, <1>2, <2>1, <3>1, ProfileIsARow
  <2> QED  BY <2>2, TiersAssumption
<1>11. profile' \in [Customers -> C!ProfileRow \cup {None}] /\ profile'[c] = p
       /\ \A o \in Customers : o # c => profile'[o] = profile[o]
  BY <1>1, <1>2, <1>10 DEF CustomerInv
<1>12. ASSUME NEW o \in Customers
       PROVE  ProfileHolds(profile'[o], Matching(OwnFacts(customerLedger', o), "txn"))
  <2> PICK F, G : /\ F = Matching(OwnFacts(customerLedger, o), "txn")
                  /\ G = Matching(OwnFacts(customerLedger', o), "txn")
    OBVIOUS
  <2>1. IsFiniteSet(F) /\ Cardinality(F) \in Nat /\ F \subseteq customerLedger
    BY FS_Subset, FS_CardinalityType DEF CustomerInv, LedgerOK, Matching, OwnFacts
  <2>2. ProfileHolds(profile[o], F)
    BY DEF CustomerInv
  <2>3. CASE o # c
    <3>1. F = G
      BY <1>2, <1>5, <2>3 DEF Matching, OwnFacts
    <3> QED  BY <1>11, <2>2, <2>3, <3>1
  <2>4. CASE o = c
    <3>1. PICK n : /\ n = IF profile[c] = None THEN 0 ELSE profile[c].lifeCount
                   /\ p.lifeCount = n + (IF ~duplicate /\ Matches("txn", e) THEN 1 ELSE 0)
      BY CustomerOperators DEF C!ProfileAfter
    <3>2. n = Cardinality(F)
      BY <2>2, <2>4, <3>1, FS_EmptySet DEF ProfileHolds
    <3>3. CASE ~duplicate /\ Matches("txn", e)
      <4>1. G = F \cup {fact}
        BY <1>2, <1>5, <2>4, <3>3 DEF Matching, OwnFacts
      <4>2. fact \notin F
        BY <1>6, <2>1, <3>3
      <4>3. Cardinality(G) = Cardinality(F) + 1
        BY <2>1, <4>1, <4>2, FS_AddElement
      <4> QED  BY <1>10, <1>11, <2>4, <3>1, <3>2, <3>3, <4>3 DEF ProfileHolds
    <3>4. CASE ~(~duplicate /\ Matches("txn", e))
      <4>1. G = F
        BY <1>2, <1>5, <3>4 DEF Matching, OwnFacts
      <4>2. p.lifeCount = Cardinality(G)
        BY <2>1, <3>1, <3>2, <3>4, <4>1
      <4> QED  BY <1>10, <1>11, <2>4, <4>2 DEF ProfileHolds
    <3> QED  BY <3>3, <3>4
  <2> QED  BY <2>3, <2>4
<1> QED  BY <1>4, <1>7, <1>8, <1>9, <1>11, <1>12 DEF CustomerInv

LEMMA MerchantCall ==
  ASSUME QueueTypes, RowsInv, TimesInv, MerchantInv,
         NEW call \in inflight, ExecuteRecordMerchantTxn(call)
  PROVE  MerchantInv'
<1> PICK r, m, k, e, at, fact, duplicate, b :
      /\ r = topic[call.offset] /\ e = r.event /\ m = e.merchant /\ k = <<m, r.txn>> /\ at = r.at
      /\ fact = [key |-> k, at |-> at, event |-> e] /\ duplicate = M!Seen(m, r.txn)
      /\ b = FloorTo(at, Minute)
  OBVIOUS
<1>1. /\ call.offset \in DOMAIN topic /\ r.form = "ok" /\ m \in Merchants
      /\ k \in Merchants \X Txns /\ at \in 0 .. MaxTime /\ at \in Nat /\ at # None
      /\ e \in Payloads
  <2>1. call.offset \in DOMAIN topic /\ r.form = "ok" /\ m # None
    BY DEF QueueTypes, CallOK, ExecuteRecordMerchantTxn
  <2>2. m \in Merchants /\ r.txn \in Txns /\ r \in Records
    BY <2>1, RecordFields
  <2> QED  BY <2>1, <2>2, BoundsInNat, NoneAssumption DEF TimesInv, Records
<1>2. /\ duplicate = (seen[k] # None) /\ duplicate \in BOOLEAN
      /\ seen' = IF duplicate THEN seen ELSE [seen EXCEPT ![k] = at]
      /\ buckets' = [buckets EXCEPT ![<<m, b>>] = Accumulated(@, MerchantFilters, e, duplicate)]
      /\ merchantLedger' = IF duplicate THEN merchantLedger ELSE merchantLedger \cup {fact}
      /\ topic' = topic
  <2>1. M!Record(r.event.merchant, r.txn, r.at, r.event) /\ topic' = topic
    BY DEF ExecuteRecordMerchantTxn
  <2>2. seen' = IF duplicate THEN seen ELSE [seen EXCEPT ![k] = at]
    BY <2>1 DEF M!Record, M!SeenAfter
  <2>3. buckets' = [buckets EXCEPT ![<<m, b>>] = Accumulated(@, MerchantFilters, e, duplicate)]
    BY <2>1, MerchantOperators DEF M!Record
  <2>4. merchantLedger' = IF duplicate THEN merchantLedger ELSE merchantLedger \cup {fact}
    BY <2>1 DEF M!Record
  <2>5. duplicate = (seen[k] # None) /\ duplicate \in BOOLEAN
    BY DEF M!Seen
  <2> QED  BY <2>1, <2>2, <2>3, <2>4, <2>5, Zenon
<1>3. /\ seen' \in [Merchants \X Txns -> Nat \cup {None}] /\ seen'[k] # None
      /\ \A j \in Merchants \X Txns : seen[j] # None => seen'[j] # None
  BY <1>1, <1>2 DEF MerchantInv
<1>4. /\ fact \in FactOf(Merchants) /\ fact.key = k /\ fact.key[1] = m /\ fact.event = e
      /\ fact.at = at
  BY <1>1 DEF FactOf
<1>5. duplicate \/ \A x \in merchantLedger : x.key # fact.key
  BY <1>2, <1>4 DEF MerchantInv
<1>6. LedgerOK(merchantLedger', Merchants)
  BY <1>2, <1>4, <1>5, LedgerGrows DEF MerchantInv
<1>7. ASSUME NEW x \in merchantLedger' PROVE seen'[x.key] # None /\ MerchantRecord(x)'
  <2>1. CASE x \in merchantLedger
    <3>1. x.key \in Merchants \X Txns
      BY <2>1 DEF MerchantInv, LedgerOK, FactOf
    <3> QED  BY <1>2, <1>3, <2>1, <3>1 DEF MerchantInv, MerchantRecord
  <2>2. CASE x = fact
    BY <1>1, <1>2, <1>3, <1>4, <2>2 DEF MerchantRecord
  <2> QED  BY <1>2, <2>1, <2>2
<1>8. RowsHold(buckets', merchantLedger', Merchants, Minute, MerchantFilters)
  <2> PICK after, Z : after = buckets' /\ Z = merchantLedger'
    OBVIOUS
  <2>1. /\ m = fact.key[1] /\ b = FloorTo(fact.at, Minute)
        /\ after = [buckets EXCEPT ![<<m, b>>] =
                       Accumulated(@, MerchantFilters, fact.event, duplicate)]
        /\ Z = IF duplicate THEN merchantLedger ELSE merchantLedger \cup {fact}
    BY <1>2, <1>4
  <2>2. /\ LedgerOK(merchantLedger, Merchants) /\ Minute \in Nat \ {0}
        /\ RowsHold(buckets, merchantLedger, Merchants, Minute, MerchantFilters)
        /\ None \notin BucketOf(MerchantFilters)
    BY TiersAssumption DEF MerchantInv
  <2>3. RowsHold(after, Z, Merchants, Minute, MerchantFilters)
    BY ONLY <1>2, <1>4, <1>5, <2>1, <2>2, CallRewritesItsBucket
  <2> QED  BY <2>3
<1> QED  BY <1>3, <1>6, <1>7, <1>8 DEF MerchantInv

LEMMA InitCounts ==
  ASSUME Init
  PROVE  CountsInv
<1>1. /\ raw = [k \in Customers \X Txns |-> None] /\ seen = [k \in Merchants \X Txns |-> None]
      /\ daily = [k \in Customers \X Starts(Day) |-> None]
      /\ buckets = [k \in Merchants \X Starts(Minute) |-> None]
      /\ profile = [c \in Customers |-> None] /\ customerLedger = {} /\ merchantLedger = {}
      /\ topic = <<>>
  BY DEF Init, C!Keys, M!Keys, C!Days, M!Minutes, C!Time, M!Time, Starts
<1>2. \A owners : LedgerOK({}, owners)
  BY FS_EmptySet DEF LedgerOK
<1>3. \A o, s, unit : FactsIn({}, o, s, unit) = {} /\ Matching(OwnFacts({}, o), "txn") = {}
  BY DEF FactsIn, Matching, OwnFacts
<1>4. RowsHold(daily, customerLedger, Customers, Day, CustomerFilters)
  BY <1>1, <1>3 DEF RowsHold, RowHolds
<1>5. RowsHold(buckets, merchantLedger, Merchants, Minute, MerchantFilters)
  BY <1>1, <1>3 DEF RowsHold, RowHolds
<1>6. CustomerInv
  BY <1>1, <1>2, <1>3, <1>4 DEF CustomerInv, ProfileHolds
<1>7. MerchantInv
  BY <1>1, <1>2, <1>5 DEF MerchantInv
<1>8. TimesInv
  BY <1>1 DEF TimesInv
<1> QED  BY <1>6, <1>7, <1>8 DEF CountsInv

(* A step that leaves the tiers alone keeps what they tell of the topic.    *)
LEMMA QuietCounts ==
  ASSUME CountsInv, UNCHANGED <<customerVars, merchantVars>>,
         \A o \in DOMAIN topic : o \in DOMAIN topic' /\ topic'[o] = topic[o], TimesInv'
  PROVE  CountsInv'
<1>1. \A x \in customerLedger : CustomerRecord(x)'
  BY DEF CountsInv, CustomerInv, CustomerRecord
<1>2. \A x \in merchantLedger : MerchantRecord(x)'
  BY DEF CountsInv, MerchantInv, MerchantRecord
<1>3. CustomerInv'
  BY <1>1 DEF CountsInv, CustomerInv, customerVars
<1>4. MerchantInv'
  BY <1>2 DEF CountsInv, MerchantInv, merchantVars
<1> QED  BY <1>3, <1>4 DEF CountsInv

LEMMA StepCounts ==
  ASSUME QueueTypes, RowsInv, CountsInv, [Next]_vars
  PROVE  CountsInv'
<1>1. ASSUME UNCHANGED <<customerVars, merchantVars, topic>> PROVE CountsInv'
  <2>1. TimesInv'
    BY <1>1 DEF CountsInv, TimesInv
  <2> QED  BY <1>1, <2>1, QuietCounts
<1>2. ASSUME NEW msg \in Messages, NEW at \in 0 .. MaxTime, Produce(msg, at) PROVE CountsInv'
  <2>1. /\ topic \in Seq(Records) /\ DOMAIN topic = 1 .. Len(topic) /\ Len(topic) \in Nat
        /\ topic' \in Seq(Records) /\ Len(topic') = Len(topic) + 1
        /\ DOMAIN topic' = 1 .. Len(topic')
        /\ \A o \in DOMAIN topic : o \in DOMAIN topic' /\ topic'[o] = topic[o]
    BY <1>2, ProduceFacts, LenProperties DEF QueueTypes
  <2>2. topic'[Len(topic) + 1].at = at
    BY <1>2, <2>1, AppendProperties DEF Produce
  <2>3. TimesInv'
    <3>1. \A o \in DOMAIN topic' : o \in DOMAIN topic \/ o = Len(topic) + 1
      BY <2>1
    <3> QED  BY <2>1, <2>2, <3>1 DEF CountsInv, TimesInv
  <2> QED  BY <1>2, <2>1, <2>3, QuietCounts DEF Produce
<1>3. ASSUME NEW call \in inflight, Execute(call) PROVE CountsInv'
  <2>1. topic' = topic
    BY <1>3, ExecuteFacts
  <2>2. TimesInv'
    BY <2>1 DEF CountsInv, TimesInv
  <2>3. CASE ExecuteRecordTxn(call)
    <3>1. UNCHANGED merchantVars /\ CustomerInv'
      BY <2>3, RecordTxnFacts, CustomerCall DEF CountsInv
    <3>2. MerchantInv'
      BY <2>1, <3>1 DEF CountsInv, MerchantInv, MerchantRecord, merchantVars
    <3> QED  BY <2>2, <3>1, <3>2 DEF CountsInv
  <2>4. CASE ExecuteRecordMerchantTxn(call)
    <3>1. UNCHANGED customerVars /\ MerchantInv'
      BY <2>4, RecordMerchantTxnFacts, MerchantCall DEF CountsInv
    <3>2. CustomerInv'
      BY <2>1, <3>1 DEF CountsInv, CustomerInv, CustomerRecord, customerVars
    <3> QED  BY <2>2, <3>1, <3>2 DEF CountsInv
  <2>5. CASE BumpCounter(call)
    BY <1>1, <2>5, BumpFacts
  <2> QED  BY <1>3, <2>3, <2>4, <2>5 DEF Execute
<1>4. ASSUME NEW o, Commit(o) PROVE CountsInv'
  BY <1>1, <1>4 DEF Commit
<1>5. ASSUME NEW survivors, Crash(survivors) PROVE CountsInv'
  BY <1>1, <1>5 DEF Crash
<1>6. CASE Handle \/ Restart
  BY <1>1, <1>6 DEF Handle, Restart
<1> QED  BY <1>1, <1>2, <1>3, <1>4, <1>5, <1>6, OtherSteps

LEMMA CountsAlways == Spec => []CountsInv
<1>1. Init => CountsInv
  BY InitCounts
<1>2. PipelineInv /\ CountsInv /\ [Next]_vars => CountsInv'
  BY StepCounts DEF PipelineInv
<1> QED  BY <1>1, <1>2, PipelineInvariant, PTL DEF Spec

LEMMA OffsetsFinite ==
  ASSUME QueueTypes
  PROVE  IsFiniteSet(DOMAIN topic)
BY LenProperties, FS_Interval DEF QueueTypes

(* Retries, redelivered records and calls that execute after a crash are    *)
(* counted once: the lifetime count of a profile is the sum of the daily    *)
(* buckets, and no more than the customer's transactions on the topic       *)
(* (TxnFeaturePipeline.handle, RecordTxn).                                  *)
THEOREM CustomersAreNotOvercounted == Spec => []CustomerNeverOvercounts
<1>1. ASSUME PipelineInv, CountsInv PROVE CustomerNeverOvercounts
  <2> SUFFICES ASSUME NEW c \in Customers, profile[c] # None
               PROVE  LET counted == SumFunction([d \in {e \in C!Days : daily[<<c, e>>] # None} |->
                                                    daily[<<c, d>>].count["txn"]])
                      IN  /\ profile[c].lifeCount = counted
                          /\ counted <= Cardinality(TxnsOf(LAMBDA r : r.cust = c
                                                                     /\ r.event.kind = "TXN"))
    BY DEF CustomerNeverOvercounts
  <2> PICK n, T, sources, txn :
        /\ n = Cardinality(Matching(OwnFacts(customerLedger, c), "txn"))
        /\ sources = {i \in DOMAIN topic : /\ topic[i].form = "ok"
                                           /\ topic[i].cust = c /\ topic[i].event.kind = "TXN"}
        /\ T = {topic[o].txn : o \in sources} /\ txn = [o \in sources |-> topic[o].txn]
    OBVIOUS
  <2>1. C!Days = Starts(Day) /\ "txn" \in CustomerFilters /\ Day \in Nat \ {0}
    BY TiersAssumption DEF C!Days, C!Time, Starts, CustomerFilters
  <2>2. SumFunction([d \in {e \in Starts(Day) : daily[<<c, e>>] # None} |->
                       daily[<<c, d>>].count["txn"]]) = n
    BY <1>1, <2>1, BucketsAddUp DEF CountsInv, CustomerInv
  <2>3. profile[c].lifeCount = n
    BY <1>1 DEF CountsInv, CustomerInv, ProfileHolds
  <2>4. IsFiniteSet(T)
    <3>1. IsFiniteSet(sources)
      BY <1>1, OffsetsFinite, FS_Subset DEF PipelineInv
    <3>2. txn \in Surjection(sources, T)
      BY DEF Surjection
    <3> QED  BY <3>1, <3>2, FS_Surjection
  <2>5. \A x \in Matching(OwnFacts(customerLedger, c), "txn") : x.key[2] \in T
    BY <1>1 DEF CountsInv, CustomerInv, CustomerRecord, Matching, OwnFacts, Matches
  <2>6. n <= Cardinality(T)
    BY <1>1, <2>4, <2>5, OneFactEach DEF CountsInv, CustomerInv
  <2>7. TxnsOf(LAMBDA r : r.cust = c /\ r.event.kind = "TXN") = T
    BY DEF TxnsOf
  <2> QED  BY <2>1, <2>2, <2>3, <2>6, <2>7
<1> QED  BY <1>1, PipelineInvariant, CountsAlways, PTL

(* A merchant's minute buckets count no more transactions than name it on   *)
(* the topic (TxnFeaturePipeline.handle, RecordMerchantTxn).                *)
THEOREM MerchantsAreNotOvercounted == Spec => []MerchantNeverOvercounts
<1>1. ASSUME PipelineInv, CountsInv PROVE MerchantNeverOvercounts
  <2> SUFFICES ASSUME NEW m \in Merchants
               PROVE  MerchantCounted(m) <=
                        Cardinality(TxnsOf(LAMBDA r : r.event.merchant = m
                                                      /\ r.event.kind = "TXN"))
    BY DEF MerchantNeverOvercounts
  <2> PICK n, T, sources, txn :
        /\ n = Cardinality(Matching(OwnFacts(merchantLedger, m), "txn"))
        /\ sources = {i \in DOMAIN topic : /\ topic[i].form = "ok"
                                           /\ topic[i].event.merchant = m
                                           /\ topic[i].event.kind = "TXN"}
        /\ T = {topic[o].txn : o \in sources} /\ txn = [o \in sources |-> topic[o].txn]
    OBVIOUS
  <2>1. M!Minutes = Starts(Minute) /\ "txn" \in MerchantFilters /\ Minute \in Nat \ {0}
    BY TiersAssumption DEF M!Minutes, M!Time, Starts, MerchantFilters
  <2>2. SumFunction([s \in {e \in Starts(Minute) : buckets[<<m, e>>] # None} |->
                       buckets[<<m, s>>].count["txn"]]) = n
    BY <1>1, <2>1, BucketsAddUp DEF CountsInv, MerchantInv
  <2>3. MerchantCounted(m) = n
    BY <2>1, <2>2 DEF MerchantCounted
  <2>4. IsFiniteSet(T)
    <3>1. IsFiniteSet(sources)
      BY <1>1, OffsetsFinite, FS_Subset DEF PipelineInv
    <3>2. txn \in Surjection(sources, T)
      BY DEF Surjection
    <3> QED  BY <3>1, <3>2, FS_Surjection
  <2>5. \A x \in Matching(OwnFacts(merchantLedger, m), "txn") : x.key[2] \in T
    BY <1>1 DEF CountsInv, MerchantInv, MerchantRecord, Matching, OwnFacts, Matches
  <2>6. n <= Cardinality(T)
    BY <1>1, <2>4, <2>5, OneFactEach DEF CountsInv, MerchantInv
  <2>7. TxnsOf(LAMBDA r : r.event.merchant = m /\ r.event.kind = "TXN") = T
    BY DEF TxnsOf
  <2> QED  BY <2>3, <2>6, <2>7
<1> QED  BY <1>1, PipelineInvariant, CountsAlways, PTL
=============================================================================

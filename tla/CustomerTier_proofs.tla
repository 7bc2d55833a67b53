------------------------ MODULE CustomerTier_proofs -------------------------
(***************************************************************************)
(* Proofs about CustomerTier and CustomerPanels, for every set of          *)
(* customers, transactions and payloads, every tick length and every TTL   *)
(* that the assumptions allow.                                             *)
(***************************************************************************)
EXTENDS CustomerPanels, FeatureEvents_proofs

----------------------------------------------------------------------------
(* The clock, the days and the rows *)

LEMMA TicksInNat ==
  /\ Day \in Nat \ {0} /\ Minute \in Nat \ {0}
  /\ RawTTL \in Nat /\ DailyTTL \in Nat /\ MaxAge \in Nat
  /\ MaxTime \in Nat /\ MaxCalls \in Nat
BY TicksAssumption

(* The day bucket of an event is a day of the table.                        *)
LEMMA DayOfEvent ==
  ASSUME NEW at \in Time
  PROVE  FloorTo(at, Day) \in Days
<1>1. at \in Nat  BY TicksInNat DEF Time
<1>2. FloorTo(at, Day) \in 0 .. at /\ FloorTo(at, Day) % Day = 0
  BY <1>1, TicksInNat, FloorBounds
<1>3. FloorTo(at, Day) \in Time  BY <1>1, <1>2, TicksInNat DEF Time
<1> QED  BY <1>2, <1>3 DEF Days

LEMMA RetriedType ==
  ASSUME NEW row \in RawRow, NEW at \in Time, NEW e, e.result \in PayResults
  PROVE  Retried(row, at, e) \in RawRow
<1> DEFINE event == [row.event EXCEPT !.result = e.result]
<1>1. row.event \in PayloadType /\ row.attempts \in Nat  BY DEF RawRow
<1>2. event \in PayloadType  BY <1>1 DEF PayloadType
<1>3. Retried(row, at, e) = [at |-> row.at, event |-> event,
                             attempts |-> row.attempts + 1, lastAttemptAt |-> at]
  BY DEF Retried
<1> HIDE DEF event
<1> QED  BY <1>1, <1>2, <1>3 DEF RawRow

(* No row is None.                                                          *)
LEMMA RowIsSomething ==
  ASSUME NEW row \in RawRow
  PROVE  row # None
BY NoRowAssumption

(* The retry's update and the insert both leave a row.                      *)
LEMMA RawAfterType ==
  ASSUME TypeOK, NEW c \in Customers, NEW t \in Txns, NEW at \in Time, NEW e \in Payloads
  PROVE  RawAfter(c, t, at, e, IsDuplicate(c, t)) \in [Keys -> RawRow \cup {None}]
<1>1. e \in PayloadType /\ e.result \in PayResults
  BY PayloadsAssumption DEF PayloadType
<1>2. <<c, t>> \in Keys  BY DEF Keys
<1>3. CASE IsDuplicate(c, t)
  <2>1. raw[<<c, t>>] \in RawRow  BY <1>2, <1>3 DEF TypeOK, IsDuplicate
  <2>2. Retried(raw[<<c, t>>], at, e) \in RawRow
    BY <1>1, <2>1, RetriedType
  <2> QED  BY <1>2, <1>3, <2>2 DEF TypeOK, RawAfter
<1>4. CASE ~IsDuplicate(c, t)
  <2>1. Inserted(at, e) \in RawRow  BY <1>1 DEF Inserted, RawRow
  <2> QED  BY <1>2, <1>4, <2>1 DEF TypeOK, RawAfter
<1> QED  BY <1>3, <1>4

(* The profile row a call writes is well formed.                            *)
LEMMA ProfileAfterType ==
  ASSUME TypeOK, NEW c \in Customers, NEW at \in Time, NEW e \in Payloads, NEW R,
         NEW duplicate \in BOOLEAN
  PROVE  LET p == ProfileAfter(c, R, at, e, duplicate)
         IN  /\ {p.firstSeen, p.lastTxnAt} \subseteq Time
             /\ p.lastCity \in Cities \cup {None}
             /\ {p.lifeCount, p.lifeSum} \subseteq Nat
<1>1. e.amount \in Nat /\ e.city \in Cities \cup {None}
  BY PayloadsAssumption DEF PayloadType
<1>2. profile[c] # None => /\ profile[c].firstSeen \in Time
                           /\ profile[c].lifeCount \in Nat
                           /\ profile[c].lifeSum \in Nat
  BY DEF TypeOK, ProfileOK
<1> QED  BY <1>1, <1>2 DEF ProfileAfter

----------------------------------------------------------------------------
(* Type correctness *)

LEMMA TypeInit == Init => TypeOK
<1> SUFFICES ASSUME Init PROVE TypeOK  OBVIOUS
<1>1. now \in Time /\ calls \in 0 .. MaxCalls  BY TicksInNat DEF Init, Time
<1>2. ProfileOK  BY DEF Init, ProfileOK
<1> QED  BY <1>1, <1>2 DEF Init, TypeOK

LEMMA TypeRecordTxn ==
  ASSUME TypeOK, NEW c \in Customers, NEW t \in Txns, NEW at \in Time, NEW e \in Payloads,
         RecordTxn(c, t, at, e)
  PROVE  TypeOK'
<1> DEFINE duplicate == IsDuplicate(c, t)
           d == FloorTo(at, Day)
<1>1. duplicate \in BOOLEAN  BY DEF IsDuplicate
<1>2. Record(c, t, at, e) /\ UNCHANGED now /\ calls < MaxCalls /\ calls' = calls + 1
  BY DEF RecordTxn
<1>3. raw' \in [Keys -> RawRow \cup {None}]  BY <1>2, RawAfterType DEF Record
<1>4. daily' \in [Customers \X Days -> BucketOf(CustomerFilters) \cup {None}]
  <2>1. e \in PayloadType  BY PayloadsAssumption
  <2>2. <<c, d>> \in Customers \X Days  BY DayOfEvent
  <2>3. daily[<<c, d>>] \in BucketOf(CustomerFilters) \cup {None}  BY <2>2 DEF TypeOK
  <2>4. Accumulated(daily[<<c, d>>], CustomerFilters, e, duplicate) \in BucketOf(CustomerFilters)
    BY <1>1, <2>1, <2>3, AccumulatedType
  <2>5. daily' = [daily EXCEPT ![<<c, d>>] =
                    Accumulated(daily[<<c, d>>], CustomerFilters, e, duplicate)]
    BY <1>2 DEF Record
  <2> QED  BY <2>2, <2>4, <2>5 DEF TypeOK
<1>5. ProfileOK'
  <2> DEFINE p == ProfileAfter(c, raw', at, e, duplicate)
  <2>1. /\ {p.firstSeen, p.lastTxnAt} \subseteq Time
        /\ p.lastCity \in Cities \cup {None}
        /\ {p.lifeCount, p.lifeSum} \subseteq Nat
    BY <1>1, ProfileAfterType
  <2>2. profile' = [profile EXCEPT ![c] = p]  BY <1>2 DEF Record
  <2> HIDE DEF p
  <2> QED  BY <2>1, <2>2 DEF TypeOK, ProfileOK
<1>6. ledger' \subseteq Facts
  <2>1. [key |-> <<c, t>>, at |-> at, event |-> e] \in Facts  BY DEF Facts, Keys
  <2> QED  BY <1>2, <2>1 DEF Record, TypeOK
<1>7. now' \in Time /\ calls' \in 0 .. MaxCalls  BY <1>2, TicksInNat DEF TypeOK
<1> QED  BY <1>3, <1>4, <1>5, <1>6, <1>7 DEF TypeOK

LEMMA TypeNext == TypeOK /\ [Next]_vars => TypeOK'
<1> SUFFICES ASSUME TypeOK, [Next]_vars PROVE TypeOK'  OBVIOUS
<1>1. ASSUME NEW c \in Customers, NEW t \in Txns, NEW at \in Time, NEW e \in Payloads,
             RecordTxn(c, t, at, e)
      PROVE  TypeOK'
  BY <1>1, TypeRecordTxn
<1>2. ASSUME NEW c \in Customers, NEW t \in Txns, EvictRaw(c, t) PROVE TypeOK'
  BY <1>2 DEF EvictRaw, TypeOK, ProfileOK
<1>3. ASSUME NEW c \in Customers, NEW d \in Days, EvictDaily(c, d) PROVE TypeOK'
  BY <1>3 DEF EvictDaily, TypeOK, ProfileOK
<1>4. CASE Tick
  BY <1>4, TicksInNat DEF Tick, TypeOK, ProfileOK, Time
<1>5. CASE UNCHANGED vars  BY <1>5 DEF vars, TypeOK, ProfileOK
<1> QED  BY <1>1, <1>2, <1>3, <1>4, <1>5 DEF Next

(* Every reachable state of the customer tier is well typed: the tables of  *)
(* ddl.sql under RecordTxn and TTL eviction.                                *)
THEOREM TypeCorrect == Spec => []TypeOK
<1> QED  BY TypeInit, TypeNext, PTL DEF Spec

----------------------------------------------------------------------------
(* The raw table is the ledger's memory *)

SamePayment(e, f) == e.kind = f.kind /\ e.type = f.type /\ e.amount = f.amount

(* What the row of key k stands for in table R at time t: the last fact of  *)
(* its key in L, with that fact's kind, type and amount (a retry rewrites   *)
(* the result alone); any other fact of the key is beyond the TTL.          *)
Stands(R, L, t, k) ==
  IF R[k] = None
  THEN \A x \in L : x.key = k => t - x.at > RawTTL
  ELSE \E x \in L : /\ x.key = k
                    /\ R[k].at = x.at
                    /\ SamePayment(R[k].event, x.event)
                    /\ \A y \in L : y.key = k /\ y # x => t - y.at > RawTTL

(* One key's part of RawRemembersLedger, in the form the steps use.         *)
Remembered(k) == Stands(raw, ledger, now, k)
AllRemembered == \A k \in Keys : Remembered(k)

LEMMA RememberedIsRemembering ==
  ASSUME TypeOK, \A k \in Keys : Remembered(k)
  PROVE  RawRemembersLedger
<1>1. \A x \in ledger : now - x.at > RawTTL <=> ~(now - x.at <= RawTTL)
  <2>1. \A x \in ledger : x.at \in Int  BY TicksInNat DEF TypeOK, Facts, Time
  <2> QED  BY <2>1, TicksInNat DEF TypeOK, Time
<1> QED  BY <1>1 DEF RawRemembersLedger, Remembered, Stands, SamePayment

LEMMA RememberedInit == Init => \A k \in Keys : Remembered(k)
BY DEF Init, Remembered, Stands

(* A retry leaves the ledger, the row's time and its amount alone; an event *)
(* that finds no row becomes the row, and all earlier facts of its key are  *)
(* beyond the TTL already.                                                  *)
LEMMA RememberedRecordTxn ==
  ASSUME TypeOK, \A k \in Keys : Remembered(k),
         NEW c \in Customers, NEW t \in Txns, NEW at \in Time, NEW e \in Payloads,
         RecordTxn(c, t, at, e)
  PROVE  \A k \in Keys : Remembered(k)'
<1> DEFINE fact == [key |-> <<c, t>>, at |-> at, event |-> e]
<1>1. <<c, t>> \in Keys  BY DEF Keys
<1>2. now' = now  BY DEF RecordTxn
<1>3. raw' = RawAfter(c, t, at, e, IsDuplicate(c, t))  BY DEF RecordTxn, Record
<1>4. raw \in [Keys -> RawRow \cup {None}]  BY DEF TypeOK
<1>5. CASE IsDuplicate(c, t)
  <2>1. ledger' = ledger  BY <1>5 DEF RecordTxn, Record
  <2>2. raw[<<c, t>>] \in RawRow /\ raw[<<c, t>>] # None
    BY <1>1, <1>4, <1>5 DEF IsDuplicate
  <2>3. raw' = [raw EXCEPT ![<<c, t>>] = Retried(raw[<<c, t>>], at, e)]
    BY <1>3, <1>5 DEF RawAfter
  <2>4. /\ Retried(raw[<<c, t>>], at, e).at = raw[<<c, t>>].at
        /\ SamePayment(Retried(raw[<<c, t>>], at, e).event, raw[<<c, t>>].event)
    BY <2>2 DEF Retried, RawRow, PayloadType, SamePayment
  <2>5. Retried(raw[<<c, t>>], at, e) # None  BY <2>2, RowIsSomething, RetriedType, PayloadsAssumption DEF PayloadType
  <2> SUFFICES ASSUME NEW k \in Keys PROVE Remembered(k)'  OBVIOUS
  <2>6. CASE k = <<c, t>>
    <3>1. /\ raw'[k] # None /\ raw'[k].at = raw[k].at
          /\ SamePayment(raw'[k].event, raw[k].event)
      BY <1>1, <1>4, <2>3, <2>4, <2>5, <2>6
    <3>2. raw[k] # None /\ Remembered(k)  BY <2>2, <2>6
    <3> QED  BY <1>2, <2>1, <3>1, <3>2 DEF Remembered, Stands, SamePayment
  <2>7. CASE k # <<c, t>>
    BY <1>1, <1>2, <1>4, <2>1, <2>3, <2>7 DEF Remembered, Stands
  <2> QED  BY <2>6, <2>7
<1>6. CASE ~IsDuplicate(c, t)
  <2>1. ledger' = ledger \cup {fact}  BY <1>6 DEF RecordTxn, Record
  <2>2. raw' = [raw EXCEPT ![<<c, t>>] = Inserted(at, e)]  BY <1>3, <1>6 DEF RawAfter
  <2>3. raw[<<c, t>>] = None  BY <1>6 DEF IsDuplicate
  <2>4. Inserted(at, e).at = at /\ Inserted(at, e).event = e /\ Inserted(at, e) # None
    BY RowIsSomething, PayloadsAssumption DEF Inserted, RawRow
  <2> SUFFICES ASSUME NEW k \in Keys PROVE Remembered(k)'  OBVIOUS
  <2>5. CASE k = <<c, t>>
    <3>1. raw'[k] = Inserted(at, e)  BY <1>1, <1>4, <2>2, <2>5
    <3>2. \A y \in ledger : y.key = k => now - y.at > RawTTL
      BY <1>1, <2>3, <2>5 DEF Remembered, Stands
    <3>3. fact \in ledger' /\ fact.key = k /\ fact.at = at /\ fact.event = e
      BY <2>1, <2>5
    <3>4. \A y \in ledger' : y.key = k /\ y # fact => now' - y.at > RawTTL
      BY <1>2, <2>1, <3>2
    <3> QED  BY <2>4, <3>1, <3>3, <3>4 DEF Remembered, Stands, SamePayment
  <2>6. CASE k # <<c, t>>
    <3>1. raw'[k] = raw[k]  BY <1>1, <1>4, <2>2, <2>6
    <3>2. fact.key # k  BY <2>6
    <3>3. Remembered(k)  OBVIOUS
    <3> HIDE DEF fact
    <3> QED  BY <1>2, <2>1, <3>1, <3>2, <3>3 DEF Remembered, Stands
  <2> QED  BY <2>5, <2>6
<1> QED  BY <1>5, <1>6

(* Eviction takes a row only after its own fact is beyond the TTL too.      *)
LEMMA RememberedEvictRaw ==
  ASSUME TypeOK, \A k \in Keys : Remembered(k),
         NEW c \in Customers, NEW t \in Txns, EvictRaw(c, t)
  PROVE  \A k \in Keys : Remembered(k)'
<1>1. <<c, t>> \in Keys  BY DEF Keys
<1>2. /\ raw[<<c, t>>] # None /\ now - raw[<<c, t>>].at > RawTTL
      /\ raw' = [raw EXCEPT ![<<c, t>>] = None]
      /\ ledger' = ledger /\ now' = now
  BY DEF EvictRaw, RawExpired
<1>3. \A y \in ledger : y.key = <<c, t>> => now - y.at > RawTTL
  BY <1>1, <1>2 DEF Remembered, Stands
<1> SUFFICES ASSUME NEW k \in Keys PROVE Remembered(k)'  OBVIOUS
<1>4. CASE k = <<c, t>>  BY <1>1, <1>2, <1>3, <1>4 DEF Remembered, Stands, TypeOK
<1>5. CASE k # <<c, t>>  BY <1>1, <1>2, <1>5 DEF Remembered, Stands, TypeOK
<1> QED  BY <1>4, <1>5

(* What is beyond the TTL stays beyond it.                                  *)
LEMMA RememberedTick ==
  ASSUME TypeOK, \A k \in Keys : Remembered(k), Tick
  PROVE  \A k \in Keys : Remembered(k)'
<1>1. now' = now + 1 /\ raw' = raw /\ ledger' = ledger  BY DEF Tick
<1>2. \A y \in ledger : now - y.at > RawTTL => now' - y.at > RawTTL
  <2>1. \A y \in ledger : y.at \in Int  BY TicksInNat DEF TypeOK, Facts, Time
  <2> QED  BY <1>1, <2>1, TicksInNat DEF TypeOK, Time
<1> QED  BY <1>1, <1>2 DEF Remembered, Stands

LEMMA RememberedNext ==
  TypeOK /\ (\A k \in Keys : Remembered(k)) /\ [Next]_vars => \A k \in Keys : Remembered(k)'
<1> SUFFICES ASSUME TypeOK, \A k \in Keys : Remembered(k), [Next]_vars
             PROVE  \A k \in Keys : Remembered(k)'
  OBVIOUS
<1>1. ASSUME NEW c \in Customers, NEW d \in Days, EvictDaily(c, d)
      PROVE  \A k \in Keys : Remembered(k)'
  BY <1>1 DEF EvictDaily, Remembered, Stands
<1>2. CASE UNCHANGED vars  BY <1>2 DEF vars, Remembered, Stands
<1> QED
  BY <1>1, <1>2, RememberedRecordTxn, RememberedEvictRaw, RememberedTick DEF Next

LEMMA RememberedAlways == Spec => []AllRemembered
<1>1. Init => AllRemembered  BY RememberedInit DEF AllRemembered
<1>2. TypeOK /\ AllRemembered /\ [Next]_vars => AllRemembered'
  BY RememberedNext DEF AllRemembered
<1> QED  BY <1>1, <1>2, TypeCorrect, PTL DEF Spec

(* The primary-key probe of RecordTxn is a dedupe although the background   *)
(* TTL deletes the rows it probes: a fact inside the TTL always has its row,*)
(* and a row always stands for the last fact of its key.                    *)
THEOREM RawRemembersLedgerAlways == Spec => []RawRemembersLedger
<1>1. TypeOK /\ AllRemembered => RawRemembersLedger
  BY RememberedIsRemembering DEF AllRemembered
<1> QED  BY <1>1, TypeCorrect, RememberedAlways, PTL

----------------------------------------------------------------------------
(* Refinement of the dedupe promise *)

LEMMA DedupStep ==
  TypeOK /\ AllRemembered /\ [Next]_vars => [Dedup!Next]_(Dedup!ledgerVars)
<1> SUFFICES ASSUME TypeOK, AllRemembered, [Next]_vars
             PROVE  Dedup!Next \/ UNCHANGED <<now, ledger>>
  BY DEF Dedup!ledgerVars
<1>1. ASSUME NEW c \in Customers, NEW t \in Txns, NEW at \in Time, NEW e \in Payloads,
             RecordTxn(c, t, at, e)
      PROVE  Dedup!Next \/ UNCHANGED <<now, ledger>>
  <2>1. now' = now /\ Record(c, t, at, e)  BY <1>1 DEF RecordTxn
  <2>2. CASE IsDuplicate(c, t)  BY <2>1, <2>2 DEF Record
  <2>3. CASE ~IsDuplicate(c, t)
    <3> DEFINE fact == [key |-> <<c, t>>, at |-> at, event |-> e]
    <3>1. fact \in Dedup!Facts  BY DEF Dedup!Facts, Keys
    <3>2. ledger' = ledger \cup {fact}  BY <2>1, <2>3 DEF Record
    <3>3. \A x \in ledger : x.key = <<c, t>> => now - x.at > RawTTL
      <4>1. Remembered(<<c, t>>)  BY DEF AllRemembered, Keys
      <4> QED  BY <2>3, <4>1 DEF Remembered, Stands, IsDuplicate
    <3>4. Dedup!Forgotten(fact.key)  BY <3>3 DEF Dedup!Forgotten
    <3>5. Dedup!Count(fact)  BY <2>1, <3>2, <3>4 DEF Dedup!Count
    <3> QED  BY <3>1, <3>5 DEF Dedup!Next
  <2> QED  BY <2>2, <2>3
<1>2. CASE Tick  BY <1>2 DEF Tick, Dedup!Next, Dedup!Advance
<1>3. ASSUME NEW c \in Customers, NEW t \in Txns, EvictRaw(c, t)
      PROVE  UNCHANGED <<now, ledger>>
  BY <1>3 DEF EvictRaw
<1>4. ASSUME NEW c \in Customers, NEW d \in Days, EvictDaily(c, d)
      PROVE  UNCHANGED <<now, ledger>>
  BY <1>4 DEF EvictDaily
<1>5. CASE UNCHANGED vars  BY <1>5 DEF vars
<1> QED  BY <1>1, <1>2, <1>3, <1>4, <1>5 DEF Next

(* RecordTxn over an evicting TXN_RAW keeps the dedupe promise of           *)
(* DedupLedger: a transaction counts again only after every earlier fact of *)
(* it is more than the TTL of event time old.                               *)
THEOREM CustomerTierDedups == Spec => ImplementsDedup
<1>1. Init => Dedup!Init  BY DEF Init, Dedup!Init
<1>2. TypeOK /\ AllRemembered /\ [Next]_vars => [Dedup!Next]_(Dedup!ledgerVars)
  BY DedupStep
<1> QED
  BY <1>1, <1>2, TypeCorrect, RememberedAlways, PTL
  DEF Spec, ImplementsDedup, Dedup!Spec
----------------------------------------------------------------------------
(* Every daily bucket holds the facts of its day *)

FactsAt(c, s) == {x \in ledger : x.key[1] = c /\ FloorTo(x.at, Day) = s}

(* A day without its bucket is one of which nothing was counted, or one     *)
(* that no event can name any more.                                         *)
DayKept(c, s) ==
  IF daily[<<c, s>>] = None
  THEN FactsAt(c, s) = {} \/ now - s > DailyTTL
  ELSE BucketHolds(daily[<<c, s>>], CustomerFilters, FactsAt(c, s))

DailyInv ==
  IsFiniteSet(ledger) /\ \A c \in Customers, s \in Days : DayKept(c, s)

LEMMA FactFields ==
  ASSUME TypeOK, NEW x \in ledger
  PROVE  /\ x.at \in Time /\ x.at \in Nat /\ x.event \in PayloadType
         /\ x.key[1] \in Customers
BY TicksInNat, PayloadsAssumption DEF TypeOK, Facts, Time, Keys

LEMMA FactsAtFinite ==
  ASSUME TypeOK, DailyInv, NEW c, NEW s
  PROVE  IsFiniteSet(FactsAt(c, s)) /\ \A x \in FactsAt(c, s) : x.event \in PayloadType
<1>1. FactsAt(c, s) \subseteq ledger
  BY DEF FactsAt
<1> QED  BY <1>1, FactFields, FS_Subset DEF DailyInv

(* A call that finds no row counts an event that is no fact yet.            *)
LEMMA NewFact ==
  ASSUME TypeOK, AllRemembered,
         NEW c \in Customers, NEW t \in Txns, NEW at \in Time, NEW e \in Payloads,
         now - MaxAge <= at, ~IsDuplicate(c, t)
  PROVE  [key |-> <<c, t>>, at |-> at, event |-> e] \notin ledger
<1> PICK fact : fact = [key |-> <<c, t>>, at |-> at, event |-> e]
  OBVIOUS
<1>1. <<c, t>> \in Keys /\ at \in Nat /\ now \in Nat
  BY TicksInNat DEF Keys, Time, TypeOK
<1>2. ASSUME fact \in ledger PROVE FALSE
  <2>1. now - fact.at > RawTTL
    BY <1>1, <1>2 DEF AllRemembered, Remembered, Stands, IsDuplicate
  <2> QED  BY <1>1, <2>1, TicksInNat, RetentionAssumption
<1> QED  BY <1>2

(* An event's own day is not past the buckets' life, and the event is a     *)
(* new fact when it is not taken for a retry.                               *)
LEMMA DailyRecord ==
  ASSUME TypeOK, AllRemembered, DailyInv,
         NEW c \in Customers, NEW t \in Txns, NEW at \in Time, NEW e \in Payloads,
         RecordTxn(c, t, at, e)
  PROVE  DailyInv'
<1> PICK b, row, fact, duplicate :
      /\ b = FloorTo(at, Day) /\ row = daily[<<c, b>>] /\ duplicate = IsDuplicate(c, t)
      /\ fact = [key |-> <<c, t>>, at |-> at, event |-> e]
  OBVIOUS
<1>1. /\ b \in Days /\ duplicate \in BOOLEAN /\ e \in PayloadType
      /\ row \in BucketOf(CustomerFilters) \cup {None}
  BY DayOfEvent, PayloadsAssumption DEF IsDuplicate, TypeOK
<1>2. /\ now' = now /\ now - MaxAge <= at
      /\ ledger' = IF duplicate THEN ledger ELSE ledger \cup {fact}
      /\ daily' = [daily EXCEPT ![<<c, b>>] = Accumulated(row, CustomerFilters, e, duplicate)]
  BY DEF RecordTxn, Record
<1>3. row = None => FactsAt(c, b) = {}
  <2>1. at \in Nat /\ now \in Nat
    BY TicksInNat DEF Time, TypeOK
  <2>2. at - Day < b /\ b \in Nat
    BY <2>1, TicksInNat, FloorBounds
  <2>3. ~ (now - b > DailyTTL)
    BY <1>2, <2>1, <2>2, TicksInNat, RetentionAssumption
  <2> QED  BY <1>1, <2>3 DEF DailyInv, DayKept
<1>4. row # None => BucketHolds(row, CustomerFilters, FactsAt(c, b))
  BY <1>1 DEF DailyInv, DayKept
<1>5. ~duplicate => fact \notin ledger
  BY <1>2, NewFact
<1>6. IsFiniteSet(ledger')
  BY <1>2, FS_AddElement DEF DailyInv
<1>7. ASSUME NEW o \in Customers, NEW s \in Days, <<o, s>> # <<c, b>>
      PROVE  DayKept(o, s)'
  <2>1. daily'[<<o, s>>] = daily[<<o, s>>]
    BY <1>2, <1>7 DEF TypeOK
  <2>2. FactsAt(o, s)' = FactsAt(o, s)
    BY <1>2, <1>7 DEF FactsAt
  <2> QED  BY <1>2, <2>1, <2>2 DEF DailyInv, DayKept
<1>8. DayKept(c, b)'
  <2> PICK after : after = Accumulated(row, CustomerFilters, e, duplicate)
    OBVIOUS
  <2>1. daily'[<<c, b>>] = after /\ after # None
    <3>1. after \in BucketOf(CustomerFilters)
      BY <1>1, AccumulatedType
    <3> QED  BY <1>1, <1>2, <3>1, NoRowAssumption DEF TypeOK
  <2>2. /\ IsFiniteSet(FactsAt(c, b)) /\ \A x \in FactsAt(c, b) : x.event \in PayloadType
    BY FactsAtFinite
  <2>3. CASE duplicate
    <3>1. BucketHolds(after, CustomerFilters, FactsAt(c, b))
      BY <1>1, <1>3, <1>4, <2>3, RetryHolds
    <3>2. FactsAt(c, b)' = FactsAt(c, b)
      BY <1>2, <2>3 DEF FactsAt
    <3> QED  BY <2>1, <3>1, <3>2 DEF DayKept
  <2>4. CASE ~duplicate
    <3>1. fact \notin FactsAt(c, b) /\ fact.event = e
      BY <1>5, <2>4 DEF FactsAt
    <3>2. BucketHolds(after, CustomerFilters, FactsAt(c, b) \cup {fact})
      BY <1>1, <1>3, <1>4, <2>2, <2>4, <3>1, NewFactHolds
    <3>3. FactsAt(c, b)' = FactsAt(c, b) \cup {fact}
      BY <1>2, <2>4 DEF FactsAt
    <3> QED  BY <2>1, <3>2, <3>3 DEF DayKept
  <2> QED  BY <1>1, <2>3, <2>4
<1> QED  BY <1>6, <1>7, <1>8 DEF DailyInv

LEMMA DailyNext ==
  ASSUME TypeOK, AllRemembered, DailyInv, [Next]_vars
  PROVE  DailyInv'
<1>1. ASSUME UNCHANGED <<daily, ledger, now>> PROVE DailyInv'
  BY <1>1 DEF DailyInv, DayKept, FactsAt
<1>2. ASSUME NEW c \in Customers, NEW b \in Days, EvictDaily(c, b) PROVE DailyInv'
  <2>1. /\ now - b > DailyTTL /\ UNCHANGED <<ledger, now>>
        /\ daily' = [daily EXCEPT ![<<c, b>>] = None]
    BY <1>2 DEF EvictDaily
  <2>2. ASSUME NEW o \in Customers, NEW s \in Days PROVE DayKept(o, s)'
    <3>1. FactsAt(o, s)' = FactsAt(o, s)
      BY <2>1 DEF FactsAt
    <3>2. CASE <<o, s>> = <<c, b>>
      BY <2>1, <3>1, <3>2 DEF DayKept, TypeOK
    <3>3. CASE <<o, s>> # <<c, b>>
      BY <2>1, <3>1, <3>3 DEF DayKept, DailyInv, TypeOK
    <3> QED  BY <3>2, <3>3
  <2> QED  BY <2>1, <2>2 DEF DailyInv
<1>3. CASE Tick
  <2>1. now' = now + 1 /\ UNCHANGED <<daily, ledger>> /\ now \in Int
    BY <1>3, TicksInNat DEF Tick, TypeOK, Time
  <2>2. ASSUME NEW o \in Customers, NEW s \in Days PROVE DayKept(o, s)'
    <3>1. FactsAt(o, s)' = FactsAt(o, s) /\ s \in Int
      BY <2>1, TicksInNat DEF FactsAt, Days, Time
    <3> QED  BY <2>1, <3>1, TicksInNat DEF DayKept, DailyInv
  <2> QED  BY <2>1, <2>2 DEF DailyInv
<1>4. ASSUME NEW c \in Customers, NEW t \in Txns, EvictRaw(c, t) PROVE DailyInv'
  BY <1>1, <1>4 DEF EvictRaw
<1>5. CASE UNCHANGED vars
  BY <1>1, <1>5 DEF vars
<1> QED  BY <1>2, <1>3, <1>4, <1>5, DailyRecord DEF Next

LEMMA DailyInit ==
  ASSUME Init
  PROVE  DailyInv
<1>1. \A c \in Customers, s \in Days : daily[<<c, s>>] = None /\ FactsAt(c, s) = {}
  BY DEF Init, FactsAt
<1> QED  BY <1>1, FS_EmptySet DEF Init, DailyInv, DayKept

LEMMA DailyKept == Spec => []DailyInv
<1>1. TypeOK /\ AllRemembered /\ DailyInv /\ [Next]_vars => DailyInv'
  BY DailyNext
<1> QED  BY <1>1, DailyInit, TypeCorrect, RememberedAlways, PTL DEF Spec

(* RecordTxn: a stored daily bucket counts, sums and bounds exactly the     *)
(* facts of its day, whatever retries, late events and evictions came       *)
(* between, also after TXN_RAW has lost their rows.                         *)
THEOREM DailyIsExact == Spec => []DailyExact
<1>1. ASSUME TypeOK, DailyInv PROVE DailyExact
  <2> SUFFICES ASSUME NEW c \in Customers, NEW s \in Days, daily[<<c, s>>] # None
               PROVE  LET b == daily[<<c, s>>]
                          F(f) == {x \in FactsOf(c, f) : FloorTo(x.at, Day) = s}
                          amounts == {x.event.amount : x \in F("txn")}
                      IN  /\ \A f \in CustomerFilters : /\ b.count[f] = Cardinality(F(f))
                                                        /\ b.sum[f] = Amount(F(f))
                          /\ b.min = IF amounts = {} THEN None ELSE Min(amounts)
                          /\ b.max = IF amounts = {} THEN None ELSE Max(amounts)
    BY DEF DailyExact
  <2>1. BucketHolds(daily[<<c, s>>], CustomerFilters, FactsAt(c, s))
    BY <1>1 DEF DailyInv, DayKept
  <2>2. \A f : {x \in FactsOf(c, f) : FloorTo(x.at, Day) = s} = Matching(FactsAt(c, s), f)
    BY DEF FactsOf, FactsAt, Matching
  <2>3. \A F : Amount(F) = Total(F)
    BY DEF Amount, Total
  <2>4. \A x \in FactsAt(c, s) : x.event \in PayloadType
    BY <1>1, FactsAtFinite
  <2>5. LET amounts == AmountsOf(Matching(FactsAt(c, s), "txn"))
        IN  /\ daily[<<c, s>>].min = IF amounts = {} THEN None ELSE Min(amounts)
            /\ daily[<<c, s>>].max = IF amounts = {} THEN None ELSE Max(amounts)
    BY <2>1, <2>4, HoldsExtremes
  <2> QED  BY <2>1, <2>2, <2>3, <2>5 DEF BucketHolds, AmountsOf
<1> QED  BY <1>1, TypeCorrect, DailyKept, PTL

----------------------------------------------------------------------------
(* The raw rows of a time span and the facts of that span *)

RowsAfter(R, c, cut, f) ==
  {u \in Txns : R[<<c, u>>] # None /\ R[<<c, u>>].at > cut /\ Matches(f, R[<<c, u>>].event)}
RowsTotal(R, c, T) == SumFunction([u \in T |-> R[<<c, u>>].event.amount])
FactsAfter(L, c, cut, f) == {x \in L : x.key[1] = c /\ Matches(f, x.event) /\ x.at > cut}

(* The row of transaction u of customer c stands for x.                     *)
FactOfRow(R, c, u, x) ==
  x.key = <<c, u>> /\ R[<<c, u>>].at = x.at /\ SamePayment(R[<<c, u>>].event, x.event)

LEMMA SamePaymentMatches ==
  ASSUME NEW e, NEW g, SamePayment(e, g), NEW f \in StableFilters
  PROVE  Matches(f, e) <=> Matches(f, g)
BY DEF SamePayment, StableFilters, CustomerFilters, Matches

(* The rows of a span are no more than its facts.                           *)
LEMMA RowsAreFacts ==
  ASSUME NEW R, NEW L, IsFiniteSet(L), NEW t, \A k \in Keys : Stands(R, L, t, k),
         NEW c \in Customers, NEW cut, NEW f \in StableFilters
  PROVE  \E g : /\ g \in Injection(RowsAfter(R, c, cut, f), FactsAfter(L, c, cut, f))
                /\ \A u \in RowsAfter(R, c, cut, f) : FactOfRow(R, c, u, g[u])
<1> PICK T, F : T = RowsAfter(R, c, cut, f) /\ F = FactsAfter(L, c, cut, f)
  OBVIOUS
<1>1. ASSUME NEW u \in T PROVE \E x \in F : FactOfRow(R, c, u, x)
  <2>1. u \in Txns /\ <<c, u>> \in Keys /\ R[<<c, u>>] # None /\ R[<<c, u>>].at > cut
        /\ Matches(f, R[<<c, u>>].event)
    BY DEF RowsAfter, Keys
  <2>2. PICK x \in L : FactOfRow(R, c, u, x)
    BY <2>1 DEF Stands, FactOfRow
  <2>3. x.key[1] = c /\ x.at > cut /\ Matches(f, x.event)
    BY <2>1, <2>2, SamePaymentMatches DEF FactOfRow
  <2> QED  BY <2>2, <2>3 DEF FactsAfter
<1>2. PICK g : g = [u \in T |-> CHOOSE x \in F : FactOfRow(R, c, u, x)]
  OBVIOUS
<1>3. \A u \in T : g[u] \in F /\ FactOfRow(R, c, u, g[u])
  BY <1>1, <1>2
<1>4. g \in [T -> F]
  BY <1>2, <1>3
<1>5. ASSUME NEW u \in T, NEW w \in T, g[u] = g[w] PROVE u = w
  <2>1. g[u].key = <<c, u>> /\ g[w].key = <<c, w>>
    BY <1>3 DEF FactOfRow
  <2>2. <<c, u>> = <<c, w>>
    BY <1>5, <2>1
  <2> QED  BY <2>2
<1>6. g \in Injection(T, F)
  BY <1>4, <1>5 DEF Injection, IsInjective
<1> QED  BY <1>3, <1>6

(* Inside the TTL they are as many, and make the same total.                *)
LEMMA LiveRowsAreTheFacts ==
  ASSUME NEW R, NEW L \in SUBSET Facts, IsFiniteSet(L), NEW t \in Int,
         \A k \in Keys : Stands(R, L, t, k),
         NEW c \in Customers, NEW cut \in Int, t - cut <= RawTTL, NEW f \in StableFilters
  PROVE  LET T == RowsAfter(R, c, cut, f)
             F == FactsAfter(L, c, cut, f)
         IN  /\ IsFiniteSet(T) /\ IsFiniteSet(F) /\ Cardinality(T) = Cardinality(F)
             /\ RowsTotal(R, c, T) = Total(F)
<1> PICK T, F : T = RowsAfter(R, c, cut, f) /\ F = FactsAfter(L, c, cut, f)
  OBVIOUS
<1>1. PICK g : g \in Injection(T, F) /\ \A u \in T : FactOfRow(R, c, u, g[u])
  BY RowsAreFacts
<1>2. IsFiniteSet(F) /\ F \subseteq L
  BY FS_Subset DEF FactsAfter
<1>3. ASSUME NEW x \in F PROVE \E u \in T : g[u] = x
  <2>1. /\ x \in L /\ x.key \in Keys /\ x.key[1] = c /\ x.at \in Int
        /\ Matches(f, x.event) /\ x.at > cut
    BY TicksInNat DEF FactsAfter, Facts, Time
  <2>2. PICK u \in Txns : x.key = <<c, u>>
    BY <2>1 DEF Keys
  <2>3. ~ (t - x.at > RawTTL)
    BY <2>1, TicksInNat
  <2>4. R[<<c, u>>] # None /\ FactOfRow(R, c, u, x)
    BY <2>1, <2>2, <2>3 DEF Stands, FactOfRow
  <2>5. u \in T
    BY <2>1, <2>4, SamePaymentMatches DEF RowsAfter, FactOfRow
  <2>6. g[u] \in F /\ FactOfRow(R, c, u, g[u])
    BY <1>1, <2>5 DEF Injection
  <2>7. g[u] \in L /\ g[u].key = <<c, u>> /\ g[u].at = x.at
    BY <2>4, <2>6 DEF FactsAfter, FactOfRow
  <2>8. g[u] = x
    BY <2>1, <2>2, <2>3, <2>4, <2>7 DEF Stands
  <2> QED  BY <2>5, <2>8
<1>4. g \in Surjection(T, F)
  BY <1>1, <1>3 DEF Injection, Surjection
<1>5. IsFiniteSet(T) /\ Cardinality(T) = Cardinality(F)
  BY <1>1, <1>2, <1>4, FS_Injection
<1>6. PICK amount, other : /\ amount = [x \in F |-> x.event.amount]
                           /\ other = [u \in T |-> R[<<c, u>>].event.amount]
  OBVIOUS
<1>7. \A x \in F : x.event.amount \in Nat
  BY <1>2, PayloadsAssumption DEF Facts, PayloadType
<1>8. \A u \in T : g[u] \in F /\ other[u] = amount[g[u]] /\ other[u] \in Nat
  BY <1>1, <1>6, <1>7 DEF Injection, FactOfRow, SamePayment
<1>9. {g[u] : u \in T} = F
  BY <1>3, <1>8
<1>10. \A u, w \in T : g[u] = g[w] => u = w
  BY <1>1 DEF Injection, IsInjective
<1>11. SumFunctionOnSet(other, T) = SumFunctionOnSet(amount, {g[u] : u \in T})
  BY <1>5, <1>8, <1>10, SumOfImages
<1>12. RowsTotal(R, c, T) = Total(F)
  BY <1>6, <1>9, <1>11, TotalIsSum DEF RowsTotal, SumFunction
<1> QED  BY <1>2, <1>5, <1>12

----------------------------------------------------------------------------
(* What a read counts *)

LEMMA WindowInNat ==
  ASSUME NEW W \in Windows
  PROVE  W \in Nat
<1>1. MaxTime \div Minute \in Nat
  BY TicksInNat, QuotientAndRest
<1>2. PICK m \in 1 .. MaxTime \div Minute : W = m * Minute
  BY DEF Windows
<1> QED  BY <1>1, <1>2, TicksInNat, SMT

LEMMA CutoffBounds ==
  ASSUME TypeOK, NEW W \in Windows
  PROVE  /\ MinuteCutoff(W) \in Int /\ now - MinuteCutoff(W) < W + Minute
         /\ DayCutoff(W) \in Int /\ now - DayCutoff(W) < W + Day
<1>1. now \in Nat /\ W \in Nat
  BY TicksInNat, WindowInNat DEF TypeOK, Time
<1>2. /\ FloorTo(now, Minute) \in Nat /\ now - Minute < FloorTo(now, Minute)
      /\ FloorTo(now, Day) \in Nat /\ now - Day < FloorTo(now, Day)
  BY <1>1, TicksInNat, FloorBounds
<1> QED  BY <1>1, <1>2, TicksInNat DEF MinuteCutoff, DayCutoff

(* The facts a window covers, seen from the tier that serves it.            *)
InWindow(c, W, f) ==
  {x \in FactsOf(c, f) : IF W <= HotTier THEN x.at > MinuteCutoff(W)
                                          ELSE FloorTo(x.at, Day) > DayCutoff(W)}

LEMMA HotIsRowsAfter ==
  ASSUME NEW c, NEW W, NEW f
  PROVE  HotMatches(c, W, f) = RowsAfter(raw, c, MinuteCutoff(W), f)
BY DEF HotMatches, HotRows, RowsAfter

LEMMA HotReadsExact ==
  ASSUME TypeOK, AllRemembered, IsFiniteSet(ledger),
         NEW c \in Customers, NEW W \in ReadableWindows, NEW f \in StableFilters, W <= HotTier
  PROVE  /\ RollingCount(c, W, f) = Cardinality(InWindow(c, W, f))
         /\ RollingSum(c, W, f) = Total(InWindow(c, W, f))
<1> PICK cut : cut = MinuteCutoff(W)
  OBVIOUS
<1>1. W \in Windows /\ W \in Nat /\ W + Minute <= RawTTL
  BY WindowInNat DEF ReadableWindows
<1>2. now \in Int /\ cut \in Int /\ now - cut <= RawTTL
  BY <1>1, CutoffBounds, TicksInNat DEF TypeOK, Time
<1>3. \A k \in Keys : Stands(raw, ledger, now, k)
  BY DEF AllRemembered, Remembered
<1>4. ledger \in SUBSET Facts
  BY DEF TypeOK
<1>5. PICK R, L, t : R = raw /\ L = ledger /\ t = now
  OBVIOUS
<1> PICK T, F : T = RowsAfter(R, c, cut, f) /\ F = FactsAfter(L, c, cut, f)
  OBVIOUS
<1>6. /\ Cardinality(T) = Cardinality(F)
      /\ RowsTotal(R, c, T) = Total(F)
  BY <1>2, <1>3, <1>4, <1>5, LiveRowsAreTheFacts
<1>7. T = HotMatches(c, W, f)
  BY <1>5, HotIsRowsAfter
<1>8. F = InWindow(c, W, f)
  BY <1>5 DEF FactsAfter, InWindow, FactsOf
<1> QED  BY <1>5, <1>6, <1>7, <1>8 DEF RollingCount, RollingSum, RowsTotal

(* No day that a readable window covers has lost its bucket.                *)
LEMMA WarmFacts ==
  ASSUME TypeOK, DailyInv, NEW c \in Customers, NEW W \in ReadableWindows, W > HotTier,
         NEW x \in ledger, x.key[1] = c
  PROVE  FloorTo(x.at, Day) \in WarmDays(c, W) <=> FloorTo(x.at, Day) > DayCutoff(W)
<1> PICK d : d = FloorTo(x.at, Day)
  OBVIOUS
<1>1. /\ d \in Days /\ d \in Nat /\ now \in Nat
      /\ W \in Windows /\ W \in Nat /\ W + Day <= DailyTTL
  <2>1. d \in Days /\ d \in Nat /\ now \in Nat
    BY FactFields, DayOfEvent, TicksInNat DEF TypeOK, Time, Days
  <2>2. W \in Windows /\ W \in Nat /\ HotTier \in Nat
    BY WindowInNat, TicksAssumption DEF ReadableWindows
  <2> QED  BY <2>1, <2>2 DEF ReadableWindows
<1>2. ASSUME d > DayCutoff(W) PROVE daily[<<c, d>>] # None
  <2>1. ~ (now - d > DailyTTL)
    BY <1>1, <1>2, CutoffBounds, TicksInNat
  <2>2. x \in FactsAt(c, d)
    BY DEF FactsAt
  <2> QED  BY <1>1, <2>1, <2>2 DEF DailyInv, DayKept
<1> QED  BY <1>1, <1>2 DEF WarmDays

LEMMA WarmReadsExact ==
  ASSUME TypeOK, DailyInv,
         NEW c \in Customers, NEW W \in ReadableWindows, NEW f \in StableFilters, W > HotTier
  PROVE  /\ RollingCount(c, W, f) = Cardinality(InWindow(c, W, f))
         /\ RollingSum(c, W, f) = Total(InWindow(c, W, f))
<1> PICK G, K, day, counts, sums :
      /\ G = FactsOf(c, f) /\ K = WarmDays(c, W)
      /\ day = [x \in ledger |-> FloorTo(x.at, Day)]
      /\ counts = [d \in K |-> daily[<<c, d>>].count[f]]
      /\ sums = [d \in K |-> daily[<<c, d>>].sum[f]]
  OBVIOUS
<1>1. ~ (W <= HotTier) /\ f \in CustomerFilters
  BY WindowInNat, TicksAssumption DEF ReadableWindows, StableFilters
<1>2. G \subseteq ledger /\ IsFiniteSet(G) /\ \A x \in G : x.event.amount \in Nat
  BY FactFields, FS_Subset DEF FactsOf, DailyInv, PayloadType
<1>3. IsFiniteSet(K)
  <2>1. IsFiniteSet(0 .. MaxTime)
    BY TicksInNat, FS_Interval
  <2> QED  BY <2>1, FS_Subset DEF WarmDays, Days, Time
<1>4. Parts(G, day, K) = InWindow(c, W, f)
  <2>1. \A x \in G : day[x] \in K <=> FloorTo(x.at, Day) > DayCutoff(W)
    BY <1>2, WarmFacts DEF FactsOf
  <2> QED  BY <1>1, <2>1 DEF Parts, InWindow
<1>5. \A d \in K : Part(G, day, d) = Matching(FactsAt(c, d), f)
  BY <1>2 DEF Part, Matching, FactsAt, FactsOf
<1>6. \A d \in K : /\ counts[d] = Cardinality(Part(G, day, d))
                   /\ sums[d] = Total(Part(G, day, d))
  BY <1>1, <1>5 DEF WarmDays, DailyInv, DayKept, BucketHolds
<1>7. SumFunctionOnSet(counts, K) = Cardinality(Parts(G, day, K))
  BY ONLY <1>2, <1>3, <1>6, CountOfParts
<1>8. SumFunctionOnSet(sums, K) = Total(Parts(G, day, K))
  BY ONLY <1>2, <1>3, <1>6, TotalOfParts
<1>9. RollingCount(c, W, f) = SumFunctionOnSet(counts, K)
      /\ RollingSum(c, W, f) = SumFunctionOnSet(sums, K)
  BY <1>1 DEF RollingCount, RollingSum, SumFunction
<1> QED  BY <1>4, <1>7, <1>8, <1>9

LEMMA ReadIsInWindow ==
  ASSUME TypeOK, AllRemembered, DailyInv,
         NEW c \in Customers, NEW W \in ReadableWindows, NEW f \in StableFilters
  PROVE  /\ RollingCount(c, W, f) = Cardinality(InWindow(c, W, f))
         /\ RollingSum(c, W, f) = Total(InWindow(c, W, f))
<1>1. W \in Nat /\ HotTier \in Nat
  BY WindowInNat, TicksAssumption DEF ReadableWindows
<1>2. CASE W <= HotTier
  BY <1>2, HotReadsExact DEF DailyInv
<1>3. CASE W > HotTier
  BY <1>3, WarmReadsExact
<1> QED  BY <1>1, <1>2, <1>3

(* GetRollingFeatures counts and sums exactly the facts behind the cutoff   *)
(* of the tier that serves the window: TTL eviction never takes a raw row   *)
(* or a daily bucket that a readable window still covers.                   *)
THEOREM ReadsAreExact == Spec => []ReadsExact
<1>1. ASSUME TypeOK, AllRemembered, DailyInv PROVE ReadsExact
  BY <1>1, ReadIsInWindow DEF ReadsExact, InWindow, Total, Amount
<1> QED  BY <1>1, TypeCorrect, RememberedAlways, DailyKept, PTL

----------------------------------------------------------------------------
(* Wider windows, and the passing of time *)

(* Every midnight is the start of a minute.                                 *)
LEMMA MidnightIsMinute ==
  ASSUME NEW t \in Nat
  PROVE  FloorTo(t, Day) <= FloorTo(t, Minute)
<1>1. FloorTo(t, Day) \in 0 .. t /\ FloorTo(t, Day) % Day = 0
  BY TicksInNat, FloorBounds
<1>2. PICK p \in Nat : FloorTo(t, Day) = Day * p
  <2>1. PICK d \in Nat : d = FloorTo(t, Day) /\ d % Day = 0
    BY <1>1
  <2> QED  BY <2>1, TicksInNat, MultipleIsProduct
<1>3. PICK r \in Nat : Day = Minute * r
  BY TicksInNat, TicksAssumption, MultipleIsProduct
<1>4. PICK q \in Nat : q = r * p
  BY SMT
<1>5. FloorTo(t, Day) = Minute * q
  BY <1>2, <1>3, <1>4, TicksInNat, SMT
<1>6. FloorTo(t, Day) % Minute = 0
  BY <1>5, TicksInNat, MultipleHasNoRest
<1> QED  BY <1>1, <1>6, TicksInNat, FloorIsLargest

(* What a hot window covers, every warm window covers: the hot tier is a    *)
(* number of whole days, and the warm cutoff is floored to the day.         *)
LEMMA WarmReachesHot ==
  ASSUME NEW t \in Nat, NEW at \in Nat, NEW V \in Nat, NEW W \in Nat,
         V <= HotTier, HotTier < W, at > FloorTo(t, Minute) - V
  PROVE  FloorTo(at, Day) > FloorTo(t, Day) - W
<1>1. HotTier \in Nat /\ HotTier % Day = 0
  BY TicksAssumption, HotTierAssumption
<1>2. PICK a \in Nat : a = FloorTo(t, Day) /\ a % Day = 0 /\ a <= FloorTo(t, Minute)
                       /\ FloorTo(t, Minute) \in Nat
  BY TicksInNat, FloorBounds, MidnightIsMinute
<1>3. PICK b \in Nat : b = FloorTo(at, Day) /\ b % Day = 0 /\ at < b + Day
  <2>1. /\ FloorTo(at, Day) \in 0 .. at /\ at - Day < FloorTo(at, Day)
        /\ FloorTo(at, Day) % Day = 0
    BY TicksInNat, FloorBounds
  <2>2. FloorTo(at, Day) \in Nat /\ at < FloorTo(at, Day) + Day
    BY <2>1, TicksInNat
  <2> QED  BY <2>1, <2>2
<1>4. PICK m \in Nat : m = b + HotTier
  BY <1>1
<1>5. m % Day = 0
  <2>1. (b + HotTier) % Day = 0
    BY <1>1, <1>3, TicksInNat, SumOfMultiples
  <2> QED  BY <1>4, <2>1, Zenon
<1>6. ~ (a > m)
  <2>1. a > m => a >= m + Day
    BY <1>2, <1>5, TicksInNat, MultiplesApart
  <2>2. a - HotTier < b + Day
    BY <1>1, <1>2, <1>3, TicksInNat
  <2> QED  BY <1>1, <1>4, <2>1, <2>2, TicksInNat
<1> QED  BY <1>1, <1>2, <1>3, <1>4, <1>6

LEMMA InWindowNests ==
  ASSUME TypeOK, NEW c, NEW f, NEW V \in Windows, NEW W \in Windows, V <= W
  PROVE  InWindow(c, V, f) \subseteq InWindow(c, W, f)
<1>1. V \in Nat /\ W \in Nat /\ HotTier \in Nat /\ now \in Nat
  BY WindowInNat, TicksAssumption DEF TypeOK, Time
<1>2. MinuteCutoff(W) <= MinuteCutoff(V) /\ MinuteCutoff(W) \in Int /\ MinuteCutoff(V) \in Int
  BY <1>1, TicksInNat, FloorBounds DEF MinuteCutoff
<1>3. DayCutoff(W) <= DayCutoff(V) /\ DayCutoff(W) \in Int /\ DayCutoff(V) \in Int
  BY <1>1, TicksInNat, FloorBounds DEF DayCutoff
<1> SUFFICES ASSUME NEW x \in InWindow(c, V, f) PROVE x \in InWindow(c, W, f)
  OBVIOUS
<1>4. x \in FactsOf(c, f) /\ x.at \in Nat /\ FloorTo(x.at, Day) \in Nat
  BY FactFields, TicksInNat, FloorBounds DEF InWindow, FactsOf
<1>5. CASE W <= HotTier
  BY <1>1, <1>2, <1>4, <1>5 DEF InWindow
<1>6. CASE V > HotTier
  BY <1>1, <1>3, <1>4, <1>6 DEF InWindow
<1>7. CASE V <= HotTier /\ HotTier < W
  <2>1. x.at > FloorTo(now, Minute) - V
    BY <1>7 DEF InWindow, MinuteCutoff
  <2>2. FloorTo(x.at, Day) > FloorTo(now, Day) - W
    BY <1>1, <1>4, <1>7, <2>1, WarmReachesHot
  <2> QED  BY <1>1, <1>4, <1>7, <2>2 DEF InWindow, DayCutoff
<1> QED  BY <1>1, <1>5, <1>6, <1>7

LEMMA InWindowFinite ==
  ASSUME DailyInv, NEW c, NEW W, NEW f
  PROVE  IsFiniteSet(InWindow(c, W, f))
<1>1. InWindow(c, W, f) \subseteq ledger
  BY DEF InWindow, FactsOf
<1> QED  BY <1>1, FS_Subset DEF DailyInv

(* A window that is too wide to be read may have lost facts; it counts none *)
(* that is not there.                                                       *)
LEMMA HotReadsNoMore ==
  ASSUME AllRemembered, DailyInv,
         NEW c \in Customers, NEW V \in Windows, NEW f \in StableFilters, V <= HotTier
  PROVE  RollingCount(c, V, f) \in 0 .. Cardinality(InWindow(c, V, f))
<1> PICK R, L, t, cut : R = raw /\ L = ledger /\ t = now /\ cut = MinuteCutoff(V)
  OBVIOUS
<1> PICK T, F : T = RowsAfter(R, c, cut, f) /\ F = FactsAfter(L, c, cut, f)
  OBVIOUS
<1>1. \A k \in Keys : Stands(R, L, t, k)
  BY DEF AllRemembered, Remembered
<1>2. IsFiniteSet(L)
  BY DEF DailyInv
<1>3. PICK g : g \in Injection(T, F)
  BY <1>1, <1>2, RowsAreFacts
<1>4. F = InWindow(c, V, f)
  BY DEF FactsAfter, InWindow, FactsOf
<1>5. Cardinality(T) \in 0 .. Cardinality(F)
  <2>1. IsFiniteSet(F)
    BY <1>4, InWindowFinite
  <2>2. IsFiniteSet(T) /\ Cardinality(T) <= Cardinality(F)
    BY <1>3, <2>1, FS_Injection
  <2> QED  BY <2>1, <2>2, FS_CardinalityType
<1> QED  BY <1>4, <1>5, HotIsRowsAfter DEF RollingCount

(* GetRollingFeatures: a wider window never counts less, across the         *)
(* boundary between TXN_RAW and CUSTOMER_DAILY too.                         *)
THEOREM WiderWindowsCountNoLess == Spec => []WindowsNest
<1>1. ASSUME TypeOK, AllRemembered, DailyInv PROVE WindowsNest
  <2> SUFFICES ASSUME NEW c \in Customers, NEW f \in StableFilters,
                      NEW V \in Windows, NEW W \in ReadableWindows, V <= W
               PROVE  RollingCount(c, V, f) <= RollingCount(c, W, f)
    BY DEF WindowsNest
  <2>1. W \in Windows /\ V \in Nat /\ W \in Nat /\ HotTier \in Nat
    BY WindowInNat, TicksAssumption DEF ReadableWindows
  <2>2. InWindow(c, V, f) \subseteq InWindow(c, W, f)
    BY <1>1, <2>1, InWindowNests
  <2>3. PICK m, n : m = Cardinality(InWindow(c, V, f)) /\ n = Cardinality(InWindow(c, W, f))
    OBVIOUS
  <2>4. m \in Nat /\ n \in Nat /\ m <= n
    <3>1. IsFiniteSet(InWindow(c, V, f)) /\ IsFiniteSet(InWindow(c, W, f))
      BY <1>1, InWindowFinite
    <3> QED  BY <2>2, <2>3, <3>1, FS_Subset, FS_CardinalityType
  <2>5. RollingCount(c, W, f) = n
    BY <1>1, <2>3, ReadIsInWindow
  <2>6. CASE V <= HotTier
    <3>1. RollingCount(c, V, f) \in 0 .. m
      BY <1>1, <2>3, <2>6, HotReadsNoMore
    <3> QED  BY <2>4, <2>5, <3>1
  <2>7. CASE V > HotTier
    <3>1. V \in ReadableWindows
      BY <2>1, <2>7, TicksInNat DEF ReadableWindows
    <3>2. RollingCount(c, V, f) = m
      BY <1>1, <2>3, <3>1, ReadIsInWindow
    <3> QED  BY <2>4, <2>5, <3>2
  <2> QED  BY <2>1, <2>6, <2>7
<1> QED  BY <1>1, TypeCorrect, RememberedAlways, DailyKept, PTL

ReadsAreCounts ==
  \A c \in Customers, W \in ReadableWindows, f \in StableFilters :
    RollingCount(c, W, f) = Cardinality(InWindow(c, W, f))

(* Within one instant a window only gains facts.                            *)
LEMMA FactsOnlyGrow ==
  ASSUME [Next]_vars, TypeOK
  PROVE  ledger \subseteq ledger' /\ (now' = now \/ now' > now)
<1>1. now \in Int
  BY TicksInNat DEF TypeOK, Time
<1>2. ASSUME NEW c \in Customers, NEW t \in Txns, NEW at \in Time, NEW e \in Payloads,
             RecordTxn(c, t, at, e)
      PROVE  ledger \subseteq ledger' /\ now' = now
  BY <1>2 DEF RecordTxn, Record
<1>3. CASE Tick
  BY <1>1, <1>3 DEF Tick
<1> QED  BY <1>2, <1>3 DEF Next, EvictRaw, EvictDaily, vars

LEMMA WindowGains ==
  ASSUME TypeOK, [Next]_vars, ReadsAreCounts, ReadsAreCounts', DailyInv, DailyInv', now' = now,
         NEW c \in Customers, NEW W \in ReadableWindows, NEW f \in StableFilters
  PROVE  ~ (RollingCount(c, W, f)' < RollingCount(c, W, f))
<1> PICK A, B : A = InWindow(c, W, f) /\ B = InWindow(c, W, f)'
  OBVIOUS
<1>1. A \subseteq B
  BY FactsOnlyGrow DEF InWindow, FactsOf, MinuteCutoff, DayCutoff
<1>2. A \subseteq ledger /\ B \subseteq ledger'
  BY DEF InWindow, FactsOf
<1>3. IsFiniteSet(ledger) /\ IsFiniteSet(ledger')
  BY DEF DailyInv
<1>4. IsFiniteSet(A) /\ IsFiniteSet(B)
  BY <1>2, <1>3, FS_Subset
<1>5. Cardinality(A) <= Cardinality(B) /\ Cardinality(A) \in Nat /\ Cardinality(B) \in Nat
  BY <1>1, <1>4, FS_Subset, FS_CardinalityType
<1>6. RollingCount(c, W, f) = Cardinality(A)
  BY DEF ReadsAreCounts
<1>7. RollingCount(c, W, f)' = Cardinality(B)
  BY DEF ReadsAreCounts
<1> QED  BY <1>5, <1>6, <1>7

(* Neither a recorded event, late, future or duplicate, nor an eviction     *)
(* takes anything out of what GetRollingFeatures counts.                    *)
THEOREM OnlyTimeShrinks == Spec => OnlyTimeShrinksWindows
<1> DEFINE Shrinking ==
      \A c \in Customers, W \in ReadableWindows, f \in StableFilters :
        RollingCount(c, W, f)' < RollingCount(c, W, f) => now' > now
<1>1. TypeOK /\ AllRemembered /\ DailyInv => ReadsAreCounts
  BY ReadIsInWindow DEF ReadsAreCounts
<1>2. /\ TypeOK /\ [Next]_vars
      /\ ReadsAreCounts /\ ReadsAreCounts' /\ DailyInv /\ DailyInv'
      => Shrinking
  BY FactsOnlyGrow, WindowGains
<1>3. OnlyTimeShrinksWindows <=> [][Shrinking]_vars
  BY DEF OnlyTimeShrinksWindows
<1> HIDE DEF Shrinking
<1> QED  BY <1>1, <1>2, <1>3, TypeCorrect, RememberedAlways, DailyKept, PTL DEF Spec

----------------------------------------------------------------------------
(* The profile *)

(* sum / count rounded to the nearest, half up, at AvgScale.                *)
LEMMA AvgTicketRounds ==
  ASSUME NEW sum \in Nat, NEW count \in Nat \ {0}
  PROVE  LET error == AvgTicket(sum, count) * count - sum * AvgScale
         IN  /\ AvgTicket(sum, count) \in Nat
             /\ 2 * error <= count /\ 2 * error > -count
<1>1. AvgScale \in Nat
  BY TicksAssumption
<1>2. PICK x \in Nat : x = sum * AvgScale
  BY <1>1, SMT
<1>3. 2 * sum * AvgScale + count = 2 * x + count
  BY <1>1, <1>2, SMT
<1>4. PICK n \in Nat, d \in Nat \ {0} : n = 2 * x + count /\ d = 2 * count
  OBVIOUS
<1>5. PICK q \in Nat : q = AvgTicket(sum, count) /\ q = n \div d
  BY <1>3, <1>4, QuotientAndRest DEF AvgTicket
<1>6. n = d * q + (n % d) /\ n % d \in 0 .. (d - 1)
  <2>1. n = d * (n \div d) + (n % d) /\ n % d \in 0 .. (d - 1)
    BY QuotientAndRest
  <2> QED  BY <1>5, <2>1, Zenon
<1>7. PICK y \in Nat : y = q * count
  BY SMT
<1>8. d * q = 2 * y
  BY <1>4, <1>7, SMT
<1>9. 2 * (y - x) <= count /\ 2 * (y - x) > -count
  BY <1>4, <1>6, <1>8
<1> QED  BY <1>2, <1>5, <1>7, <1>9

(* A profile row after an event of lastTxnAt, over the facts L.             *)
ProfileHolds(p, L, c) ==
  LET F   == {x \in L : x.key[1] = c /\ Matches("txn", x.event)}
      F24 == FactsAfter(L, c, p.lastTxnAt - Day, "txn")
  IN  /\ p.lifeCount = Cardinality(F) /\ p.lifeSum = Total(F)
      /\ p.count24 = Cardinality(F24) /\ p.sum24 = Total(F24)
      /\ p.avg = AvgTicket(p.sum24, p.count24)

ProfileKept(c) ==
  IF profile[c] = None THEN FactsOf(c, "txn") = {} ELSE ProfileHolds(profile[c], ledger, c)
ProfileInv == \A c \in Customers : ProfileKept(c)

(* The 24 h inputs that a call finds in the raw rows are those of the facts.*)
LEMMA Inputs24h ==
  ASSUME NEW R, NEW L \in SUBSET Facts, IsFiniteSet(L), NEW t \in Int,
         \A k \in Keys : Stands(R, L, t, k),
         NEW c \in Customers, NEW at \in Time, t - MaxAge <= at
  PROVE  LET T == Rows24h(R, c, at)
             F == FactsAfter(L, c, at - Day, "txn")
         IN  /\ IsFiniteSet(F) /\ Cardinality(T) = Cardinality(F) /\ RowsTotal(R, c, T) = Total(F)
<1> PICK cut \in Int : cut = at - Day
  BY TicksInNat DEF Time
<1>1. t - cut <= RawTTL
  BY TicksInNat, RetentionAssumption DEF Time
<1>2. "txn" \in StableFilters
  BY DEF StableFilters, CustomerFilters
<1>3. PICK T, F : T = RowsAfter(R, c, cut, "txn") /\ F = FactsAfter(L, c, cut, "txn")
  OBVIOUS
<1>4. IsFiniteSet(F) /\ Cardinality(T) = Cardinality(F) /\ RowsTotal(R, c, T) = Total(F)
  BY <1>1, <1>2, <1>3, LiveRowsAreTheFacts
<1>5. T = Rows24h(R, c, at)
  BY <1>3 DEF RowsAfter, Rows24h, Matches
<1> QED  BY <1>3, <1>4, <1>5

LEMMA ProfileInit ==
  ASSUME Init
  PROVE  ProfileInv
BY DEF Init, ProfileInv, ProfileKept, FactsOf

LEMMA ProfileRecord ==
  ASSUME TypeOK, TypeOK', AllRemembered, AllRemembered', DailyInv, DailyInv', ProfileInv,
         NEW c \in Customers, NEW t \in Txns, NEW at \in Time, NEW e \in Payloads,
         RecordTxn(c, t, at, e)
  PROVE  ProfileInv' /\ profile'[c] # None
<1> PICK fact, duplicate, R, L, T, F24, p :
      /\ fact = [key |-> <<c, t>>, at |-> at, event |-> e] /\ duplicate = IsDuplicate(c, t)
      /\ R = raw' /\ L = ledger' /\ T = Rows24h(R, c, at)
      /\ F24 = FactsAfter(L, c, at - Day, "txn")
      /\ p = ProfileAfter(c, R, at, e, duplicate)
  OBVIOUS
<1>1. /\ now' = now /\ now - MaxAge <= at
      /\ profile' = [profile EXCEPT ![c] = p]
      /\ L = IF duplicate THEN ledger ELSE ledger \cup {fact}
  BY DEF RecordTxn, Record
<1>2. IsFiniteSet(F24) /\ Cardinality(T) = Cardinality(F24) /\ RowsTotal(R, c, T) = Total(F24)
  <2>1. \A k \in Keys : Stands(R, L, now, k)
    BY <1>1 DEF AllRemembered, Remembered
  <2>2. L \in SUBSET Facts /\ IsFiniteSet(L) /\ now \in Int
    BY TicksInNat DEF TypeOK, DailyInv, Time
  <2> QED  BY <1>1, <2>1, <2>2, Inputs24h
<1>3. \A x \in F24 : x.event.amount \in Nat
  BY PayloadsAssumption DEF FactsAfter, TypeOK, Facts, PayloadType
<1>4. Cardinality(F24) \in Nat /\ Total(F24) \in Nat
  BY <1>2, <1>3, FS_CardinalityType, TotalInNat
<1>5. /\ p.lastTxnAt = at
      /\ p.count24 = Cardinality(F24) /\ p.sum24 = Total(F24)
      /\ p.avg = AvgTicket(p.sum24, p.count24)
  BY <1>2 DEF ProfileAfter, RowsTotal
<1>6. p # None
  <2>1. AvgTicket(p.sum24, p.count24) \in Nat \cup {None}
    <3> PICK n \in Nat, s \in Nat : n = p.count24 /\ s = p.sum24
      BY <1>2, <1>4, <1>5 DEF ProfileAfter, RowsTotal
    <3>1. CASE n = 0
      BY <3>1 DEF AvgTicket
    <3>2. CASE n # 0
      BY <3>2, AvgTicketRounds
    <3> QED  BY <3>1, <3>2
  <2>2. /\ {p.firstSeen, p.lastTxnAt} \subseteq Time
        /\ p.lastCity \in Cities \cup {None}
        /\ {p.lifeCount, p.lifeSum} \subseteq Nat
    <3>1. duplicate \in BOOLEAN
      BY DEF IsDuplicate
    <3> QED  BY <3>1, ProfileAfterType
  <2>3. p \in ProfileRow
    BY <1>4, <1>5, <2>1, <2>2 DEF ProfileAfter, ProfileRow
  <2> QED  BY <2>3, NoRowAssumption
<1> PICK F, G : F = FactsOf(c, "txn")
                /\ G = {x \in L : x.key[1] = c /\ Matches("txn", x.event)}
  OBVIOUS
<1>7. p.lifeCount = Cardinality(G) /\ p.lifeSum = Total(G)
  <2>1. F \subseteq ledger /\ IsFiniteSet(F)
    BY FS_Subset DEF FactsOf, DailyInv
  <2>2. \A x \in F : x.event.amount \in Nat
    BY <2>1, FactFields DEF PayloadType
  <2>3. e.amount \in Nat
    BY PayloadsAssumption DEF PayloadType
  <2>4. PICK n \in Nat, s \in Nat : n = Cardinality(F) /\ s = Total(F)
    BY <2>1, <2>2, FS_CardinalityType, TotalInNat
  <2>5. IF profile[c] = None THEN n = 0 /\ s = 0
        ELSE profile[c].lifeCount = n /\ profile[c].lifeSum = s
    <3>1. CASE profile[c] = None
      <4>1. F = {}
        BY <3>1 DEF ProfileInv, ProfileKept
      <4> QED  BY <2>4, <3>1, <4>1, TotalOfNone, FS_EmptySet
    <3>2. CASE profile[c] # None
      BY <2>4, <3>2 DEF ProfileInv, ProfileKept, ProfileHolds, FactsOf
    <3> QED  BY <3>1, <3>2
  <2>6. /\ p.lifeCount = n + (IF ~duplicate /\ Matches("txn", e) THEN 1 ELSE 0)
        /\ p.lifeSum = s + (IF ~duplicate /\ Matches("txn", e) THEN e.amount ELSE 0)
    BY <2>5 DEF ProfileAfter
  <2>7. CASE ~duplicate /\ Matches("txn", e)
    <3>1. fact \notin F
      BY <1>1, <2>1, <2>7, NewFact
    <3>2. G = F \cup {fact} /\ fact.event.amount = e.amount
      BY <1>1, <2>7 DEF FactsOf
    <3>3. Cardinality(F \cup {fact}) = Cardinality(F) + 1
      BY <2>1, <3>1, FS_AddElement
    <3>4. Total(F \cup {fact}) = Total(F) + e.amount
      BY <2>1, <2>2, <2>3, <3>1, <3>2, TotalAdd
    <3> QED  BY <2>4, <2>6, <2>7, <3>2, <3>3, <3>4
  <2>8. CASE ~(~duplicate /\ Matches("txn", e))
    <3>1. G = F
      BY <1>1, <2>8 DEF FactsOf
    <3>2. p.lifeCount = n + 0 /\ p.lifeSum = s + 0
      BY <2>6, <2>8
    <3>3. p.lifeCount = n /\ p.lifeSum = s
      BY <3>2
    <3> QED  BY <2>4, <3>1, <3>3, Zenon
  <2> QED  BY <2>7, <2>8
<1>8. ProfileHolds(p, L, c)
  BY <1>5, <1>7 DEF ProfileHolds
<1>9. ASSUME NEW o \in Customers, o # c PROVE ProfileKept(o)'
  <2>1. \A x \in L : x.key[1] = o => x \in ledger
    BY <1>1, <1>9
  <2>2. \A cut, f : FactsAfter(L, o, cut, f) = FactsAfter(ledger, o, cut, f)
    BY <1>1, <2>1 DEF FactsAfter
  <2>3. \A f : FactsOf(o, f)' = FactsOf(o, f)
    BY <1>1, <2>1 DEF FactsOf
  <2>4. profile'[o] = profile[o]
    BY <1>1, <1>9 DEF TypeOK, ProfileOK
  <2>5. CASE profile[o] = None
    BY <2>3, <2>4, <2>5 DEF ProfileInv, ProfileKept
  <2>6. CASE profile[o] # None
    <3>1. ProfileHolds(profile[o], ledger, o)
      BY <2>6 DEF ProfileInv, ProfileKept
    <3>2. {x \in L : x.key[1] = o /\ Matches("txn", x.event)} =
            {x \in ledger : x.key[1] = o /\ Matches("txn", x.event)}
      BY <1>1, <2>1
    <3>3. ProfileHolds(profile[o], L, o)
      BY <2>2, <3>1, <3>2 DEF ProfileHolds
    <3> QED  BY <2>4, <2>6, <3>3 DEF ProfileKept
  <2> QED  BY <2>5, <2>6
<1>10. ProfileKept(c)' /\ profile'[c] # None
  <2>1. profile'[c] = p
    BY <1>1 DEF TypeOK, ProfileOK
  <2> QED  BY <1>6, <1>8, <2>1 DEF ProfileKept
<1> QED  BY <1>9, <1>10 DEF ProfileInv

LEMMA ProfileNext ==
  ASSUME TypeOK, TypeOK', AllRemembered, AllRemembered', DailyInv, DailyInv', ProfileInv,
         [Next]_vars
  PROVE  ProfileInv'
<1>1. ASSUME UNCHANGED <<profile, ledger>> PROVE ProfileInv'
  BY <1>1 DEF ProfileInv, ProfileKept, FactsOf
<1>2. ASSUME NEW c \in Customers, NEW t \in Txns, EvictRaw(c, t) PROVE ProfileInv'
  BY <1>1, <1>2 DEF EvictRaw
<1>3. ASSUME NEW c \in Customers, NEW d \in Days, EvictDaily(c, d) PROVE ProfileInv'
  BY <1>1, <1>3 DEF EvictDaily
<1>4. CASE Tick
  BY <1>1, <1>4 DEF Tick
<1>5. CASE UNCHANGED vars
  BY <1>1, <1>5 DEF vars
<1> QED  BY <1>2, <1>3, <1>4, <1>5, ProfileRecord DEF Next

(* RecordTxn, after any history of retries, late events and evictions: the  *)
(* profile's lifetime totals are over every fact; its 24 h count and sum    *)
(* are those of the window that ends at LAST_TXN_AT; AVG_TICKET is their    *)
(* quotient to within half a unit of its scale.                             *)
THEOREM ProfileIsExact == Spec => []ProfileExact
<1>1. TypeOK /\ TypeOK' /\ AllRemembered /\ AllRemembered' /\ DailyInv /\ DailyInv' /\ ProfileInv
        /\ [Next]_vars => ProfileInv'
  BY ProfileNext
<1>2. ASSUME TypeOK, DailyInv, ProfileInv PROVE ProfileExact
  <2> SUFFICES ASSUME NEW c \in Customers, profile[c] # None
               PROVE  LET p == profile[c]
                          F == FactsOf(c, "txn")
                          F24 == {x \in F : x.at > p.lastTxnAt - Day}
                      IN  /\ p.lifeCount = Cardinality(F) /\ p.lifeSum = Amount(F)
                          /\ p.count24 = Cardinality(F24) /\ p.sum24 = Amount(F24)
                          /\ p.count24 = 0 <=> p.avg = None
                          /\ p.count24 # 0 =>
                               LET error == p.avg * p.count24 - p.sum24 * AvgScale
                               IN  2 * error <= p.count24 /\ 2 * error > -p.count24
    BY DEF ProfileExact
  <2> PICK p, F, F24 : /\ p = profile[c] /\ F = FactsOf(c, "txn")
                       /\ F24 = {x \in F : x.at > p.lastTxnAt - Day}
    OBVIOUS
  <2>1. ProfileHolds(p, ledger, c)
    BY <1>2 DEF ProfileInv, ProfileKept
  <2>2. F24 = FactsAfter(ledger, c, p.lastTxnAt - Day, "txn")
    BY DEF FactsAfter, FactsOf
  <2>3. /\ p.lifeCount = Cardinality(F) /\ p.lifeSum = Amount(F)
        /\ p.count24 = Cardinality(F24) /\ p.sum24 = Amount(F24)
        /\ p.avg = AvgTicket(p.sum24, p.count24)
    BY <2>1, <2>2 DEF ProfileHolds, FactsOf, Total, Amount
  <2>4. F24 \subseteq ledger /\ IsFiniteSet(F24) /\ \A x \in F24 : x.event.amount \in Nat
    BY <1>2, FactFields, FS_Subset DEF DailyInv, FactsOf, PayloadType
  <2>5. p.count24 \in Nat /\ p.sum24 \in Nat
    BY <2>3, <2>4, FS_CardinalityType, TotalInNat DEF Total, Amount
  <2>6. p.count24 = 0 => p.avg = None
    BY <2>3 DEF AvgTicket
  <2>7. p.count24 # 0 => /\ p.avg # None
                         /\ LET error == p.avg * p.count24 - p.sum24 * AvgScale
                            IN  2 * error <= p.count24 /\ 2 * error > -p.count24
    <3>1. PICK n, s, a : n = p.count24 /\ s = p.sum24 /\ a = p.avg
      OBVIOUS
    <3>2. ASSUME n # 0
          PROVE  a # None /\ LET error == a * n - s * AvgScale
                             IN  2 * error <= n /\ 2 * error > -n
      <4>1. n \in Nat \ {0} /\ s \in Nat /\ a = AvgTicket(s, n)
        BY <2>3, <2>5, <3>1, <3>2
      <4>2. a \in Nat /\ LET error == a * n - s * AvgScale
                         IN  2 * error <= n /\ 2 * error > -n
        BY <4>1, AvgTicketRounds
      <4> QED  BY <4>2, NoneAssumption
    <3> QED  BY <3>1, <3>2
  <2> QED  BY <2>3, <2>6, <2>7
<1> QED
  BY <1>1, <1>2, ProfileInit, TypeCorrect, RememberedAlways, DailyKept, PTL DEF Spec

----------------------------------------------------------------------------
(* Attempts *)

(* An attempt is dated no earlier than this much before its row.            *)
Lateness == MaxAge + MaxAhead

(* The rows dated at s or after, and the stored days from s on.             *)
RowsFrom(R, c, s) == {t \in Txns : R[<<c, t>>] # None /\ R[<<c, t>>].at >= s}
DaysFrom(D, c, s) == {d \in Days : D[<<c, d>>] # None /\ d >= s}
RowAttempts(R, c, s) == SumFunction([t \in RowsFrom(R, c, s) |-> R[<<c, t>>].attempts])
DayAttempts(D, c, s) == SumFunction([d \in DaysFrom(D, c, s) |-> D[<<c, d>>].attempts])

(* Every attempt of a row is in a day that is at most so much older.        *)
AttemptsFrom(c, s) == RowAttempts(raw, c, s + Lateness + Day - 1) <= DayAttempts(daily, c, s)

(* A row is dated no further ahead than its first call allowed.  Of every   *)
(* span of days that the TTL has not reached, the attempts are all there.   *)
AttemptsInv ==
  /\ \A c \in Customers : IsFiniteSet({t \in Txns : raw[<<c, t>>] # None})
  /\ \A k \in Keys : raw[k] # None => raw[k].at <= now + MaxAhead
  /\ \A c \in Customers, s \in Int : now - s <= DailyTTL => AttemptsFrom(c, s)

LEMMA AttemptsInit == Init => AttemptsInv
<1> SUFFICES ASSUME Init PROVE AttemptsInv
  OBVIOUS
<1>1. \A c \in Customers, t \in Txns : raw[<<c, t>>] = None
  BY DEF Init, Keys
<1>2. \A c \in Customers, d \in Days : daily[<<c, d>>] = None
  BY DEF Init
<1>3. ASSUME NEW c \in Customers, NEW s \in Int PROVE AttemptsFrom(c, s)
  <2>1. PICK T, K : T = RowsFrom(raw, c, s + Lateness + Day - 1) /\ K = DaysFrom(daily, c, s)
    OBVIOUS
  <2>2. T = {} /\ K = {}
    BY <1>1, <1>2, <2>1 DEF RowsFrom, DaysFrom
  <2>3. PICK a, b : /\ a = [t \in T |-> raw[<<c, t>>].attempts]
                    /\ b = [d \in K |-> daily[<<c, d>>].attempts]
    OBVIOUS
  <2>4. SumFunctionOnSet(a, T) = 0 /\ SumFunctionOnSet(b, K) = 0
    BY <2>2, SumEmpty
  <2>5. SumFunction(a) = SumFunctionOnSet(a, T) /\ SumFunction(b) = SumFunctionOnSet(b, K)
    BY <2>3 DEF SumFunction
  <2> QED  BY <2>1, <2>3, <2>4, <2>5 DEF AttemptsFrom, RowAttempts, DayAttempts
<1>4. \A c \in Customers : {t \in Txns : raw[<<c, t>>] # None} = {}
  BY <1>1
<1>5. \A c \in Customers : IsFiniteSet({t \in Txns : raw[<<c, t>>] # None})
  BY <1>4, FS_EmptySet
<1>6. \A k \in Keys : raw[k] = None
  BY DEF Init
<1> QED  BY <1>3, <1>5, <1>6 DEF AttemptsInv

LEMMA RowsFromFinite ==
  ASSUME TypeOK, NEW c \in Customers, IsFiniteSet({t \in Txns : raw[<<c, t>>] # None}),
         NEW s \in Int
  PROVE  /\ IsFiniteSet(RowsFrom(raw, c, s)) /\ IsFiniteSet(DaysFrom(daily, c, s))
         /\ \A t \in RowsFrom(raw, c, s) : raw[<<c, t>>] \in RawRow
                                           /\ raw[<<c, t>>].attempts \in Nat
         /\ \A d \in DaysFrom(daily, c, s) : daily[<<c, d>>] \in BucketOf(CustomerFilters)
                                             /\ daily[<<c, d>>].attempts \in Nat
<1>1. IsFiniteSet(RowsFrom(raw, c, s))
  BY FS_Subset DEF RowsFrom
<1>2. IsFiniteSet(DaysFrom(daily, c, s))
  <2>1. IsFiniteSet(0 .. MaxTime)
    BY TicksInNat, FS_Interval
  <2> QED  BY <2>1, FS_Subset DEF DaysFrom, Days, Time
<1>3. \A t \in RowsFrom(raw, c, s) : raw[<<c, t>>] \in RawRow
  BY DEF RowsFrom, TypeOK, Keys
<1>4. \A d \in DaysFrom(daily, c, s) : daily[<<c, d>>] \in BucketOf(CustomerFilters)
  BY DEF DaysFrom, TypeOK
<1> QED  BY <1>1, <1>2, <1>3, <1>4 DEF RawRow, BucketOf

(* A call adds one attempt to its day.                                      *)
LEMMA DayOneMore ==
  ASSUME TypeOK, NEW c \in Customers, NEW t \in Txns, NEW at \in Time, NEW e \in Payloads,
         Record(c, t, at, e), IsFiniteSet({u \in Txns : raw[<<c, u>>] # None}), NEW s \in Int
  PROVE  DayAttempts(daily', c, s)
           = DayAttempts(daily, c, s) + (IF FloorTo(at, Day) >= s THEN 1 ELSE 0)
<1> PICK b, row, after : /\ b = FloorTo(at, Day) /\ row = daily[<<c, b>>]
                         /\ after = Accumulated(row, CustomerFilters, e, IsDuplicate(c, t))
  OBVIOUS
<1>1. /\ b \in Days /\ row \in BucketOf(CustomerFilters) \cup {None} /\ e \in PayloadType
      /\ daily' = [daily EXCEPT ![<<c, b>>] = after]
  BY DayOfEvent, PayloadsAssumption DEF TypeOK, Record
<1>2. /\ daily'[<<c, b>>] = after
      /\ \A d \in Days : d # b => daily'[<<c, d>>] = daily[<<c, d>>]
  BY <1>1 DEF TypeOK
<1>3. after # None /\ after.attempts = (IF row = None THEN 0 ELSE row.attempts) + 1
  <2>1. after \in BucketOf(CustomerFilters)
    BY <1>1, AccumulatedType DEF IsDuplicate
  <2>2. after.attempts = RowOrEmpty(row, CustomerFilters).attempts + 1
    <3>1. IsDuplicate(c, t) \in BOOLEAN
      BY DEF IsDuplicate
    <3> QED  BY <1>1, <3>1, AccumulatedAttempts
  <2> QED  BY <2>1, <2>2, NoRowAssumption DEF RowOrEmpty, EmptyBucket
<1>4. PICK K, L, f, g : /\ K = DaysFrom(daily, c, s) /\ L = DaysFrom(daily', c, s)
                        /\ f = [d \in K |-> daily[<<c, d>>].attempts]
                        /\ g = [d \in L |-> daily'[<<c, d>>].attempts]
  OBVIOUS
<1>5. IsFiniteSet(K) /\ \A d \in K : f[d] \in Nat
  BY <1>4, RowsFromFinite
<1>6. /\ DayAttempts(daily, c, s) = SumFunctionOnSet(f, K)
      /\ DayAttempts(daily', c, s) = SumFunctionOnSet(g, L)
  BY <1>4 DEF DayAttempts, SumFunction
<1>7. CASE b >= s
  <2>1. L = K \cup {b} /\ (b \in K <=> row # None)
    BY <1>1, <1>2, <1>3, <1>4, <1>7 DEF DaysFrom
  <2>2. \A d \in K : d # b => g[d] = f[d]
    BY <1>2, <1>4, <2>1 DEF DaysFrom
  <2>3. g[b] = (IF b \in K THEN f[b] ELSE 0) + 1
    BY <1>2, <1>3, <1>4, <2>1
  <2>4. SumFunctionOnSet(g, K \cup {b}) = SumFunctionOnSet(f, K) + 1
    BY <1>5, <2>2, <2>3, SumOneMore
  <2> QED  BY <1>6, <1>7, <2>1, <2>4
<1>8. CASE ~(b >= s)
  <2>1. L = K /\ b \notin K
    BY <1>1, <1>2, <1>4, <1>8 DEF DaysFrom
  <2>2. \A d \in K : d \in Days /\ d # b
    BY <1>4, <2>1 DEF DaysFrom
  <2>3. f = g
    BY <1>2, <1>4, <2>1, <2>2
  <2>4. SumFunctionOnSet(f, K) \in Nat
    BY <1>5, SumInNat
  <2> QED  BY <1>6, <1>8, <2>1, <2>3, <2>4
<1> QED  BY <1>7, <1>8

(* And one to its row, which keeps its date.                                *)
LEMMA RowOneMore ==
  ASSUME TypeOK, NEW c \in Customers, NEW t \in Txns, NEW at \in Time, NEW e \in Payloads,
         Record(c, t, at, e), IsFiniteSet({u \in Txns : raw[<<c, u>>] # None}), NEW s \in Int
  PROVE  RowAttempts(raw', c, s)
           = RowAttempts(raw, c, s)
             + (IF (IF IsDuplicate(c, t) THEN raw[<<c, t>>].at ELSE at) >= s THEN 1 ELSE 0)
<1> PICK dated, after :
      /\ dated = (IF IsDuplicate(c, t) THEN raw[<<c, t>>].at ELSE at)
      /\ after = (IF IsDuplicate(c, t) THEN Retried(raw[<<c, t>>], at, e) ELSE Inserted(at, e))
  OBVIOUS
<1>1. /\ <<c, t>> \in Keys /\ raw' = [raw EXCEPT ![<<c, t>>] = after]
      /\ raw' \in [Keys -> RawRow \cup {None}]
  BY RawAfterType DEF Record, RawAfter, Keys
<1>2. /\ raw'[<<c, t>>] = after
      /\ \A u \in Txns : u # t => raw'[<<c, u>>] = raw[<<c, u>>]
  BY <1>1 DEF TypeOK, Keys
<1>3. /\ after # None /\ after.at = dated
      /\ after.attempts = (IF IsDuplicate(c, t) THEN raw[<<c, t>>].attempts ELSE 0) + 1
  <2>1. after \in RawRow
    <3>1. CASE IsDuplicate(c, t)
      <4>1. raw[<<c, t>>] \in RawRow /\ e.result \in PayResults
        BY <1>1, <3>1, PayloadsAssumption DEF TypeOK, IsDuplicate, PayloadType
      <4> QED  BY <3>1, <4>1, RetriedType
    <3>2. CASE ~IsDuplicate(c, t)
      BY <3>2, PayloadsAssumption DEF Inserted, RawRow
    <3> QED  BY <3>1, <3>2
  <2>2. after.at = dated
    BY DEF Retried, Inserted
  <2>3. after.attempts = (IF IsDuplicate(c, t) THEN raw[<<c, t>>].attempts ELSE 0) + 1
    BY DEF Retried, Inserted
  <2> QED  BY <2>1, <2>2, <2>3, RowIsSomething
<1>4. PICK K, L, f, g : /\ K = RowsFrom(raw, c, s) /\ L = RowsFrom(raw', c, s)
                        /\ f = [u \in K |-> raw[<<c, u>>].attempts]
                        /\ g = [u \in L |-> raw'[<<c, u>>].attempts]
  OBVIOUS
<1>5. IsFiniteSet(K) /\ \A u \in K : f[u] \in Nat
  BY <1>4, RowsFromFinite
<1>6. /\ RowAttempts(raw, c, s) = SumFunctionOnSet(f, K)
      /\ RowAttempts(raw', c, s) = SumFunctionOnSet(g, L)
  BY <1>4 DEF RowAttempts, SumFunction
<1>7. CASE dated >= s
  <2>1. L = K \cup {t} /\ (t \in K <=> IsDuplicate(c, t))
    BY <1>2, <1>3, <1>4, <1>7 DEF RowsFrom, IsDuplicate
  <2>2. \A u \in K : u # t => g[u] = f[u]
    BY <1>2, <1>4, <2>1 DEF RowsFrom
  <2>3. g[t] = (IF t \in K THEN f[t] ELSE 0) + 1
    BY <1>2, <1>3, <1>4, <2>1
  <2>4. SumFunctionOnSet(g, K \cup {t}) = SumFunctionOnSet(f, K) + 1
    BY <1>5, <2>2, <2>3, SumOneMore
  <2> QED  BY <1>6, <1>7, <2>1, <2>4
<1>8. CASE ~(dated >= s)
  <2>1. L = K /\ t \notin K
    BY <1>2, <1>3, <1>4, <1>8 DEF RowsFrom, IsDuplicate
  <2>2. \A u \in K : u \in Txns /\ u # t
    BY <1>4, <2>1 DEF RowsFrom
  <2>3. f = g
    BY <1>2, <1>4, <2>1, <2>2
  <2>4. SumFunctionOnSet(f, K) \in Nat
    BY <1>5, SumInNat
  <2> QED  BY <1>6, <1>8, <2>1, <2>3, <2>4
<1> QED  BY <1>7, <1>8

(* What is not the customer of the call stays as it was.                    *)
LEMMA OthersStay ==
  ASSUME TypeOK, NEW c \in Customers, NEW t \in Txns, NEW at \in Time, NEW e \in Payloads,
         Record(c, t, at, e), NEW o \in Customers, o # c
  PROVE  /\ \A u \in Txns : raw'[<<o, u>>] = raw[<<o, u>>]
         /\ \A d \in Days : daily'[<<o, d>>] = daily[<<o, d>>]
<1>1. /\ \E row : raw' = [raw EXCEPT ![<<c, t>>] = row]
      /\ \E b, row : daily' = [daily EXCEPT ![<<c, b>>] = row]
  BY DEF Record, RawAfter
<1> QED  BY <1>1 DEF TypeOK, Keys

LEMMA SameAttempts ==
  ASSUME NEW R, NEW Q, NEW D, NEW E, NEW c,
         \A u \in Txns : Q[<<c, u>>] = R[<<c, u>>], \A d \in Days : E[<<c, d>>] = D[<<c, d>>],
         NEW s
  PROVE  RowAttempts(Q, c, s) = RowAttempts(R, c, s) /\ DayAttempts(E, c, s) = DayAttempts(D, c, s)
<1>1. RowsFrom(Q, c, s) = RowsFrom(R, c, s) /\ DaysFrom(E, c, s) = DaysFrom(D, c, s)
  BY DEF RowsFrom, DaysFrom
<1>2. [t \in RowsFrom(Q, c, s) |-> Q[<<c, t>>].attempts]
        = [t \in RowsFrom(R, c, s) |-> R[<<c, t>>].attempts]
  BY <1>1 DEF RowsFrom
<1>3. [d \in DaysFrom(E, c, s) |-> E[<<c, d>>].attempts]
        = [d \in DaysFrom(D, c, s) |-> D[<<c, d>>].attempts]
  BY <1>1 DEF DaysFrom
<1> QED  BY <1>2, <1>3 DEF RowAttempts, DayAttempts

LEMMA AttemptsInNat ==
  ASSUME TypeOK, NEW c \in Customers, IsFiniteSet({u \in Txns : raw[<<c, u>>] # None}),
         NEW s \in Int
  PROVE  RowAttempts(raw, c, s) \in Nat /\ DayAttempts(daily, c, s) \in Nat
<1> PICK T, K, a, b : /\ T = RowsFrom(raw, c, s) /\ K = DaysFrom(daily, c, s)
                      /\ a = [t \in T |-> raw[<<c, t>>].attempts]
                      /\ b = [d \in K |-> daily[<<c, d>>].attempts]
  OBVIOUS
<1>1. /\ IsFiniteSet(T) /\ \A t \in T : a[t] \in Nat
      /\ IsFiniteSet(K) /\ \A d \in K : b[d] \in Nat
  BY RowsFromFinite
<1>2. SumFunctionOnSet(a, T) \in Nat /\ SumFunctionOnSet(b, K) \in Nat
  BY <1>1, SumInNat
<1> QED  BY <1>2 DEF RowAttempts, DayAttempts, SumFunction

LEMMA AttemptsRecord ==
  ASSUME TypeOK, AttemptsInv,
         NEW c \in Customers, NEW t \in Txns, NEW at \in Time, NEW e \in Payloads,
         RecordTxn(c, t, at, e)
  PROVE  AttemptsInv'
<1>1. /\ Record(c, t, at, e) /\ now' = now /\ now - MaxAge <= at /\ at <= now + MaxAhead
      /\ now \in Nat /\ at \in Nat /\ MaxAge \in Nat /\ MaxAhead \in Nat /\ Day \in Nat \ {0}
      /\ Lateness \in Nat /\ DailyTTL \in Nat
  BY TicksInNat, TicksAssumption DEF RecordTxn, TypeOK, Time, Lateness
<1>2. PICK dated : dated = (IF IsDuplicate(c, t) THEN raw[<<c, t>>].at ELSE at)
  OBVIOUS
<1>3. dated \in Nat /\ dated <= now + MaxAhead /\ dated - Lateness <= at
  <2>1. CASE IsDuplicate(c, t)
    <3>1. <<c, t>> \in Keys /\ raw[<<c, t>>] \in RawRow
      BY <2>1 DEF Keys, TypeOK, IsDuplicate
    <3>2. dated \in Nat /\ dated <= now + MaxAhead
      BY <1>2, <2>1, <3>1, TicksInNat DEF AttemptsInv, IsDuplicate, RawRow, Time
    <3> QED  BY <1>1, <3>2 DEF Lateness
  <2>2. CASE ~IsDuplicate(c, t)
    BY <1>1, <1>2, <2>2 DEF Lateness
  <2> QED  BY <2>1, <2>2
<1>4. PICK row : /\ raw' = [raw EXCEPT ![<<c, t>>] = row] /\ row.at = dated
  <2>1. PICK after : after = (IF IsDuplicate(c, t) THEN Retried(raw[<<c, t>>], at, e)
                                                   ELSE Inserted(at, e))
    OBVIOUS
  <2>2. raw' = [raw EXCEPT ![<<c, t>>] = after]
    BY <1>1, <2>1 DEF Record, RawAfter
  <2>3. after.at = dated
    BY <1>2, <2>1 DEF Retried, Inserted
  <2> QED  BY <2>2, <2>3
<1>5. \A k \in Keys : raw'[k] # None => raw'[k].at <= now' + MaxAhead
  BY <1>1, <1>3, <1>4 DEF AttemptsInv, TypeOK
<1>6. ASSUME NEW o \in Customers PROVE IsFiniteSet({u \in Txns : raw'[<<o, u>>] # None})
  <2>1. PICK S : S = {u \in Txns : raw[<<o, u>>] # None}
    OBVIOUS
  <2>2. IsFiniteSet(S \cup {t})
    BY <2>1, FS_AddElement DEF AttemptsInv
  <2>3. {u \in Txns : raw'[<<o, u>>] # None} \in SUBSET (S \cup {t})
    BY <1>4, <2>1 DEF TypeOK, Keys
  <2> QED  BY <2>2, <2>3, FS_Subset
<1>7. ASSUME NEW o \in Customers, NEW s \in Int, now - s <= DailyTTL PROVE AttemptsFrom(o, s)'
  <2>1. AttemptsFrom(o, s) /\ IsFiniteSet({u \in Txns : raw[<<o, u>>] # None})
    BY <1>7 DEF AttemptsInv
  <2>2. PICK z \in Int : z = s + Lateness + Day - 1
    BY <1>1
  <2>3. AttemptsFrom(o, s)' <=> RowAttempts(raw', o, z) <= DayAttempts(daily', o, s)
    BY <2>2 DEF AttemptsFrom, Lateness
  <2>4. RowAttempts(raw, o, z) <= DayAttempts(daily, o, s)
    BY <2>1, <2>2 DEF AttemptsFrom
  <2>5. CASE o # c
    <3>1. /\ \A u \in Txns : raw'[<<o, u>>] = raw[<<o, u>>]
          /\ \A d \in Days : daily'[<<o, d>>] = daily[<<o, d>>]
      BY <1>1, <2>5, OthersStay
    <3>2. /\ RowAttempts(raw', o, z) = RowAttempts(raw, o, z)
          /\ DayAttempts(daily', o, s) = DayAttempts(daily, o, s)
      BY <3>1, SameAttempts
    <3> QED  BY <2>3, <2>4, <3>2
  <2>6. CASE o = c
    <3>1. RowAttempts(raw, c, z) \in Nat /\ DayAttempts(daily, c, s) \in Nat
      BY <2>1, <2>6, AttemptsInNat
    <3>2. RowAttempts(raw', c, z)
            = RowAttempts(raw, c, z) + (IF dated >= z THEN 1 ELSE 0)
      BY <1>1, <1>2, <2>1, <2>6, RowOneMore
    <3>3. DayAttempts(daily', c, s)
            = DayAttempts(daily, c, s) + (IF FloorTo(at, Day) >= s THEN 1 ELSE 0)
      BY <1>1, <2>1, <2>6, DayOneMore
    <3>4. FloorTo(at, Day) \in Int /\ at - Day < FloorTo(at, Day)
      BY <1>1, FloorBounds
    <3>5. dated >= z => FloorTo(at, Day) >= s
      BY <1>1, <1>3, <2>2, <3>4
    <3> QED  BY <2>3, <2>4, <2>6, <3>1, <3>2, <3>3, <3>5
  <2> QED  BY <2>5, <2>6
<1> QED  BY <1>1, <1>5, <1>6, <1>7 DEF AttemptsInv

LEMMA AttemptsEvictRaw ==
  ASSUME TypeOK, AttemptsInv, NEW c \in Customers, NEW t \in Txns, EvictRaw(c, t)
  PROVE  AttemptsInv'
<1>1. /\ raw' = [raw EXCEPT ![<<c, t>>] = None] /\ daily' = daily /\ now' = now
  BY DEF EvictRaw
<1>2. \A o \in Customers, u \in Txns : raw'[<<o, u>>] # None => raw'[<<o, u>>] = raw[<<o, u>>]
  BY <1>1 DEF TypeOK, Keys
<1>3. \A k \in Keys : raw'[k] # None => raw'[k].at <= now' + MaxAhead
  BY <1>1 DEF TypeOK, AttemptsInv
<1>4. ASSUME NEW o \in Customers PROVE IsFiniteSet({u \in Txns : raw'[<<o, u>>] # None})
  <2>1. PICK S : S = {u \in Txns : raw[<<o, u>>] # None} /\ IsFiniteSet(S)
    BY DEF AttemptsInv
  <2>2. {u \in Txns : raw'[<<o, u>>] # None} \in SUBSET S
    BY <1>2, <2>1
  <2> QED  BY <2>1, <2>2, FS_Subset
<1>5. ASSUME NEW o \in Customers, NEW s \in Int, now - s <= DailyTTL PROVE AttemptsFrom(o, s)'
  <2>1. AttemptsFrom(o, s) /\ IsFiniteSet({u \in Txns : raw[<<o, u>>] # None})
    BY <1>5 DEF AttemptsInv
  <2>2. PICK z \in Int : z = s + Lateness + Day - 1
    BY TicksInNat, TicksAssumption DEF Lateness
  <2>3. PICK T, U, a, b :
          /\ T = RowsFrom(raw, o, z) /\ U = RowsFrom(raw', o, z)
          /\ a = [u \in T |-> raw[<<o, u>>].attempts] /\ b = [u \in U |-> raw'[<<o, u>>].attempts]
    OBVIOUS
  <2>4. U \in SUBSET T
    BY <1>2, <2>3 DEF RowsFrom
  <2>5. \A u \in U : b[u] = a[u]
    BY <1>2, <2>3, <2>4 DEF RowsFrom
  <2>6. IsFiniteSet(T) /\ IsFiniteSet(U) /\ \A u \in T : a[u] \in Nat
    BY <2>1, <2>3, <2>4, RowsFromFinite, FS_Subset
  <2>7. SumFunctionOnSet(b, U) = SumFunctionOnSet(a, U)
    BY <2>5, <2>6, SumSame
  <2>8. SumFunctionOnSet(a, U) <= SumFunctionOnSet(a, T)
    BY <2>4, <2>6, SumSubset
  <2>9. SumFunctionOnSet(a, U) \in Nat /\ SumFunctionOnSet(a, T) \in Nat
    BY <2>4, <2>6, SumInNat
  <2>10. /\ RowAttempts(raw, o, z) = SumFunctionOnSet(a, T)
         /\ RowAttempts(raw', o, z) = SumFunctionOnSet(b, U)
    BY <2>3 DEF RowAttempts, SumFunction
  <2>11. DayAttempts(daily, o, s) \in Nat
    BY <2>1, AttemptsInNat
  <2>12. RowAttempts(raw', o, z) <= DayAttempts(daily, o, s)
    BY <2>1, <2>2, <2>7, <2>8, <2>9, <2>10, <2>11 DEF AttemptsFrom
  <2> QED  BY <1>1, <2>2, <2>12 DEF AttemptsFrom, Lateness
<1> QED  BY <1>1, <1>3, <1>4, <1>5 DEF AttemptsInv

LEMMA AttemptsNext ==
  ASSUME TypeOK, AttemptsInv, [Next]_vars
  PROVE  AttemptsInv'
<1>1. CASE UNCHANGED <<raw, daily, now>>
  BY <1>1 DEF AttemptsInv, AttemptsFrom
<1>2. ASSUME NEW c \in Customers, NEW b \in Days, EvictDaily(c, b) PROVE AttemptsInv'
  <2>1. /\ now - b > DailyTTL /\ UNCHANGED <<raw, now>>
        /\ daily' = [daily EXCEPT ![<<c, b>>] = None]
        /\ b \in Int /\ now \in Int /\ DailyTTL \in Int
    BY <1>2, TicksInNat DEF EvictDaily, Days, Time, TypeOK
  <2>2. ASSUME NEW o \in Customers, NEW s \in Int, now - s <= DailyTTL PROVE AttemptsFrom(o, s)'
    <3>1. b < s
      BY <2>1, <2>2
    <3>2. \A d \in Days : d >= s => daily'[<<o, d>>] = daily[<<o, d>>]
      BY <2>1, <3>1 DEF TypeOK
    <3>3. DaysFrom(daily', o, s) = DaysFrom(daily, o, s)
      BY <3>2 DEF DaysFrom
    <3>4. [d \in DaysFrom(daily', o, s) |-> daily'[<<o, d>>].attempts]
            = [d \in DaysFrom(daily, o, s) |-> daily[<<o, d>>].attempts]
      BY <3>2, <3>3 DEF DaysFrom
    <3>5. DayAttempts(daily', o, s) = DayAttempts(daily, o, s)
      BY <3>4 DEF DayAttempts
    <3>6. AttemptsFrom(o, s)
      BY <2>2 DEF AttemptsInv
    <3> QED  BY <2>1, <3>5, <3>6 DEF AttemptsFrom
  <2> QED  BY <2>1, <2>2 DEF AttemptsInv
<1>3. CASE Tick
  <2>1. now' = now + 1 /\ raw' = raw /\ daily' = daily /\ now \in Nat /\ DailyTTL \in Nat
        /\ MaxAhead \in Nat
    BY <1>3, TicksInNat, TicksAssumption DEF Tick, TypeOK, Time
  <2>2. ASSUME NEW o \in Customers, NEW s \in Int, now' - s <= DailyTTL PROVE AttemptsFrom(o, s)'
    <3>1. AttemptsFrom(o, s)
      BY <2>1, <2>2 DEF AttemptsInv
    <3> QED  BY <2>1, <3>1 DEF AttemptsFrom
  <2>3. ASSUME NEW k \in Keys, raw'[k] # None PROVE raw'[k].at <= now' + MaxAhead
    <3>1. raw[k] \in RawRow /\ raw[k].at <= now + MaxAhead
      BY <2>1, <2>3 DEF AttemptsInv, TypeOK
    <3> QED  BY <2>1, <3>1, TicksInNat DEF RawRow, Time
  <2> QED  BY <2>1, <2>2, <2>3 DEF AttemptsInv
<1> QED  BY <1>1, <1>2, <1>3, AttemptsRecord, AttemptsEvictRaw DEF Next, vars

(* What the retention of the days has to be for the attempts of the live    *)
(* rows: a retry may be dated this much before its row.                     *)
DaysOutliveRows == RawTTL + Lateness + Day <= DailyTTL + 1

(* The attempts of the raw rows inside their TTL are all in stored daily    *)
(* buckets, also those of retries, each in the bucket of its own day        *)
(* (RecordTxn: the update of CUSTOMER_DAILY that every call makes).         *)
THEOREM AttemptsAreCovered == DaysOutliveRows => (Spec => []AttemptsCovered)
<1> SUFFICES ASSUME DaysOutliveRows PROVE Spec => []AttemptsCovered
  OBVIOUS
<1>1. ASSUME TypeOK, AttemptsInv PROVE AttemptsCovered
  <2> SUFFICES ASSUME NEW c \in Customers
               PROVE  LET live == {t \in Txns : raw[<<c, t>>] # None
                                                /\ now - raw[<<c, t>>].at <= RawTTL}
                          kept == {d \in Days : daily[<<c, d>>] # None}
                      IN  SumFunction([t \in live |-> raw[<<c, t>>].attempts])
                            <= SumFunction([d \in kept |-> daily[<<c, d>>].attempts])
    BY DEF AttemptsCovered
  <2>1. PICK live, kept : /\ live = {t \in Txns : raw[<<c, t>>] # None
                                                  /\ now - raw[<<c, t>>].at <= RawTTL}
                          /\ kept = {d \in Days : daily[<<c, d>>] # None}
    OBVIOUS
  <2>2. /\ now \in Nat /\ RawTTL \in Nat /\ DailyTTL \in Nat /\ Lateness \in Nat
        /\ Day \in Nat \ {0} /\ IsFiniteSet({t \in Txns : raw[<<c, t>>] # None})
    BY <1>1, TicksInNat, TicksAssumption DEF TypeOK, Time, Lateness, AttemptsInv
  <2>3. PICK s, z \in Int : s = now - DailyTTL /\ z = s + Lateness + Day - 1
    BY <2>2
  <2>4. PICK T, K, a, b, f, g :
          /\ T = RowsFrom(raw, c, z) /\ K = DaysFrom(daily, c, s)
          /\ f = [t \in T |-> raw[<<c, t>>].attempts] /\ g = [d \in K |-> daily[<<c, d>>].attempts]
          /\ a = [t \in live |-> raw[<<c, t>>].attempts]
          /\ b = [d \in kept |-> daily[<<c, d>>].attempts]
    OBVIOUS
  <2>5. /\ IsFiniteSet(T) /\ IsFiniteSet(K)
        /\ \A t \in T : f[t] \in Nat
        /\ \A d \in K : g[d] \in Nat
    BY <1>1, <2>2, <2>4, RowsFromFinite
  <2>6. live \in SUBSET T
    <3>1. ASSUME NEW t \in live PROVE raw[<<c, t>>].at >= z
      <4>1. raw[<<c, t>>] \in RawRow /\ now - raw[<<c, t>>].at <= RawTTL
        BY <1>1, <2>1 DEF TypeOK, Keys
      <4>2. raw[<<c, t>>].at \in Nat
        BY <4>1, TicksInNat DEF RawRow, Time
      <4> QED  BY <2>2, <2>3, <4>1, <4>2 DEF DaysOutliveRows
    <3> QED  BY <2>1, <2>4, <3>1 DEF RowsFrom
  <2>7. SumFunctionOnSet(a, live) <= SumFunctionOnSet(f, T)
        /\ SumFunctionOnSet(a, live) \in Nat /\ SumFunctionOnSet(f, T) \in Nat
    <3>1. IsFiniteSet(live) /\ \A t \in live : a[t] = f[t] /\ f[t] \in Nat
      BY <2>4, <2>5, <2>6, FS_Subset
    <3>2. SumFunctionOnSet(a, live) = SumFunctionOnSet(f, live)
      BY <3>1, SumSame
    <3>3. SumFunctionOnSet(f, live) <= SumFunctionOnSet(f, T)
      BY <2>5, <2>6, SumSubset
    <3> QED  BY <2>5, <3>1, <3>2, <3>3, SumInNat
  <2>8. SumFunctionOnSet(g, K) <= SumFunctionOnSet(b, kept)
        /\ SumFunctionOnSet(g, K) \in Nat /\ SumFunctionOnSet(b, kept) \in Nat
    <3>1. IsFiniteSet(kept)
      <4>1. IsFiniteSet(0 .. MaxTime)
        BY TicksInNat, FS_Interval
      <4> QED  BY <2>1, <4>1, FS_Subset DEF Days, Time
    <3>2. \A d \in kept : b[d] \in Nat
      <4>1. \A d \in kept : daily[<<c, d>>] \in BucketOf(CustomerFilters)
        BY <1>1, <2>1 DEF TypeOK
      <4> QED  BY <2>4, <4>1 DEF BucketOf
    <3>3. K \in SUBSET kept
      BY <2>1, <2>4 DEF DaysFrom
    <3>4. SumFunctionOnSet(b, K) <= SumFunctionOnSet(b, kept)
      BY <3>1, <3>2, <3>3, SumSubset
    <3>5. \A d \in K : g[d] = b[d]
      BY <2>4, <3>3
    <3>6. SumFunctionOnSet(g, K) = SumFunctionOnSet(b, K)
      BY <2>5, <3>5, SumSame
    <3> QED  BY <2>5, <3>1, <3>2, <3>4, <3>6, SumInNat
  <2>9. SumFunctionOnSet(f, T) <= SumFunctionOnSet(g, K)
    <3>1. AttemptsFrom(c, s)
      BY <1>1, <2>2, <2>3 DEF AttemptsInv
    <3> QED  BY <2>3, <2>4, <3>1 DEF AttemptsFrom, RowAttempts, DayAttempts, SumFunction
  <2>10. SumFunctionOnSet(a, live) <= SumFunctionOnSet(b, kept)
    BY <2>7, <2>8, <2>9
  <2> QED  BY <2>1, <2>4, <2>10 DEF SumFunction
<1>2. TypeOK /\ AttemptsInv /\ [Next]_vars => AttemptsInv'
  BY AttemptsNext
<1> QED  BY <1>1, <1>2, AttemptsInit, TypeCorrect, PTL DEF Spec

----------------------------------------------------------------------------
(* The answers of a query with ORDER BY and LIMIT *)

LEMMA SmallerOfTwo ==
  ASSUME NEW a \in Nat, NEW b \in Nat
  PROVE  Min({a, b}) = IF a <= b THEN a ELSE b
<1>1. PICK m : m = IF a <= b THEN a ELSE b
  OBVIOUS
<1>2. m \in {a, b} /\ \A y \in {a, b} : m <= y
  BY <1>1
<1>3. Min({a, b}) \in {a, b} /\ \A y \in {a, b} : Min({a, b}) <= y
  BY <1>2 DEF Min
<1> QED  BY <1>1, <1>3

LEMMA FirstsAreSome ==
  ASSUME NEW rows, IsFiniteSet(rows), NEW n \in Nat, NEW rank, NEW S \in Firsts(rows, n, rank)
  PROVE  /\ S \subseteq rows /\ IsFiniteSet(S) /\ Cardinality(S) <= n
         /\ S # rows => Cardinality(S) = n
         /\ \A k \in S, l \in rows \ S : rank[l] <= rank[k]
<1>1. /\ S \in SUBSET rows /\ Cardinality(S) = Min({n, Cardinality(rows)})
      /\ \A k \in S, l \in rows \ S : rank[l] <= rank[k]
  BY DEF Firsts
<1>2. IsFiniteSet(S) /\ (Cardinality(S) = Cardinality(rows) => S = rows)
  BY <1>1, FS_Subset
<1>3. Cardinality(rows) \in Nat
  BY FS_CardinalityType
<1>4. Cardinality(S) = IF n <= Cardinality(rows) THEN n ELSE Cardinality(rows)
  BY <1>1, <1>3, SmallerOfTwo
<1> QED  BY <1>1, <1>2, <1>3, <1>4

(* The first n rows begin with those above a bound.                         *)
LEMMA FirstsMeet ==
  ASSUME NEW rows, IsFiniteSet(rows), NEW n \in Nat, NEW rank, \A k \in rows : rank[k] \in Int,
         NEW S \in Firsts(rows, n, rank), NEW z \in Int, NEW H,
         \A k : k \in H <=> k \in rows /\ rank[k] > z
  PROVE  Cardinality(S \cap H) = Min({n, Cardinality(H)})
<1>1. /\ S \subseteq rows /\ IsFiniteSet(S) /\ Cardinality(S) <= n
      /\ S # rows => Cardinality(S) = n
      /\ \A k \in S, l \in rows \ S : rank[l] <= rank[k]
  BY FirstsAreSome
<1>2. IsFiniteSet(H) /\ Cardinality(H) \in Nat /\ Cardinality(S) \in Nat
  <2>1. H \in SUBSET rows
    OBVIOUS
  <2> QED  BY <1>1, <2>1, FS_Subset, FS_CardinalityType
<1>3. CASE H \subseteq S
  <2>1. S \cap H = H /\ H \in SUBSET S
    BY <1>3
  <2>2. Cardinality(H) <= Cardinality(S)
    BY <1>1, <2>1, FS_Subset
  <2>3. Min({n, Cardinality(H)}) = IF n <= Cardinality(H) THEN n ELSE Cardinality(H)
    BY <1>2, SmallerOfTwo
  <2>4. Min({n, Cardinality(H)}) = Cardinality(H)
    BY ONLY n \in Nat, <1>1, <1>2, <2>2, <2>3
  <2> QED  BY <2>1, <2>4
<1>4. CASE ~ (H \subseteq S)
  <2>1. PICK l \in H : l \notin S
    BY <1>4
  <2>2. S \cap H = S /\ S \in SUBSET H /\ S # rows
    BY <1>1, <2>1
  <2>3. Cardinality(S) <= Cardinality(H)
    BY <1>2, <2>2, FS_Subset
  <2> QED  BY <1>1, <1>2, <2>2, <2>3, SmallerOfTwo
<1> QED  BY <1>3, <1>4

----------------------------------------------------------------------------
(* The profile and the list *)

(* A customer with a row has a profile, and there are finitely many rows.   *)
RowsInv ==
  /\ \A c \in Customers, t \in Txns : raw[<<c, t>>] # None => profile[c] # None
  /\ IsFiniteSet({k \in Keys : raw[k] # None})

LEMMA RowsInit == Init => RowsInv
<1> SUFFICES ASSUME Init PROVE RowsInv
  OBVIOUS
<1>1. \A k \in Keys : raw[k] = None
  BY DEF Init
<1>2. {k \in Keys : raw[k] # None} = {}
  BY <1>1
<1>3. \A c \in Customers, t \in Txns : <<c, t>> \in Keys
  BY DEF Keys
<1> QED  BY <1>1, <1>2, <1>3, FS_EmptySet DEF RowsInv

LEMMA RowsNext ==
  ASSUME TypeOK, TypeOK', AllRemembered, AllRemembered', DailyInv, DailyInv', ProfileInv, RowsInv,
         [Next]_vars
  PROVE  RowsInv'
<1> PICK S : S = {k \in Keys : raw[k] # None}
  OBVIOUS
<1>1. IsFiniteSet(S)
  BY DEF RowsInv
<1>2. \A c \in Customers, t \in Txns : <<c, t>> \in Keys
  BY DEF Keys
<1>3. ASSUME NEW c \in Customers, NEW t \in Txns, NEW at \in Time, NEW e \in Payloads,
             RecordTxn(c, t, at, e)
      PROVE  RowsInv'
  <2>1. Record(c, t, at, e) /\ <<c, t>> \in Keys
    BY <1>3 DEF RecordTxn, Keys
  <2>2. PICK after : raw' = [raw EXCEPT ![<<c, t>>] = after]
    BY <2>1 DEF Record, RawAfter
  <2>3. PICK row : profile' = [profile EXCEPT ![c] = row]
    BY <2>1 DEF Record
  <2>4. profile'[c] # None /\ \A o \in Customers : o # c => profile'[o] = profile[o]
    BY <1>3, <2>3, ProfileRecord DEF TypeOK, ProfileOK
  <2>5. \A k \in Keys : k # <<c, t>> => raw'[k] = raw[k]
    BY <2>2 DEF TypeOK
  <2>6. \A o \in Customers, u \in Txns : raw'[<<o, u>>] # None => profile'[o] # None
    BY <1>2, <2>4, <2>5 DEF RowsInv
  <2>7. IsFiniteSet(S \cup {<<c, t>>})
    BY <1>1, FS_AddElement
  <2>8. {k \in Keys : raw'[k] # None} \in SUBSET (S \cup {<<c, t>>})
    BY <2>5
  <2> QED  BY <2>6, <2>7, <2>8, FS_Subset DEF RowsInv
<1>4. ASSUME NEW c \in Customers, NEW t \in Txns, EvictRaw(c, t) PROVE RowsInv'
  <2>1. raw' = [raw EXCEPT ![<<c, t>>] = None] /\ profile' = profile
    BY <1>4 DEF EvictRaw
  <2>2. \A k \in Keys : raw'[k] # None => raw'[k] = raw[k]
    BY <2>1 DEF TypeOK
  <2>3. {k \in Keys : raw'[k] # None} \in SUBSET S
    BY <2>2
  <2> QED  BY <1>1, <1>2, <2>1, <2>2, <2>3, FS_Subset DEF RowsInv
<1>5. ASSUME UNCHANGED <<raw, profile>> PROVE RowsInv'
  BY <1>5 DEF RowsInv
<1>6. CASE UNCHANGED vars \/ Tick \/ \E c \in Customers, d \in Days : EvictDaily(c, d)
  BY <1>5, <1>6 DEF vars, Tick, EvictDaily
<1> QED  BY <1>3, <1>4, <1>6 DEF Next

ListRows(c) == {t \in Txns : raw[<<c, t>>] # None}

LEMMA ListRowsAreFinite ==
  ASSUME TypeOK, RowsInv, NEW c \in Customers
  PROVE  /\ IsFiniteSet(ListRows(c))
         /\ \A t \in ListRows(c) : raw[<<c, t>>] \in RawRow /\ raw[<<c, t>>].at \in Nat
                                   /\ raw[<<c, t>>].event \in PayloadType
<1> PICK S, T, g : /\ S = {k \in Keys : raw[k] # None} /\ T = ListRows(c)
                   /\ g = [t \in T |-> <<c, t>>]
  OBVIOUS
<1>1. \A t \in T : <<c, t>> \in S
  BY DEF ListRows, Keys
<1>2. g \in Injection(T, S)
  BY <1>1 DEF Injection, IsInjective
<1>3. IsFiniteSet(T)
  BY <1>2, FS_Injection DEF RowsInv
<1>4. \A t \in T : raw[<<c, t>>] \in RawRow
  BY <1>1 DEF TypeOK
<1> QED  BY <1>3, <1>4, TicksInNat DEF RawRow, Time

(* A list of transactions begins with those the window of a hot card holds. *)
LEMMA ListMeetsCard ==
  ASSUME TypeOK, RowsInv, NEW c \in Customers, NEW listed \in RecentTxns(c),
         NEW W \in Windows
  PROVE  Cardinality(listed \cap HotRows(c, W))
           = Min({RecentLimit, Cardinality(HotRows(c, W))})
<1> PICK T, rank, cut, H : /\ T = ListRows(c) /\ rank = [t \in T |-> raw[<<c, t>>].at]
                           /\ cut = MinuteCutoff(W) /\ H = HotRows(c, W)
  OBVIOUS
<1>1. IsFiniteSet(T) /\ \A k \in T : rank[k] \in Int
  BY ListRowsAreFinite
<1>2. listed \in Firsts(T, RecentLimit, rank)
  BY DEF RecentTxns, ListRows
<1>3. H = {k \in T : rank[k] > cut}
  BY DEF HotRows, ListRows
<1>4. cut \in Int /\ RecentLimit \in Nat
  BY CutoffBounds, PanelsAssumption
<1>5. PICK n \in Nat, z \in Int : n = RecentLimit /\ z = cut
  BY <1>4
<1>6. listed \in Firsts(T, n, rank) /\ \A k : k \in H <=> k \in T /\ rank[k] > z
  BY <1>2, <1>3, <1>5
<1>7. Cardinality(listed \cap H) = Min({n, Cardinality(H)})
  BY ONLY <1>1, <1>5, <1>6, FirstsMeet
<1> QED  BY <1>5, <1>7

(* A badge of the list is among the retries shown, or is crowded out.       *)
LEMMA BadgesAreRetries ==
  ASSUME TypeOK, RowsInv, NEW c \in Customers, NEW listed \in RecentTxns(c),
         NEW row \in BadgedRows(c, listed), NEW shown \in Retries
  PROVE  \/ row \in RetryEvidence(c, shown)
         \/ /\ Cardinality(shown) = RetryLimit
            /\ \A k \in shown : raw[k].attempts >= row.ATTEMPT_COUNT
<1> PICK S, rank : /\ S = {k \in Keys : raw[k] # None /\ raw[k].attempts > 1}
                   /\ rank = [k \in S |-> raw[k].attempts]
  OBVIOUS
<1>1. IsFiniteSet(S)
  <2>1. S \in SUBSET {k \in Keys : raw[k] # None}
    OBVIOUS
  <2> QED  BY <2>1, FS_Subset DEF RowsInv
<1>2. shown \in Firsts(S, RetryLimit, rank) /\ RetryLimit \in Nat
  BY PanelsAssumption DEF Retries
<1>3. /\ shown \subseteq S /\ (shown # S => Cardinality(shown) = RetryLimit)
      /\ \A k \in shown, l \in S \ shown : rank[l] <= rank[k]
  BY <1>1, <1>2, FirstsAreSome
<1>4. PICK t \in listed : row = RetryRow(<<c, t>>) /\ raw[<<c, t>>].attempts > 1
  BY DEF BadgedRows
<1>5. t \in Txns /\ raw[<<c, t>>] # None
  BY DEF RecentTxns, Firsts
<1>6. <<c, t>> \in S /\ row.ATTEMPT_COUNT = rank[<<c, t>>]
  BY <1>4, <1>5 DEF Keys, RetryRow
<1>7. CASE <<c, t>> \in shown
  BY <1>4, <1>7 DEF RetryEvidence
<1>8. CASE <<c, t>> \notin shown
  <2>1. \A k \in S : rank[k] \in Nat /\ rank[k] = raw[k].attempts
    BY DEF TypeOK, RawRow
  <2> QED  BY <1>3, <1>6, <1>8, <2>1
<1> QED  BY <1>7, <1>8

(* The lifetime totals cover what is listed.                                *)
LEMMA LifetimeCoversList ==
  ASSUME TypeOK, AllRemembered, DailyInv, RowsInv, ProfileExact, NEW c \in Customers,
         NEW listed \in RecentTxns(c), listed # {},
         NEW txns, txns = {t \in listed : Matches("txn", raw[<<c, t>>].event)}
  PROVE  /\ profile[c] # None /\ profile[c].lifeCount >= Cardinality(txns)
         /\ profile[c].lifeSum >= SumFunction([t \in txns |-> raw[<<c, t>>].event.amount])
<1> PICK R, L, F, T : /\ R = raw /\ L = ledger
                      /\ F = FactsAfter(L, c, -1, "txn") /\ T = RowsAfter(R, c, -1, "txn")
  OBVIOUS
<1>1. listed \subseteq ListRows(c)
  BY DEF RecentTxns, Firsts, ListRows
<1>2. profile[c] # None
  BY <1>1 DEF RowsInv, ListRows
<1>3. \A t \in ListRows(c) : raw[<<c, t>>].at \in Nat /\ raw[<<c, t>>].event \in PayloadType
  BY ListRowsAreFinite
<1>4. txns \in SUBSET T
  <2>1. ASSUME NEW t \in txns PROVE t \in T
    <3>1. t \in ListRows(c) /\ Matches("txn", raw[<<c, t>>].event)
      BY <1>1
    <3>2. raw[<<c, t>>].at > -1
      BY <1>3, <3>1
    <3> QED  BY <3>1, <3>2 DEF RowsAfter, ListRows
  <2> QED  BY <2>1
<1>5. PICK g : g \in Injection(T, F) /\ \A u \in T : FactOfRow(R, c, u, g[u])
  <2>1. \A k \in Keys : Stands(R, L, now, k)
    BY DEF AllRemembered, Remembered
  <2>2. IsFiniteSet(L) /\ "txn" \in StableFilters
    BY DEF DailyInv, StableFilters, CustomerFilters
  <2> QED  BY <2>1, <2>2, RowsAreFacts
<1>6. IsFiniteSet(F) /\ \A x \in F : x.event.amount \in Nat
  <2>1. F \in SUBSET ledger
    BY DEF FactsAfter
  <2> QED  BY <2>1, FactFields, FS_Subset DEF DailyInv, PayloadType
<1>7. F = FactsOf(c, "txn")
  <2>1. \A x \in ledger : x.at > -1
    BY FactFields, TicksInNat DEF Time
  <2> QED  BY <2>1 DEF FactsAfter, FactsOf
<1>8. profile[c].lifeCount = Cardinality(F) /\ profile[c].lifeSum = Total(F)
  BY <1>2, <1>7 DEF ProfileExact, Amount, Total
<1>9. IsFiniteSet(T) /\ Cardinality(T) <= Cardinality(F)
  BY <1>5, <1>6, FS_Injection
<1>10. IsFiniteSet(txns) /\ Cardinality(txns) <= Cardinality(T)
  BY <1>4, <1>9, FS_Subset
<1>11. Cardinality(txns) <= Cardinality(F)
  BY <1>6, <1>9, <1>10, FS_CardinalityType
<1> PICK amount, other, G : /\ amount = [x \in F |-> x.event.amount]
                            /\ other = [u \in txns |-> raw[<<c, u>>].event.amount]
                            /\ G = {g[u] : u \in txns}
  OBVIOUS
<1>12. \A u \in txns : g[u] \in F /\ other[u] = amount[g[u]] /\ other[u] \in Nat
  BY <1>4, <1>5, <1>6 DEF Injection, FactOfRow, SamePayment
<1>13. \A u, w \in txns : g[u] = g[w] => u = w
  BY <1>4, <1>5 DEF Injection, IsInjective
<1>14. SumFunctionOnSet(other, txns) = SumFunctionOnSet(amount, {g[u] : u \in txns})
  BY ONLY <1>10, <1>12, <1>13, SumOfImages
<1>15. G \in SUBSET F /\ \A x \in F : amount[x] \in Nat
  BY <1>6, <1>12
<1>16. SumFunctionOnSet(amount, G) <= SumFunctionOnSet(amount, F)
  BY <1>6, <1>15, SumSubset
<1>17. /\ SumFunctionOnSet(amount, G) \in Nat /\ SumFunctionOnSet(amount, F) \in Nat
  BY <1>6, <1>15, SumInNat, FS_Subset
<1>18. Total(F) = SumFunctionOnSet(amount, F)
  BY TotalIsSum
<1>19. SumFunction(other) = SumFunctionOnSet(other, txns)
  BY DEF SumFunction
<1> QED  BY <1>2, <1>6, <1>8, <1>10, <1>11, <1>14, <1>16, <1>17, <1>18, <1>19, FS_CardinalityType

(* A day and a minute fit into the retention of the raw rows (7 days).      *)
DayIsReadable == Day + Minute <= RawTTL

(* The card of a day against the profile's 24 hours.                        *)
LEMMA DayCard ==
  ASSUME DayIsReadable, TypeOK, AllRemembered, DailyInv, ProfileExact, NEW c \in Customers,
         profile[c] # None, profile[c].lastTxnAt <= FloorTo(now, Minute), Day <= HotTier
  PROVE  LET today == RollingCount(c, Day, "txn")
         IN  /\ today <= profile[c].count24
             /\ profile[c].lastTxnAt = FloorTo(now, Minute) => today = profile[c].count24
             /\ today > 0 => profile[c].avg # None
<1> PICK R, L, cut, F, T, G : /\ R = raw /\ L = ledger /\ cut = MinuteCutoff(Day)
                              /\ F = FactsAfter(L, c, cut, "txn")
                              /\ T = RowsAfter(R, c, cut, "txn")
                              /\ G = {x \in FactsOf(c, "txn") : x.at > profile[c].lastTxnAt - Day}
  OBVIOUS
<1>1. /\ now \in Nat /\ FloorTo(now, Minute) \in Nat /\ now - Minute < FloorTo(now, Minute)
      /\ profile[c].lastTxnAt \in Nat /\ Day \in Nat /\ Minute \in Nat /\ RawTTL \in Nat
  <2>1. now \in Nat /\ profile[c].lastTxnAt \in Nat
    BY TicksInNat DEF TypeOK, ProfileOK, Time
  <2> QED  BY <2>1, TicksInNat, FloorBounds
<1>2. cut \in Int /\ cut = FloorTo(now, Minute) - Day /\ now - cut <= RawTTL
  BY <1>1 DEF MinuteCutoff, DayIsReadable
<1>3. RollingCount(c, Day, "txn") = Cardinality(T)
  BY HotIsRowsAfter DEF RollingCount
<1>4. /\ profile[c].count24 = Cardinality(G)
      /\ profile[c].count24 = 0 <=> profile[c].avg = None
  BY DEF ProfileExact
<1>5. IsFiniteSet(T) /\ IsFiniteSet(F) /\ Cardinality(T) = Cardinality(F)
  <2>1. \A k \in Keys : Stands(R, L, now, k)
    BY DEF AllRemembered, Remembered
  <2>2. L \in SUBSET Facts /\ IsFiniteSet(L) /\ "txn" \in StableFilters
    BY DEF TypeOK, DailyInv, StableFilters, CustomerFilters
  <2> QED  BY <1>1, <1>2, <2>1, <2>2, LiveRowsAreTheFacts
<1>6. \A x \in ledger : x.at \in Nat
  BY FactFields, TicksInNat DEF Time
<1>7. G \in SUBSET ledger /\ IsFiniteSet(G)
  BY FS_Subset DEF FactsOf, DailyInv
<1>8. F \in SUBSET G
  BY <1>1, <1>2, <1>6 DEF FactsAfter, FactsOf
<1>9. ASSUME profile[c].lastTxnAt = FloorTo(now, Minute) PROVE F = G
  BY <1>2, <1>9 DEF FactsAfter, FactsOf
<1>10. Cardinality(F) <= Cardinality(G) /\ Cardinality(F) \in Nat /\ Cardinality(G) \in Nat
  BY <1>5, <1>7, <1>8, FS_Subset, FS_CardinalityType
<1>11. PICK n \in Nat, m \in Nat : n = Cardinality(T) /\ m = Cardinality(G) /\ n <= m
  BY <1>5, <1>10
<1>12. n > 0 => profile[c].avg # None
  <2>1. n > 0 => m # 0
    BY ONLY <1>11, n \in Nat, m \in Nat
  <2> QED  BY <1>4, <1>11, <2>1
<1>13. profile[c].lastTxnAt = FloorTo(now, Minute) => n = m
  BY <1>5, <1>9, <1>11
<1> QED  BY <1>3, <1>4, <1>11, <1>12, <1>13

----------------------------------------------------------------------------
(* The cards and the strip of days *)

(* The panels that show the profile and the raw rows agree.                 *)
LEMMA ProfileAgreement ==
  ASSUME DayIsReadable, TypeOK, AllRemembered, DailyInv, RowsInv, ProfileExact
  PROVE  ProfileAgrees
<1> SUFFICES ASSUME NEW c \in Customers, NEW listed \in RecentTxns(c)
             PROVE  LET p == ProfileStrip(c)
                        minute == FloorTo(now, Minute)
                        today == RollingCount(c, Day, "txn")
                        txns == {t \in listed : Matches("txn", raw[<<c, t>>].event)}
                    IN  /\ \A W \in Windows : WindowTier(W) = "hot" =>
                             Cardinality(listed \cap HotRows(c, W)) =
                               Min({RecentLimit, RollingFeatures(c, W)[1].RAW_EVENTS})
                        /\ \A row \in BadgedRows(c, listed), shown \in Retries :
                             \/ row \in RetryEvidence(c, shown)
                             \/ /\ Cardinality(shown) = RetryLimit
                                /\ \A k \in shown : raw[k].attempts >= row.ATTEMPT_COUNT
                        /\ listed # {} =>
                             /\ profile[c] # None /\ p.LIFETIME_TXNS >= Cardinality(txns)
                             /\ p.LIFETIME_SUM
                                  >= SumFunction([t \in txns |-> raw[<<c, t>>].event.amount])
                        /\ profile[c] # None /\ p.LAST_TXN_AT <= minute /\ Day <= HotTier =>
                             /\ today <= p.COUNT_24H
                             /\ p.LAST_TXN_AT = minute => today = p.COUNT_24H
                             /\ today > 0 => p.AVG_TICKET # None
  BY DEF ProfileAgrees
<1> PICK p, txns : /\ p = ProfileStrip(c)
                   /\ txns = {t \in listed : Matches("txn", raw[<<c, t>>].event)}
  OBVIOUS
<1>1. /\ p.LAST_TXN_AT = profile[c].lastTxnAt /\ p.LIFETIME_TXNS = profile[c].lifeCount
      /\ p.LIFETIME_SUM = profile[c].lifeSum /\ p.COUNT_24H = profile[c].count24
      /\ p.AVG_TICKET = profile[c].avg
  BY DEF ProfileStrip
<1>2. ASSUME NEW W \in Windows, WindowTier(W) = "hot"
      PROVE  Cardinality(listed \cap HotRows(c, W)) =
               Min({RecentLimit, RollingFeatures(c, W)[1].RAW_EVENTS})
  <2>1. RollingFeatures(c, W)[1] = HotAggregate(c, W)
    BY <1>2 DEF WindowTier, RollingFeatures, Distinct
  <2>2. RollingFeatures(c, W)[1].RAW_EVENTS = Cardinality(HotRows(c, W))
    BY <2>1 DEF HotAggregate
  <2> QED  BY <2>2, ListMeetsCard
<1>3. ASSUME listed # {}
      PROVE  /\ profile[c] # None /\ p.LIFETIME_TXNS >= Cardinality(txns)
             /\ p.LIFETIME_SUM >= SumFunction([t \in txns |-> raw[<<c, t>>].event.amount])
  BY <1>1, <1>3, LifetimeCoversList
<1>4. ASSUME profile[c] # None, p.LAST_TXN_AT <= FloorTo(now, Minute), Day <= HotTier
      PROVE  LET today == RollingCount(c, Day, "txn")
             IN  /\ today <= p.COUNT_24H
                 /\ p.LAST_TXN_AT = FloorTo(now, Minute) => today = p.COUNT_24H
                 /\ today > 0 => p.AVG_TICKET # None
  BY <1>1, <1>4, DayCard
<1> QED  BY <1>2, <1>3, <1>4, BadgesAreRetries

LEMMA FourNames ==
  ASSUME NEW a, NEW b, NEW d, NEW e, a # b, a # d, a # e, b # d, b # e, d # e
  PROVE  IsFiniteSet({a, b, d, e}) /\ Cardinality({a, b, d, e}) = 4
<1>1. IsFiniteSet({a}) /\ Cardinality({a}) = 1
  BY FS_Singleton
<1>2. IsFiniteSet({a} \cup {b}) /\ Cardinality({a} \cup {b}) = 2
  BY <1>1, FS_AddElement
<1>3. IsFiniteSet({a, b} \cup {d}) /\ Cardinality({a, b} \cup {d}) = 3
  <2>1. {a} \cup {b} = {a, b} /\ d \notin {a, b}
    OBVIOUS
  <2> QED  BY <1>2, <2>1, FS_AddElement
<1>4. IsFiniteSet({a, b, d} \cup {e}) /\ Cardinality({a, b, d} \cup {e}) = 4
  <2>1. {a, b} \cup {d} = {a, b, d} /\ e \notin {a, b, d}
    OBVIOUS
  <2> QED  BY <1>3, <2>1, FS_AddElement
<1>5. {a, b, d} \cup {e} = {a, b, d, e}
  OBVIOUS
<1> QED  BY <1>4, <1>5

LEMMA FiveNames ==
  ASSUME NEW a, NEW b, NEW d, NEW e, NEW f,
         a # b, a # d, a # e, b # d, b # e, d # e, a # f, b # f, d # f, e # f
  PROVE  Cardinality({a, b, d, e, f}) = 5
<1>1. IsFiniteSet({a, b, d, e}) /\ Cardinality({a, b, d, e}) = 4
  BY FourNames
<1>2. f \notin {a, b, d, e} /\ {a, b, d, e} \cup {f} = {a, b, d, e, f}
  OBVIOUS
<1>3. Cardinality({a, b, d, e} \cup {f}) = 4 + 1
  BY <1>1, <1>2, FS_AddElement
<1> QED  BY <1>2, <1>3

LEMMA LineNames ==
  ASSUME NEW table, NEW names \in SUBSET DOMAIN table
  PROVE  {line[1] : line \in MetricLines(table, names)} = names
<1>1. ASSUME NEW line \in MetricLines(table, names) PROVE line[1] \in names
  BY DEF MetricLines
<1>2. ASSUME NEW n \in names PROVE \E line \in MetricLines(table, names) : line[1] = n
  <2>1. <<n, table[n]>> \in MetricLines(table, names) /\ <<n, table[n]>>[1] = n
    BY DEF MetricLines
  <2> QED  BY <2>1
<1> QED  BY <1>1, <1>2

(* A card has every line of the tier that answered.                         *)
LEMMA CardIsComplete ==
  ASSUME NEW c \in Customers, NEW W \in Nat
  PROVE  /\ Cardinality({line[1] : line \in Card(c, W)})
              = 4 + (IF WindowTier(W) = "hot" /\ W >= SuccessFrom THEN 1 ELSE 0)
         /\ W >= SuccessFrom => CustomCard(c, W) \subseteq Card(c, W)
         /\ W > HotTier => {<<"DAYS", Cardinality(WarmDays(c, W))>>,
                            <<"TXN_AMOUNT_SUM", RollingSum(c, W, "txn")>>} \subseteq Card(c, W)
<1>1. W \in Nat /\ HotTier \in Nat /\ SuccessFrom \in Nat
  BY TicksAssumption, PanelsAssumption
<1>2. CASE W <= HotTier
  <2> PICK names, hot, amounts :
        /\ hot = HotAggregate(c, W) /\ amounts = Distinct(c, W)[1]
        /\ names = {"RAW_EVENTS", "TXN_COUNT", "TXN_AMOUNT_SUM"}
                     \cup (IF W >= SuccessFrom THEN {"SUCCESS_COUNT"} ELSE {})
    OBVIOUS
  <2>1. /\ RollingFeatures(c, W)[1] = hot /\ RollingFeatures(c, W)[2] = amounts
        /\ Len(RollingFeatures(c, W)) = 4 /\ WindowTier(W) = "hot"
    BY <1>2 DEF WindowTier, RollingFeatures, Distinct
  <2>2. /\ DOMAIN hot = {"RAW_EVENTS", "TXN_COUNT", "TXN_AMOUNT_SUM", "SUCCESS_COUNT"}
        /\ DOMAIN amounts = {"AMOUNT_DISTINCT"}
    BY DEF HotAggregate, Distinct
  <2>3. Card(c, W) = MetricLines(hot, names) \cup MetricLines(amounts, {"AMOUNT_DISTINCT"})
    BY <2>1 DEF Card
  <2>4. {line[1] : line \in Card(c, W)} = names \cup {"AMOUNT_DISTINCT"}
    <3>1. names \in SUBSET DOMAIN hot /\ {"AMOUNT_DISTINCT"} \in SUBSET DOMAIN amounts
      BY <2>2
    <3>2. /\ {line[1] : line \in MetricLines(hot, names)} = names
          /\ {line[1] : line \in MetricLines(amounts, {"AMOUNT_DISTINCT"})} = {"AMOUNT_DISTINCT"}
      BY <3>1, LineNames
    <3> QED  BY <2>3, <3>2
  <2>5. Cardinality(names \cup {"AMOUNT_DISTINCT"}) = 4 + (IF W >= SuccessFrom THEN 1 ELSE 0)
    <3>1. /\ W >= SuccessFrom =>
                names \cup {"AMOUNT_DISTINCT"}
                  = {"RAW_EVENTS", "TXN_COUNT", "TXN_AMOUNT_SUM", "AMOUNT_DISTINCT", "SUCCESS_COUNT"}
          /\ ~ (W >= SuccessFrom) =>
                names \cup {"AMOUNT_DISTINCT"}
                  = {"RAW_EVENTS", "TXN_COUNT", "TXN_AMOUNT_SUM", "AMOUNT_DISTINCT"}
      OBVIOUS
    <3>2. Cardinality({"RAW_EVENTS", "TXN_COUNT", "TXN_AMOUNT_SUM", "AMOUNT_DISTINCT"}) = 4
      BY ONLY FourNames, Zenon
    <3>3. Cardinality({"RAW_EVENTS", "TXN_COUNT", "TXN_AMOUNT_SUM", "AMOUNT_DISTINCT",
                       "SUCCESS_COUNT"}) = 5
      BY ONLY FiveNames, Zenon
    <3> QED  BY <3>1, <3>2, <3>3
  <2>6. W >= SuccessFrom => CustomCard(c, W) \subseteq Card(c, W)
    BY <2>1, <2>3 DEF CustomCard
  <2>7. ~ (W > HotTier)
    BY <1>1, <1>2
  <2>8. (WindowTier(W) = "hot" /\ W >= SuccessFrom) <=> W >= SuccessFrom
    BY <2>1
  <2>9. Cardinality({line[1] : line \in Card(c, W)}) = 4 + (IF W >= SuccessFrom THEN 1 ELSE 0)
    BY <2>4, <2>5
  <2> QED  BY <2>6, <2>7, <2>8, <2>9
<1>3. CASE W > HotTier
  <2> PICK names, warm :
        /\ warm = WarmAggregate(c, W)
        /\ names = {"DAYS", "TXN_COUNT", "ATTEMPT_COUNT", "TXN_AMOUNT_SUM"}
    OBVIOUS
  <2>1. RollingFeatures(c, W)[1] = warm /\ WindowTier(W) # "hot"
    BY <1>1, <1>3 DEF WindowTier, RollingFeatures
  <2>2. /\ DOMAIN warm = names /\ warm["DAYS"] = Cardinality(WarmDays(c, W))
        /\ warm["TXN_AMOUNT_SUM"] = RollingSum(c, W, "txn")
    BY DEF WarmAggregate
  <2>3. Card(c, W) = MetricLines(warm, names) /\ CustomCard(c, W) = MetricLines(warm, names)
    BY <2>1 DEF Card, CustomCard
  <2>4. {line[1] : line \in Card(c, W)} = names
    BY <2>2, <2>3, LineNames
  <2>5. Cardinality(names) = 4
    BY Zenon, FourNames
  <2>6. {<<"DAYS", warm["DAYS"]>>, <<"TXN_AMOUNT_SUM", warm["TXN_AMOUNT_SUM"]>>}
          \subseteq MetricLines(warm, names)
    BY <2>2 DEF MetricLines
  <2> QED  BY <2>1, <2>2, <2>3, <2>4, <2>5, <2>6
<1> QED  BY <1>1, <1>2, <1>3

LEMMA MultiplesInOrder ==
  ASSUME NEW a \in Int, NEW b \in Int, NEW u \in Nat \ {0}, u * a < u * b
  PROVE  a < b
<1>1. u * b - u * a = u * (b - a)
  BY SMT
<1>2. b - a \in Int /\ u * (b - a) > 0
  BY <1>1, SMT
<1>3. b - a <= 0 => u * (b - a) <= 0
  BY SMT
<1> QED  BY <1>2, <1>3

(* The days after one and inside a window of n days that holds it are fewer *)
(* than n.                                                                  *)
LEMMA FewDaysAfter ==
  ASSUME NEW d \in Days, NEW last \in Nat, last % Day = 0, NEW n \in Nat \ {0}, d > last - n * Day,
         NEW K \in SUBSET Days, \A e \in K : d < e /\ e <= last
  PROVE  IsFiniteSet(K) /\ Cardinality(K) < n
<1>1. /\ Day \in Nat \ {0} /\ \A e \in Days : e \in Nat /\ e % Day = 0
  BY TicksInNat DEF Days, Time
<1>2. PICK a \in Nat : d = Day * a
  BY <1>1, MultipleIsProduct
<1>3. PICK h : h = [e \in K |-> CHOOSE b \in Nat : e = Day * b]
  OBVIOUS
<1>4. \A e \in K : h[e] \in Nat /\ e = Day * h[e]
  <2>1. ASSUME NEW e \in K PROVE \E b \in Nat : e = Day * b
    BY <1>1, MultipleIsProduct
  <2> QED  BY <1>3, <2>1
<1>5. PICK z : z = n * Day /\ z = Day * n
  BY <1>1
<1>6. ASSUME NEW e \in K PROVE h[e] \in (a + 1) .. (a + n - 1)
  <2>1. PICK b \in Nat : b = h[e] /\ e = Day * b
    BY <1>4
  <2>2. d < e /\ e <= last /\ d > last - z /\ d \in Nat /\ e \in Nat /\ z \in Nat
    BY <1>1, <1>5
  <2>3. a < b
    BY <1>1, <1>2, <2>1, <2>2, MultiplesInOrder
  <2>4. Day * b < Day * a + Day * n
    BY <1>2, <1>5, <2>1, <2>2
  <2>5. Day * a + Day * n = Day * (a + n) /\ a + n \in Nat
    BY <1>1, SMT
  <2>6. b < a + n
    BY <1>1, <2>4, <2>5, MultiplesInOrder
  <2> QED  BY <2>1, <2>3, <2>6
<1>7. h \in Injection(K, (a + 1) .. (a + n - 1))
  <2>1. h \in [K -> (a + 1) .. (a + n - 1)]
    BY <1>3, <1>6
  <2>2. \A e, g \in K : h[e] = h[g] => e = g
    BY <1>4
  <2> QED  BY <2>1, <2>2 DEF Injection, IsInjective
<1>8. IsFiniteSet((a + 1) .. (a + n - 1)) /\ Cardinality((a + 1) .. (a + n - 1)) = n - 1
  <2>1. PICK lo \in Int, hi \in Int : lo = a + 1 /\ hi = a + n - 1
    OBVIOUS
  <2>2. IsFiniteSet(lo .. hi) /\ Cardinality(lo .. hi) = IF lo > hi THEN 0 ELSE hi - lo + 1
    BY FS_Interval
  <2> QED  BY <2>1, <2>2
<1>9. IsFiniteSet(K) /\ Cardinality(K) <= n - 1
  BY <1>7, <1>8, FS_Injection
<1> QED  BY <1>9, FS_CardinalityType

(* The bright cells of a warm window are the days on its card.              *)
LEMMA BrightIsWarm ==
  ASSUME TypeOK, NEW c \in Customers, ~DatedAhead(c), NEW n \in 1 .. BucketLimit,
         NEW W, W = n * Day
  PROVE  Bright(c, W) = WarmDays(c, W)
<1>1. /\ now \in Nat /\ Day \in Nat \ {0} /\ StripDays \in Nat /\ n \in Nat \ {0}
      /\ BucketLimit \in Nat /\ n <= BucketLimit /\ n <= StripDays
      /\ \A e \in Days : e \in Nat
  BY TicksInNat, PanelsAssumption DEF TypeOK, Time, Days
<1>2. Today \in Nat /\ Today % Day = 0
  BY <1>1, FloorBounds DEF Today
<1>3. ASSUME NEW d \in WarmDays(c, W) PROVE d \in Bright(c, W)
  <2>1. d \in Stored(c) /\ d \in Days /\ d > Today - W
    BY DEF WarmDays, Stored, DayCutoff, Today
  <2>2. \A e \in Stored(c) : e \in Days /\ e <= Today
    BY <1>1, <1>2 DEF Stored, DatedAhead
  <2>3. PICK K : K = {e \in Stored(c) : e > d}
    OBVIOUS
  <2>4. K \in SUBSET Days /\ \A e \in K : d < e /\ e <= Today
    BY <1>1, <2>1, <2>2, <2>3
  <2>5. Cardinality(K) < n /\ Cardinality(K) \in Nat
    BY <1>1, <1>2, <2>1, <2>4, FewDaysAfter, FS_CardinalityType
  <2>6. d \in DailyBuckets(c)
    BY <1>1, <2>1, <2>3, <2>5 DEF DailyBuckets
  <2>7. n * Day <= StripDays * Day /\ n * Day \in Nat /\ StripDays * Day \in Nat
    <3>1. StripDays * Day - n * Day = (StripDays - n) * Day
      BY <1>1, SMT
    <3>2. (StripDays - n) * Day >= 0
      BY <1>1, SMT
    <3>3. n * Day \in Nat /\ StripDays * Day \in Nat
      BY <1>1, SMT
    <3> QED  BY <3>1, <3>2, <3>3
  <2>8. d \in Cells
    BY <1>1, <1>2, <2>1, <2>2, <2>7 DEF Cells
  <2> QED  BY <2>1, <2>6, <2>8 DEF Bright
<1>4. Bright(c, W) \subseteq WarmDays(c, W)
  BY DEF Bright, WarmDays, DailyBuckets, Stored, DayCutoff, Today, Cells
<1> QED  BY <1>3, <1>4

(* The highlighted bar is today's when there is one.                        *)
LEMMA TodayIsHighlighted ==
  ASSUME TypeOK, NEW c \in Customers, ~DatedAhead(c), Today \in Stored(c)
  PROVE  Highlighted(c) = Today
<1> PICK S : S = DailyBuckets(c)
  OBVIOUS
<1>1. BucketLimit \in Nat \ {0} /\ \A e \in Days : e \in Nat
  BY TicksInNat, PanelsAssumption DEF Days, Time
<1>2. \A e \in Stored(c) : e \in Nat /\ e <= Today
  BY <1>1 DEF Stored, DatedAhead
<1>3. {e \in Stored(c) : e > Today} = {}
  BY <1>2
<1>4. Today \in S /\ S \subseteq Stored(c)
  BY <1>1, <1>3, FS_EmptySet DEF DailyBuckets
<1>5. PICK m : m = Max(S)
  OBVIOUS
<1>6. m \in S /\ m >= Today
  BY <1>2, <1>4, <1>5 DEF Max
<1>7. m = Today
  BY <1>2, <1>4, <1>6
<1> QED  BY <1>5, <1>7 DEF Highlighted

(* The panels of the console agree: profile, list, retries and cards, and   *)
(* cards, strip of days and chart (Explorer.tsx, DecayStory.tsx).           *)
THEOREM PanelsDoAgree == DayIsReadable => (Spec => []PanelsAgree)
<1> SUFFICES ASSUME DayIsReadable PROVE Spec => []PanelsAgree
  OBVIOUS
<1>1. ASSUME TypeOK, AllRemembered, DailyInv, RowsInv, ProfileExact PROVE PanelsAgree
  <2>1. ProfileAgrees
    BY <1>1, ProfileAgreement
  <2>2. ASSUME NEW c \in Customers, NEW W \in Windows
        PROVE  LET extra == IF WindowTier(W) = "hot" /\ W >= SuccessFrom THEN 1 ELSE 0
               IN  /\ Cardinality({line[1] : line \in Card(c, W)}) = 4 + extra
                   /\ W >= SuccessFrom => CustomCard(c, W) \subseteq Card(c, W)
    BY WindowInNat, CardIsComplete
  <2>3. ASSUME NEW c \in Customers, NEW W \in {n * Day : n \in 1 .. BucketLimit}
        PROVE  Bright(c, W) \subseteq WarmDays(c, W)
    BY DEF Bright, WarmDays, DailyBuckets, Stored, DayCutoff, Today, Cells
  <2>4. ASSUME NEW c \in Customers, ~DatedAhead(c),
               NEW W \in {n * Day : n \in 1 .. BucketLimit}, W > HotTier
        PROVE  {<<"DAYS", Cardinality(Bright(c, W))>>,
                <<"TXN_AMOUNT_SUM", SumFunction([d \in Bright(c, W) |->
                                                   daily[<<c, d>>].sum["txn"]])>>} \subseteq Card(c, W)
    <3>1. PICK n \in 1 .. BucketLimit : W = n * Day
      BY <2>4
    <3>2. n \in Nat /\ Day \in Nat /\ HotTier \in Nat
      BY TicksAssumption, PanelsAssumption
    <3>3. W \in Nat
      BY <3>1, <3>2, SMT
    <3>4. Bright(c, W) = WarmDays(c, W)
      BY <1>1, <2>4, <3>1, BrightIsWarm
    <3>5. RollingSum(c, W, "txn") = SumFunction([d \in WarmDays(c, W) |-> daily[<<c, d>>].sum["txn"]])
      BY <2>4, <3>2, <3>3 DEF RollingSum
    <3> QED  BY <2>4, <3>3, <3>4, <3>5, CardIsComplete
  <2>5. \A c \in Customers : ~DatedAhead(c) => (Today \in Stored(c) => Highlighted(c) = Today)
    BY <1>1, TodayIsHighlighted
  <2> QED  BY <2>1, <2>2, <2>3, <2>4, <2>5 DEF PanelsAgree
<1>2. TypeOK /\ TypeOK' /\ AllRemembered /\ AllRemembered' /\ DailyInv /\ DailyInv' /\ ProfileInv
        /\ RowsInv /\ [Next]_vars => RowsInv'
  BY RowsNext
<1>3. TypeOK /\ TypeOK' /\ AllRemembered /\ AllRemembered' /\ DailyInv /\ DailyInv' /\ ProfileInv
        /\ [Next]_vars => ProfileInv'
  BY ProfileNext
<1> QED
  BY <1>1, <1>2, <1>3, ProfileInit, RowsInit, ProfileIsExact, TypeCorrect, RememberedAlways,
     DailyKept, PTL DEF Spec

=============================================================================

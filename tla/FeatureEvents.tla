--------------------------- MODULE FeatureEvents ---------------------------
(***************************************************************************)
(* What the two ingest procedures (RecordTxn, RecordMerchantTxn) share:    *)
(* the payload of an event, the filters their accumulators apply to it,    *)
(* the floor of an event time to the start of its bucket, and the bucket   *)
(* record both tiers accumulate into.                                      *)
(*                                                                         *)
(* Times are integers (ticks).  Amounts are naturals: the smallest unit of *)
(* a DECIMAL.  An absent row, and a NULL column, is None.                  *)
(***************************************************************************)
EXTENDS Integers, FiniteSets

CONSTANTS
  None,        \* an absent row, a NULL column, an empty string field
  Cities,      \* the cities an event may name
  Merchants    \* the merchants an event may name

EventKinds   == {"TXN", "MANDATE", "REFUND"}
TxnTypes     == {"CARD_PAY", "AUTO_DEBIT", "OTHER"}
PayResults   == {"SUCCESS", "FAILED"}

(* The fields of an event that a procedure looks at, beside its keys and    *)
(* its time; the rest of the 48 fields is left out.                         *)
PayloadType ==
  [ kind     : EventKinds,
    type     : TxnTypes,
    result   : PayResults,
    amount   : Nat,
    merchant : Merchants \cup {None},
    city     : Cities \cup {None} ]

ASSUME NoneAssumption == None \notin Int /\ None \notin Cities \cup Merchants

(* The accumulators' filters: the CASE conditions of the reads and the      *)
(* booleans isTxn, success, card and mandate of the ingest procedures.      *)
CustomerFilters == {"txn", "success", "card", "mandate"}
MerchantFilters == {"txn", "success"}

Matches(f, e) ==
  \/ f = "txn"     /\ e.kind = "TXN"
  \/ f = "success" /\ e.kind = "TXN"     /\ e.result = "SUCCESS"
  \/ f = "card"    /\ e.kind = "TXN"     /\ e.type = "CARD_PAY"
  \/ f = "mandate" /\ e.kind = "MANDATE" /\ e.type = "AUTO_DEBIT"

(* t - (t % unit): the start of the bucket that holds t. *)
FloorTo(t, unit) == t - (t % unit)

Smaller(a, b) == IF a = None \/ b < a THEN b ELSE a
Larger(a, b)  == IF a = None \/ b > a THEN b ELSE a

(***************************************************************************)
(* A bucket: attempts of every event, and per filter a count and a sum of  *)
(* the events that were no duplicates; MIN and MAX of the TXN amounts.     *)
(***************************************************************************)
BucketOf(filters) ==
  [ attempts : Nat,
    count    : [filters -> Nat],
    sum      : [filters -> Nat],
    min      : Nat \cup {None},
    max      : Nat \cup {None} ]

EmptyBucket(filters) ==
  [ attempts |-> 0,
    count    |-> [f \in filters |-> 0],
    sum      |-> [f \in filters |-> 0],
    min      |-> None,
    max      |-> None ]

(* The bucket a procedure works on: the stored row, or zeroes. *)
RowOrEmpty(row, filters) == IF row = None THEN EmptyBucket(filters) ELSE row

Attempted(b) == [b EXCEPT !.attempts = @ + 1]

(* The accumulators of an event that is no duplicate. *)
Absorbed(b, filters, e) ==
  [ b EXCEPT
      !.count = [f \in filters |-> @[f] + (IF Matches(f, e) THEN 1 ELSE 0)],
      !.sum   = [f \in filters |-> @[f] + (IF Matches(f, e) THEN e.amount ELSE 0)],
      !.min   = IF Matches("txn", e) THEN Smaller(@, e.amount) ELSE @,
      !.max   = IF Matches("txn", e) THEN Larger(@, e.amount)  ELSE @ ]

(* Definitions named Bug... are defective variants of the definition that   *)
(* follows them: PROJECT.json pairs each with the property that refutes it. *)
BugAccumulatesRetries(row, filters, e, duplicate) ==
  Absorbed(Attempted(RowOrEmpty(row, filters)), filters, e)
BugIgnoresRetries(row, filters, e, duplicate) ==
  LET b == RowOrEmpty(row, filters)
  IN  IF duplicate THEN b ELSE Absorbed(Attempted(b), filters, e)

(* The bucket after one call of an ingest procedure. *)
Accumulated(row, filters, e, duplicate) ==
  LET b == Attempted(RowOrEmpty(row, filters))
  IN  IF duplicate THEN b ELSE Absorbed(b, filters, e)
=============================================================================

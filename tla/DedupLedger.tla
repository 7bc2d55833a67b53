---------------------------- MODULE DedupLedger ----------------------------
(***************************************************************************)
(* The promise both ingest tiers make about retries, without any table:    *)
(* a ledger of counted facts to which a fact is added once per key, and    *)
(* again only when every earlier fact of that key is more than Retention   *)
(* of event time behind the clock.  A retry inside the retention is a      *)
(* stutter.  CustomerTier implements this with TXN_RAW (7 days) and        *)
(* MerchantTier with MERCHANT_TXN_SEEN (48 hours).                         *)
(***************************************************************************)
EXTENDS Integers

CONSTANTS Keys,       \* <<subject, txn_id>> pairs
          Times,      \* the event times a fact may carry
          Events,     \* payloads
          Retention   \* event-time age up to which a key is remembered

VARIABLES clock, ledger
ledgerVars == <<clock, ledger>>

Facts == [key : Keys, at : Times, event : Events]

Forgotten(k) == \A x \in ledger : x.key = k => clock - x.at > Retention

Init == clock = 0 /\ ledger = {}

Count(fact) ==
  /\ Forgotten(fact.key)
  /\ ledger' = ledger \cup {fact}
  /\ UNCHANGED clock

Advance == clock' = clock + 1 /\ UNCHANGED ledger

Next == Advance \/ \E fact \in Facts : Count(fact)

Spec == Init /\ [][Next]_ledgerVars
=============================================================================

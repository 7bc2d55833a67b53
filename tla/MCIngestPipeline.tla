-------------------------- MODULE MCIngestPipeline --------------------------
(* Instances of IngestPipeline for TLC. *)
EXTENDS IngestPipeline, TLC

CONSTANTS c1, t1, t2, m1, m2

Payment(m, result) ==
  [kind |-> "TXN", type |-> "OTHER", result |-> result, amount |-> 1,
   merchant |-> m, city |-> None]

MCPayloads == {Payment(m, result) : m \in Merchants \cup {None}, result \in {"FAILED", "SUCCESS"}}

Message(t, m, result, form) ==
  [cust |-> c1, txn |-> t, event |-> Payment(m, result), form |-> form]

(* A payment, its retry at another merchant, a payment without a merchant,  *)
(* and a message that is no JSON; each may be sent twice.                   *)
MCMessages ==
  { Message(t1, m1, "FAILED", "ok"), Message(t1, m2, "SUCCESS", "ok"),
    Message(t2, None, "SUCCESS", "ok"),
    Message(t2, None, "SUCCESS", "dlq_unparseable_json") }

(* What the load generator sends for a retry: the same transaction, a       *)
(* payment result of SUCCESS, and a merchant drawn afresh.                  *)
RetryMessages ==
  { Message(t1, m1, "FAILED", "ok"), Message(t1, m2, "SUCCESS", "ok") }
=============================================================================

--------------------------- MODULE MCCustomerTier ---------------------------
(* Instances of CustomerTier, and of the panels over it, for TLC. *)
EXTENDS CustomerPanels, TLC

(* A failed card payment, a smaller successful one of another type, and a   *)
(* mandate debit: every filter separates two of them.                       *)
MCPayloads ==
  { [kind |-> "TXN", type |-> "CARD_PAY", result |-> "FAILED",
     amount |-> 2, merchant |-> None, city |-> None],
    [kind |-> "TXN", type |-> "OTHER", result |-> "SUCCESS",
     amount |-> 1, merchant |-> None, city |-> None],
    [kind |-> "MANDATE", type |-> "AUTO_DEBIT", result |-> "SUCCESS",
     amount |-> 1, merchant |-> None, city |-> None] }

MCTxnSymmetry == Permutations(Txns)
=============================================================================

--------------------------- MODULE MCMerchantTier ---------------------------
(* An instance of MerchantTier for TLC. *)
EXTENDS MerchantTier, TLC

MCPayloads ==
  { [kind |-> "TXN", type |-> "OTHER", result |-> "FAILED",
     amount |-> 2, merchant |-> None, city |-> None],
    [kind |-> "TXN", type |-> "OTHER", result |-> "SUCCESS",
     amount |-> 1, merchant |-> None, city |-> None] }

MCSymmetry == Permutations(Merchants) \cup Permutations(Txns)
=============================================================================

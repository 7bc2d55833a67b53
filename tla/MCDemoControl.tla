--------------------------- MODULE MCDemoControl ---------------------------
(* Model values for DemoControl.                                           *)
EXTENDS DemoControl, TLC

\* Requests are told apart by nothing but what they do.
RequestSymmetry == Permutations(Requests)
=============================================================================

--------------------------- MODULE MCWalletBilling ---------------------------
(* WalletBilling with two concurrent handlers.                               *)
EXTENDS WalletBilling, TLC

MCSymmetry == Permutations(Workers) \cup Permutations(TopUps) \cup Permutations(Sessions)
=============================================================================

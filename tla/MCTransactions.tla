--------------------------- MODULE MCTransactions ---------------------------
(***************************************************************************)
(* Instances of Transactions for TLC.                                      *)
(***************************************************************************)
EXTENDS Transactions, TLC

Symmetric == Permutations(Tx) \cup Permutations(Verify) \cup Permutations(SepayId)
=============================================================================

---------------------------- MODULE MCOrderItems ----------------------------
(***************************************************************************)
(* Instances of OrderItems for TLC.                                        *)
(***************************************************************************)
EXTENDS OrderItems, TLC

Symmetric ==
  Permutations(Request) \cup Permutations(Item) \cup Permutations(Order)
  \cup Permutations(Product) \cup Permutations(Category)
=============================================================================

----------------------------- MODULE MCAccounts ------------------------------
(***************************************************************************)
(* Instances of Accounts for TLC.                                          *)
(***************************************************************************)
EXTENDS Accounts, TLC

Symmetric ==
  Permutations(Request) \cup Permutations(User) \cup Permutations(Employee)
  \cup Permutations(Name) \cup Permutations(Email)
=============================================================================

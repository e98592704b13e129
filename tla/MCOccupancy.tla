---------------------------- MODULE MCOccupancy -----------------------------
(* Instances of Occupancy small enough for TLC.                            *)
EXTENDS Occupancy, TLC

Symmetric == Permutations(Request) \cup Permutations(Order)

SymmetricTables == Symmetric \cup Permutations(Table)

=============================================================================

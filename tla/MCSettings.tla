----------------------------- MODULE MCSettings ------------------------------
(***************************************************************************)
(* Instances of SettingsPage for TLC.                                      *)
(***************************************************************************)
EXTENDS SettingsPage, TLC

CONSTANTS k1, k2, a1

OwnerOf   == [a \in Account |-> IF a = a1 THEN k1 ELSE k2]
Symmetric == Permutations(Request)
=============================================================================

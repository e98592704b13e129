----------------------------- MODULE MCPayments -----------------------------
(* Instances of Payments small enough for TLC.                             *)
EXTENDS Payments, TLC

CONSTANTS o1, o2, p1, p2

OneOrder       == [p \in Payment |-> o1]
OrderPerPayment == (p1 :> o1) @@ (p2 :> o2)

Symmetric == Permutations(Request) \cup Permutations(Transfer)

=============================================================================

--------------------------- MODULE MCPaymentDialog --------------------------
(* Instances of PaymentDialog small enough for TLC.                        *)
EXTENDS PaymentDialog, TLC

=============================================================================

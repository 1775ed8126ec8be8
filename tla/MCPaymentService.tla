--------------------------- MODULE MCPaymentService ---------------------------
(***************************************************************************)
(* Instances of PaymentService for TLC.                                    *)
(***************************************************************************)
EXTENDS PaymentService, TLC

MCStored == [m \in Metadata |-> m]
===============================================================================

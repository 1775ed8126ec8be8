--------------------------- MODULE MCPaymentConsumer ---------------------------
(***************************************************************************)
(* Instances of PaymentConsumer for TLC. As in the code, each payment has  *)
(* one event: CreatePayment adds exactly one outbox row.                   *)
(***************************************************************************)
EXTENDS PaymentConsumer, TLC

MCPaymentOf == [e \in Events |-> CHOOSE p \in Payments : TRUE]

Symmetry == Permutations(Consumers)
===============================================================================

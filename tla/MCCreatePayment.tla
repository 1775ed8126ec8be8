---------------------------- MODULE MCCreatePayment ----------------------------
(***************************************************************************)
(* Instances of CreatePayment for TLC. A number such as 1e23 in metadata   *)
(* is sent as a float; JSONB keeps the decimal digits, which come back as  *)
(* the integer 10 ** 23, and in Python 10 ** 23 != 1e23.                   *)
(***************************************************************************)
EXTENDS CreatePayment

MCMetadata == {"float", "integer"}
MCStored == [m \in MCMetadata |-> "integer"]
===============================================================================

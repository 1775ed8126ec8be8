----------------------------- MODULE RetryPolicy -----------------------------
(***************************************************************************)
(* What the consumer does with a message whose handler raised:             *)
(* application/retry/policy.py. Exceptions are abstracted to the classes   *)
(* the policy tells apart.                                                 *)
(***************************************************************************)
EXTENDS Integers

CONSTANT MaxAttempts    \* RetryPolicy(max_attempts=...), 3 in the code

ASSUME MaxAttemptsAssumption == MaxAttempts \in Nat \ {0}

(***************************************************************************)
(* transient    TransientDependencyError: webhook timeout, transport, 5xx  *)
(* application  any other ApplicationError: PaymentNotFound, webhook 4xx   *)
(* other        an exception of a library: the database, the broker        *)
(* DomainError is of the same kind as application for the policy; no step  *)
(* of the consumer raises one for a payment CreatePayment accepted.        *)
(***************************************************************************)
Errors == {"transient", "application", "other"}

IsRetryable(error) == error # "application"

\* A mutant: the attempts already made are counted one short.
DecideActionOffByOne(retry_count, error) ==
    IF IsRetryable(error) /\ retry_count < MaxAttempts
      THEN "retry" ELSE "dlq"

DecideAction(retry_count, error) ==
    IF IsRetryable(error) /\ retry_count + 1 < MaxAttempts
      THEN "retry" ELSE "dlq"
==============================================================================

--------------------------- MODULE PaymentLifecycle ---------------------------
(***************************************************************************)
(* What the service promises about one payment, however many messages,     *)
(* consumers, retries and crashes it takes: the gateway decides the charge *)
(* once, the payment is settled once and as the gateway decided, and the   *)
(* merchant is only ever told the settled status. PaymentConsumer is       *)
(* checked and proved to implement this.                                   *)
(***************************************************************************)
CONSTANTS
    Payments,
    None            \* no row, no value

VARIABLES
    status,         \* status[p]: the row of table payments
    outcome,        \* outcome[p]: what the gateway decided, None before
    notified        \* notified[p]: the statuses the merchant was told

vars == <<status, outcome, notified>>

Statuses == {"absent", "pending", "succeeded", "failed"}
Terminal == {"succeeded", "failed"}
Outcomes == {"success", "failure"}

\* The status Payment.succeed or Payment.fail moves a payment to.
StatusOf(result) == IF result = "success" THEN "succeeded" ELSE "failed"

TypeOK ==
    /\ status \in [Payments -> Statuses]
    /\ outcome \in [Payments -> Outcomes \cup {None}]
    /\ notified \in [Payments -> SUBSET Terminal]

-------------------------------------------------------------------------------

Init ==
    /\ status \in [Payments -> {"absent", "pending"}]
    /\ outcome = [p \in Payments |-> None]
    /\ notified = [p \in Payments |-> {}]

\* Payment.create: a payment starts pending.
Create(p) ==
    /\ status[p] = "absent"
    /\ status' = [status EXCEPT ![p] = "pending"]
    /\ UNCHANGED <<outcome, notified>>

\* The gateway decides a charge for good.
Decide(p) ==
    /\ status[p] # "absent"
    /\ outcome[p] = None
    /\ \E result \in Outcomes : outcome' = [outcome EXCEPT ![p] = result]
    /\ UNCHANGED <<status, notified>>

\* _TRANSITIONS: only a pending payment moves, to either terminal status.
Settle(p) ==
    /\ status[p] = "pending"
    /\ outcome[p] # None
    /\ status' = [status EXCEPT ![p] = StatusOf(outcome[p])]
    /\ UNCHANGED <<outcome, notified>>

\* The webhook of a settled payment; it may be sent any number of times.
Notify(p) ==
    /\ status[p] \in Terminal
    /\ notified' = [notified EXCEPT ![p] = @ \cup {status[p]}]
    /\ UNCHANGED <<status, outcome>>

Next ==
    \E p \in Payments : Create(p) \/ Decide(p) \/ Settle(p) \/ Notify(p)

Spec == Init /\ [][Next]_vars

-------------------------------------------------------------------------------

(***************************************************************************)
(* A merchant is never told two outcomes of one payment, and what it is    *)
(* told is what GET /payments/{id} answers from then on: the webhook is    *)
(* built from the row that _complete returned, never from the result one   *)
(* consumer drew (charge.py, random_emulator.py).                          *)
(***************************************************************************)
ToldTheTruth ==
    \A p \in Payments : \A s \in notified[p] : s = status[p]

(***************************************************************************)
(* A settled payment has the status of the charge the gateway stored, so   *)
(* no payment is marked succeeded whose charge was declined.               *)
(***************************************************************************)
SettledAsCharged ==
    \A p \in Payments :
        status[p] \in Terminal =>
            outcome[p] # None /\ status[p] = StatusOf(outcome[p])
===============================================================================

------------------------ MODULE PaymentLifecycleProofs ------------------------
(***************************************************************************)
(* What PaymentLifecycle promises, proved of the abstract specification:   *)
(* whatever implements it keeps the promise.                               *)
(***************************************************************************)
EXTENDS PaymentLifecycle, TLAPS

\* ToldTheTruth is inductive once the payment that is told of is settled.
Promise == TypeOK /\ ToldTheTruth /\ SettledAsCharged

\* Nothing was told yet.
LEMMA InitPromise == Init => Promise
BY DEF Init, Promise, TypeOK, ToldTheTruth, SettledAsCharged,
       Statuses, Terminal, Outcomes

\* Every step keeps the promise.
LEMMA NextPromise == Promise /\ [Next]_vars => Promise'
<1> SUFFICES ASSUME Promise, [Next]_vars
             PROVE  Promise'
  OBVIOUS
<1> USE DEF Promise, TypeOK, ToldTheTruth, SettledAsCharged,
            Statuses, Terminal, Outcomes, StatusOf
<1>1. ASSUME NEW p \in Payments, Create(p)
      PROVE  Promise'
  BY <1>1 DEF Create
<1>2. ASSUME NEW p \in Payments, Decide(p)
      PROVE  Promise'
  BY <1>2 DEF Decide
<1>3. ASSUME NEW p \in Payments, Settle(p)
      PROVE  Promise'
  BY <1>3 DEF Settle
<1>4. ASSUME NEW p \in Payments, Notify(p)
      PROVE  Promise'
  BY <1>4 DEF Notify
<1>5. CASE UNCHANGED vars
  BY <1>5 DEF vars
<1> QED
  BY <1>1, <1>2, <1>3, <1>4, <1>5 DEF Next

(***************************************************************************)
(* No merchant is told two outcomes of a payment nor another than its row  *)
(* has, and no payment is settled otherwise than it was charged.           *)
(***************************************************************************)
THEOREM PromiseKept == Spec => [](ToldTheTruth /\ SettledAsCharged)
<1>1. Promise => ToldTheTruth /\ SettledAsCharged
  BY DEF Promise
<1> QED
  BY <1>1, InitPromise, NextPromise, PTL DEF Spec
===============================================================================

---------------------------- MODULE PaymentService ----------------------------
(***************************************************************************)
(* The whole service, as docker-compose.yml runs it: CreatePayment writes  *)
(* a payment with its outbox row, OutboxRelay carries the event to the     *)
(* broker, PaymentConsumer settles the payment and calls the merchant.     *)
(* They share the tables payments and outbox, and the queue payments.new.  *)
(* A step of the service is a step of one component, and of the one it     *)
(* writes to. A request, its payment and its event have one number.        *)
(***************************************************************************)
EXTENDS Integers, FiniteSets

CONSTANTS
    Requests, Keys, Orders, Metadata, Stored, None,
    Publishers, BatchSize,
    PublishAttempts,        \* OUTBOX_MAX_PUBLISH_ATTEMPTS
    Consumers,
    HandleAttempts,         \* RetryPolicy(max_attempts=...)
    MaxFaults               \* bound: faults of all components together

ASSUME ServiceAssumption ==
    /\ Requests \subseteq Nat
    /\ IsFiniteSet(Requests)
    /\ IsFiniteSet(Consumers)
    /\ Stored \in [Metadata -> Metadata]
    /\ \A m \in Metadata : Stored[Stored[m]] = Stored[m]
    /\ BatchSize \in Nat \ {0}
    /\ PublishAttempts \in Nat \ {0}
    /\ HandleAttempts \in Nat \ {0}
    /\ MaxFaults \in Nat
    /\ None \notin Publishers \cup Nat
    /\ None \notin {"fresh", "stale", "later", "due", "recent", "old",
                    "success", "failure"}
    /\ None \notin [key : Keys, body : [order : Orders, metadata : Metadata]]

VARIABLES
    payments,                                   \* shared: the status column
    columns, api_pc, request, answer, api_faults,           \* CreatePayment
    status, retry_count, claimed_at, available_at,          \* OutboxRelay
    published_at, locked, relay_pc, held, doomed, sent, tries, relay_faults,
    gateway_charges, inbox, new_queue, retry_queue, dlq,    \* PaymentConsumer
    consumer_pc, delivery, owned, local, notified, accepted, posts,
    published, consumer_faults

api == <<columns, api_pc, request, answer, api_faults>>
relay == <<status, retry_count, claimed_at, available_at, published_at,
           locked, relay_pc, held, doomed, sent, tries, relay_faults>>
consumer == <<gateway_charges, inbox, new_queue, retry_queue, dlq,
              consumer_pc, delivery, owned, local, notified, accepted, posts,
              published, consumer_faults>>
vars == <<payments, api, relay, consumer>>

\* A row that was purged was written all the same.
Api == INSTANCE CreatePayment
    WITH outbox <- {e \in Requests : status[e] # "none"},
         pc <- api_pc, faults <- api_faults

ASSUME AnswerAssumption == None \notin Api!Answers

Relay == INSTANCE OutboxRelay
    WITH Events <- Requests, MaxAttempts <- PublishAttempts,
         LateHolders <- TRUE, LostReplies <- TRUE,
         pc <- relay_pc, faults <- relay_faults

\* Each publish that reached the broker was counted or cost a fault.
Consumer == INSTANCE PaymentConsumer
    WITH Payments <- Requests, Events <- Requests,
         PaymentOf <- [e \in Requests |-> e], MaxAttempts <- HandleAttempts,
         MaxPublish <- 2 * (PublishAttempts + MaxFaults),
         pc <- consumer_pc, faults <- consumer_faults

Lifecycle == INSTANCE PaymentLifecycle
    WITH Payments <- Requests, status <- payments, outcome <- gateway_charges

Init ==
    /\ Relay!Init
    /\ Api!Init
    /\ Consumer!Init

-------------------------------------------------------------------------------

\* The transaction of CreatePayment: SqlOutboxWriter.add is part of it.
ApiStep(r) ==
    /\ Relay!Add(r) \/ UNCHANGED relay
    /\ Api!Refuse(r) \/ Api!Accept(r) \/ Api!Handle(r) \/ Api!Lose(r)
    /\ UNCHANGED consumer

\* FastStreamPublisher.publish: the broker has a copy more, or it has not
\* and the publish raised.
RelayPublish(p) ==
    LET e == Relay!Current(p) IN
    /\ Relay!Publish(p)
    /\ \/ e \in sent' /\ Consumer!Publish(e)
       \/ /\ relay_pc'[p] = "retry"
          /\ sent' = sent
          /\ UNCHANGED <<payments, consumer>>
    /\ UNCHANGED api

\* What else the relay does reaches neither the payments nor the broker.
RelayAlone(p) ==
    /\ \/ Relay!ClaimSelect(p) \/ Relay!ClaimCommit(p)
       \/ Relay!MarkProcessed(p) \/ Relay!RetryOrFail(p) \/ Relay!Purge(p)
    /\ UNCHANGED <<payments, api, consumer>>

RelayStep(p) == RelayPublish(p) \/ RelayAlone(p)

RelayDies(p) == Relay!Crash(p) /\ UNCHANGED <<payments, api, consumer>>

TimePasses(e) ==
    /\ \/ Relay!ClaimTimesOut(e) \/ Relay!BackoffElapses(e)
       \/ Relay!RetentionElapses(e)
    /\ UNCHANGED <<payments, api, consumer>>

ConsumerStep(c) == Consumer!Handle(c) /\ UNCHANGED <<api, relay>>

ConsumerReceives(c) == Consumer!Receive(c) /\ UNCHANGED <<api, relay>>

ConsumerDies(c) ==
    (Consumer!Crash(c) \/ Consumer!ChannelLost(c)) /\ UNCHANGED <<api, relay>>

RetryExpires ==
    /\ \E m \in Consumer!Message : Consumer!Expire(m)
    /\ UNCHANGED <<api, relay>>

FaultsBounded == api_faults + relay_faults + consumer_faults <= MaxFaults

Next ==
    /\ \/ \E r \in Requests : ApiStep(r) \/ TimePasses(r)
       \/ \E p \in Publishers : RelayStep(p) \/ RelayDies(p)
       \/ \E c \in Consumers :
            ConsumerStep(c) \/ ConsumerReceives(c) \/ ConsumerDies(c)
       \/ RetryExpires
    /\ FaultsBounded'

Spec == Init /\ [][Next]_vars

\* The fairness of the components. No client has to send a request.
Fairness ==
    /\ \A r \in Requests :
         /\ WF_vars(TimePasses(r))
         /\ WF_vars(ApiStep(r) /\ api_pc[r] # "idle")
    /\ \A p \in Publishers : SF_vars(RelayStep(p))
    /\ \A c \in Consumers :
         WF_vars(ConsumerStep(c)) /\ WF_vars(ConsumerReceives(c))
    /\ WF_vars(RetryExpires)

FairSpec == Spec /\ Fairness

-------------------------------------------------------------------------------

(***************************************************************************)
(* A payment that exists is carried by something at every moment: its      *)
(* outbox row while the relay is not done with it, and from then on a      *)
(* message, a delivery or its inbox row. It holds through each handover:   *)
(* the commit, a publish whose confirm is lost, a purge (create_payment.py *)
(* :52-59, publish_outbox.py:101-112, dispatcher.py:36-62).                *)
(***************************************************************************)
AcceptedIsCarried ==
    \A p \in Requests :
        payments[p] # "absent" =>
            \/ status[p] \in {"NEW", "PROCESSING", "FAILED"}
            \/ Consumer!Survives(p)

(***************************************************************************)
(* However often a client repeats a request, however often its event is    *)
(* published and handled: whoever is told of an Idempotency-Key, a client  *)
(* by a 202 or a merchant by a webhook, is told of one payment and of one  *)
(* outcome (create_payment.py:60-77, charge.py:44-57).                     *)
(***************************************************************************)
ToldOf(key) ==
    (UNION {{<<p, s>> : s \in notified[p]} :
              p \in {q \in Requests : columns[q] # None /\ columns[q].key = key}})
    \cup {<<answer[r].payment, answer[r].status>> :
            r \in {q \in Requests : /\ request[q] # None
                                    /\ request[q].key = key
                                    /\ answer[q] # None
                                    /\ answer[q].payment # None}}

OneOutcomePerKey ==
    \A key \in Keys :
        \A told1, told2 \in ToldOf(key) :
            /\ told1[1] = told2[1]
            /\ {told1[2], told2[2]} \subseteq Api!Terminal => told1 = told2

\* The service implements PaymentLifecycle, the creation of payments with it.
ImplementsLifecycle == Lifecycle!Spec

(***************************************************************************)
(* A client that was told 202 has its payment processed in the end: the    *)
(* webhook is accepted, or an operator finds the event in the DLQ or the   *)
(* row as FAILED. No fault of one process leaves it pending for ever.      *)
(***************************************************************************)
AcceptedIsProcessed ==
    \A p \in Requests :
        payments[p] # "absent" ~> Consumer!Handled(p) \/ status[p] = "FAILED"
===============================================================================

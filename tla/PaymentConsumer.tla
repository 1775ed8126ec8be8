---------------------------- MODULE PaymentConsumer ----------------------------
(***************************************************************************)
(* The consumer of queue payments.new: ProcessPayment behind               *)
(* PaymentMessageDispatcher, with the queues, the tables payments,         *)
(* gateway_charges and inbox, the gateway and the merchant's webhook.      *)
(*                                                                         *)
(* A consumer is one run of the message handler at a time. Its steps are   *)
(* what it awaits: one database transaction, one publish, one POST, one    *)
(* settlement of the delivery. Anything may happen between two steps,      *)
(* including the loss of the process or of its channel.                    *)
(***************************************************************************)
EXTENDS RetryPolicy, FiniteSetsExt

CONSTANTS
    Consumers,      \* the handler runs that may overlap
    Payments,
    Events,         \* outbox rows, hence the ids of messages
    PaymentOf,      \* the payment an event is about
    None,           \* no value
    MaxPublish,     \* bound: how often the relay publishes one event
    MaxFaults       \* bound: crashes, lost channels, unconfirmed forwards

ASSUME ConsumerAssumption ==
    /\ IsFiniteSet(Consumers)
    /\ IsFiniteSet(Events)
    /\ PaymentOf \in [Events -> Payments]
    /\ None \notin {"success", "failure"}
    /\ MaxPublish \in Nat
    /\ MaxFaults \in Nat

VARIABLES
    payments,           \* payments[p]: the status column, "absent": no row
    gateway_charges,    \* gateway_charges[p]: the stored outcome or None
    inbox,              \* the events with a row in the inbox table
    new_queue,          \* payments.new: copies ready, by message
    retry_queue,        \* payments.new.retry
    dlq,                \* payments.new.dlq
    pc,                 \* pc[c]: what handler c does next
    delivery,           \* delivery[c]: the message it was given
    owned,              \* owned[c]: the delivery's channel is still open
    local,              \* local[c]: the value its next step works on
    \* What happened so far: no code reads these.
    notified,           \* notified[p]: statuses the merchant was sent
    accepted,           \* payments whose webhook was answered with 2xx
    posts,              \* posts[p]: POSTs tried
    published,          \* published[e]: copies the relay published
    faults

tables == <<payments, gateway_charges, inbox>>
queues == <<new_queue, retry_queue, dlq>>
handler == <<pc, delivery, owned, local>>
webhooks == <<notified, accepted, posts>>
environment == <<published, faults>>
vars == <<tables, queues, handler, webhooks, environment>>

\* The abstract specification this module implements.
Lifecycle == INSTANCE PaymentLifecycle
    WITH status <- payments, outcome <- gateway_charges

Terminal == {"succeeded", "failed"}
Statuses == {"absent", "pending"} \cup Terminal
Outcomes == {"success", "failure"}

(***************************************************************************)
(* A message: the event whose codec wrote it and the x-retry-count header  *)
(* (0 when absent).                                                        *)
(***************************************************************************)
Message == [event: Events, retries: 0 .. MaxAttempts]
Subject(message) == PaymentOf[message.event]

\* A queue is how many copies of each message it holds: retries with their
\* own TTL, redeliveries and several consumers leave no order to rely on.
Put(queue, m) == [queue EXCEPT ![m] = @ + 1]
Take(queue, m) == [queue EXCEPT ![m] = @ - 1]

Steps == {"has_seen", "load", "cache_get", "cache_put", "complete",
          "webhook", "remember", "route", "ack", "reject"}

TypeOK ==
    /\ payments \in [Payments -> Statuses]
    /\ gateway_charges \in [Payments -> Outcomes \cup {None}]
    /\ inbox \in SUBSET Events
    /\ new_queue \in [Message -> Nat]
    /\ retry_queue \in [Message -> Nat]
    /\ dlq \in [Message -> Nat]
    /\ pc \in [Consumers -> Steps \cup {"idle"}]
    /\ delivery \in [Consumers -> Message \cup {None}]
    /\ owned \in [Consumers -> BOOLEAN]
    /\ local \in [Consumers -> Outcomes \cup Statuses \cup Errors \cup {None}]
    /\ notified \in [Payments -> SUBSET Terminal]
    /\ accepted \in SUBSET Payments
    /\ posts \in [Payments -> Nat]
    /\ published \in [Events -> 0 .. MaxPublish]
    /\ faults \in 0 .. MaxFaults

Init ==
    /\ payments \in [Payments -> {"absent", "pending"}]
    /\ gateway_charges = [p \in Payments |-> None]
    /\ inbox = {}
    /\ new_queue = [m \in Message |-> 0]
    /\ retry_queue = [m \in Message |-> 0]
    /\ dlq = [m \in Message |-> 0]
    /\ pc = [c \in Consumers |-> "idle"]
    /\ delivery = [c \in Consumers |-> None]
    /\ owned = [c \in Consumers |-> FALSE]
    /\ local = [c \in Consumers |-> None]
    /\ notified = [p \in Payments |-> {}]
    /\ accepted = {}
    /\ posts = [p \in Payments |-> 0]
    /\ published = [e \in Events |-> 0]
    /\ faults = 0

-------------------------------------------------------------------------------
(***************************************************************************)
(* The environment: the outbox relay and the broker.                       *)
(***************************************************************************)

\* The relay publishes an event, or publishes it once more.
Publish(e) ==
    /\ published[e] < MaxPublish
    /\ published' = [published EXCEPT ![e] = @ + 1]
    /\ new_queue' = Put(new_queue, [event |-> e, retries |-> 0])
    /\ UNCHANGED <<tables, retry_queue, dlq, handler, webhooks, faults>>

\* The TTL of a scheduled retry is over: the broker dead-letters it back.
Expire(m) ==
    /\ retry_queue[m] > 0
    /\ retry_queue' = Take(retry_queue, m)
    /\ new_queue' = Put(new_queue, m)
    /\ UNCHANGED <<tables, dlq, handler, webhooks, environment>>

\* prefetch_count=1: a consumer with an unsettled delivery gets no other.
Deliver(c, m) ==
    /\ pc[c] = "idle"
    /\ new_queue[m] > 0
    /\ new_queue' = Take(new_queue, m)
    /\ delivery' = [delivery EXCEPT ![c] = m]
    /\ owned' = [owned EXCEPT ![c] = TRUE]
    /\ pc' = [pc EXCEPT ![c] = "has_seen"]
    /\ UNCHANGED <<tables, retry_queue, dlq, local, webhooks, environment>>

-------------------------------------------------------------------------------
(***************************************************************************)
(* The handler.                                                            *)
(***************************************************************************)

Continue(c, step, value) ==
    /\ pc' = [pc EXCEPT ![c] = step]
    /\ local' = [local EXCEPT ![c] = value]
    /\ UNCHANGED <<delivery, owned>>

Raise(c, error) == Continue(c, "route", error)

Finish(c) ==
    /\ pc' = [pc EXCEPT ![c] = "idle"]
    /\ delivery' = [delivery EXCEPT ![c] = None]
    /\ owned' = [owned EXCEPT ![c] = FALSE]
    /\ local' = [local EXCEPT ![c] = None]

\* The primary key of table inbox is the id of the outbox row.
HasMessage(e) == e \in inbox
AddMessage(e) == inbox' = inbox \cup {e}

\* ProcessedMessageInbox.has_seen: an event handled before is acknowledged.
HasSeen(c) ==
    /\ pc[c] = "has_seen"
    /\ Continue(c, IF HasMessage(delivery[c].event) THEN "ack" ELSE "load", None)
    /\ UNCHANGED <<tables, queues, webhooks, environment>>

\* A mutant: is_terminal is not asked before the webhook is sent.
LoadSkipsCharge(c) ==
    LET status == payments[Subject(delivery[c])] IN
    /\ pc[c] = "load"
    /\ IF status = "absent" THEN Raise(c, "application")
                            ELSE Continue(c, "webhook", status)
    /\ UNCHANGED <<tables, queues, webhooks, environment>>

\* ChargePayment._load: the webhook of a settled payment is sent again.
Load(c) ==
    LET status == payments[Subject(delivery[c])] IN
    /\ pc[c] = "load"
    /\ \/ status = "absent" /\ Raise(c, "application")
       \/ status = "pending" /\ Continue(c, "cache_get", None)
       \/ status \in Terminal /\ Continue(c, "webhook", status)
    /\ UNCHANGED <<tables, queues, webhooks, environment>>

\* RandomPaymentGateway.charge up to the delay.
CacheGet(c) ==
    LET cached == gateway_charges[Subject(delivery[c])] IN
    /\ pc[c] = "cache_get"
    /\ IF cached = None THEN Continue(c, "cache_put", None)
                        ELSE Continue(c, "complete", cached)
    /\ UNCHANGED <<tables, queues, webhooks, environment>>

\* A mutant: put_if_absent answers with the result it was given.
CachePutKeepsOwnResult(c) ==
    LET p == Subject(delivery[c]) IN
    /\ pc[c] = "cache_put"
    /\ \E drawn \in Outcomes :
         /\ gateway_charges' = [gateway_charges EXCEPT
                                  ![p] = IF @ = None THEN drawn ELSE @]
         /\ Continue(c, "complete", drawn) \/ Raise(c, "other")
    /\ UNCHANGED <<payments, inbox, queues, webhooks, environment>>

(***************************************************************************)
(* The gateway draws an outcome and put_if_absent stores it unless another *)
(* consumer was faster; every caller goes on with the stored one. Like any *)
(* transaction below it may commit and its caller still get an exception.  *)
(***************************************************************************)
CachePut(c) ==
    LET p == Subject(delivery[c]) IN
    /\ pc[c] = "cache_put"
    /\ \E drawn \in Outcomes :
         LET stored == IF gateway_charges[p] = None
                         THEN drawn ELSE gateway_charges[p] IN
         /\ gateway_charges' = [gateway_charges EXCEPT ![p] = stored]
         /\ Continue(c, "complete", stored) \/ Raise(c, "other")
    /\ UNCHANGED <<payments, inbox, queues, webhooks, environment>>

Save(p, status) == payments' = [payments EXCEPT ![p] = status]

\* A mutant: the settled payment is returned without being committed.
CompleteUncommitted(c) ==
    /\ pc[c] = "complete"
    /\ Continue(c, "webhook", Lifecycle!StatusOf(local[c])) \/ Raise(c, "other")
    /\ UNCHANGED <<tables, queues, webhooks, environment>>

(***************************************************************************)
(* ChargePayment._complete: one transaction under the row lock of          *)
(* get_for_update. A row settled meanwhile is returned as it is.           *)
(***************************************************************************)
Complete(c) ==
    LET p == Subject(delivery[c])
        status == IF payments[p] = "pending"
                    THEN Lifecycle!StatusOf(local[c]) ELSE payments[p] IN
    /\ pc[c] = "complete"
    /\ Save(p, status)
    /\ IF status = "absent" THEN Raise(c, "application")
         ELSE Continue(c, "webhook", status) \/ Raise(c, "other")
    /\ UNCHANGED <<gateway_charges, inbox, queues, webhooks, environment>>

\* A mutant: an answer that is not 2xx does not raise.
WebhookIgnoresStatus(c) ==
    LET p == Subject(delivery[c]) IN
    /\ pc[c] = "webhook"
    /\ posts' = [posts EXCEPT ![p] = @ + 1]
    /\ \/ /\ notified' = [notified EXCEPT ![p] = @ \cup {local[c]}]
          /\ accepted' = accepted \/ accepted' = accepted \cup {p}
          /\ Continue(c, "remember", None)
       \/ UNCHANGED <<notified, accepted>> /\ Raise(c, "transient")
    /\ UNCHANGED <<tables, queues, environment>>

(***************************************************************************)
(* WebhookErrorMapper: an answer is rejected as permanent or transient, no *)
(* answer is transient. What is no TransportError goes by unmapped: a      *)
(* response that cannot be decoded, a URL httpx cannot parse.              *)
(***************************************************************************)
WebhookErrors(answered) ==
    {"transient", "other"} \cup IF answered THEN {"application"} ELSE {}

\* DeliverWebhook. A 5xx or a timeout leaves a merchant that has the status
\* all the same.
Webhook(c) ==
    LET p == Subject(delivery[c]) IN
    /\ pc[c] = "webhook"
    /\ posts' = [posts EXCEPT ![p] = @ + 1]
    /\ \/ \* the POST reached the merchant
          /\ notified' = [notified EXCEPT ![p] = @ \cup {local[c]}]
          /\ \/ /\ accepted' = accepted \cup {p}
                /\ Continue(c, "remember", None)
             \/ /\ accepted' = accepted
                /\ \E error \in WebhookErrors(TRUE) : Raise(c, error)
       \/ \* it did not
          /\ UNCHANGED <<notified, accepted>>
          /\ \E error \in WebhookErrors(FALSE) : Raise(c, error)
    /\ UNCHANGED <<tables, queues, environment>>

\* ProcessedMessageInbox.remember, ON CONFLICT DO NOTHING.
Remember(c) ==
    /\ pc[c] = "remember"
    /\ AddMessage(delivery[c].event)
    /\ Continue(c, "ack", None) \/ Raise(c, "other")
    /\ UNCHANGED <<payments, gateway_charges, queues, webhooks, environment>>

\* A transaction that did not commit: nothing changed but the handler raises.
DatabaseFails(c) ==
    /\ pc[c] \in {"has_seen", "load", "cache_get", "cache_put", "complete",
                  "remember"}
    /\ Raise(c, "other")
    /\ UNCHANGED <<tables, queues, webhooks, environment>>

-------------------------------------------------------------------------------
(***************************************************************************)
(* PaymentMessageDispatcher: how a delivery ends.                          *)
(***************************************************************************)

\* A mutant: the header is copied, not incremented.
ForwardSameCount(c) ==
    LET m == delivery[c] IN
    IF DecideAction(m.retries, local[c]) = "retry"
      THEN retry_queue' = Put(retry_queue, m) /\ UNCHANGED dlq
      ELSE dlq' = Put(dlq, m) /\ UNCHANGED retry_queue

\* FailureRouter: a copy for the retry queue counts one retry more.
Forward(c) ==
    LET m == delivery[c] IN
    IF DecideAction(m.retries, local[c]) = "retry"
      THEN /\ retry_queue' = Put(retry_queue, [m EXCEPT !.retries = @ + 1])
           /\ UNCHANGED dlq
      ELSE /\ dlq' = Put(dlq, m)
           /\ UNCHANGED retry_queue

\* A mutant: a publish that raised is taken for done.
RouteAcksUnforwarded(c) ==
    /\ pc[c] = "route"
    /\ Forward(c) \/ UNCHANGED <<retry_queue, dlq>>
    /\ Continue(c, "ack", None)
    /\ UNCHANGED <<tables, new_queue, webhooks, environment>>

\* A mutant: the delivery is rejected although its copy was forwarded.
RouteThenReject(c) ==
    /\ pc[c] = "route"
    /\ Forward(c) \/ UNCHANGED <<retry_queue, dlq>>
    /\ Continue(c, "reject", None)
    /\ UNCHANGED <<tables, new_queue, webhooks, environment>>

(***************************************************************************)
(* FailureRouter.route. The broker confirms the copy; or it does not and   *)
(* the publish raises, whether the copy is there or not, and the delivery  *)
(* is to be rejected.                                                      *)
(***************************************************************************)
Route(c) ==
    /\ pc[c] = "route"
    /\ \/ Forward(c) /\ Continue(c, "ack", None) /\ UNCHANGED faults
       \/ /\ UNCHANGED <<retry_queue, dlq, faults>>
          /\ Continue(c, "reject", None)
       \/ /\ faults < MaxFaults
          /\ faults' = faults + 1
          /\ Forward(c)
          /\ Continue(c, "reject", None)
    /\ UNCHANGED <<tables, new_queue, webhooks, published>>

\* message.ack(): on a lost channel it raises and the delivery is not its own.
Ack(c) ==
    /\ pc[c] = "ack"
    /\ Finish(c)
    /\ UNCHANGED <<tables, queues, webhooks, environment>>

\* message.reject(requeue=False): payments.new dead-letters to the DLQ.
Reject(c) ==
    /\ pc[c] = "reject"
    /\ dlq' = IF owned[c] THEN Put(dlq, delivery[c]) ELSE dlq
    /\ Finish(c)
    /\ UNCHANGED <<tables, new_queue, retry_queue, webhooks, environment>>

-------------------------------------------------------------------------------
(***************************************************************************)
(* Faults. A delivery that was not settled is put back by the broker.      *)
(***************************************************************************)

Requeue(c) ==
    new_queue' = IF owned[c] THEN Put(new_queue, delivery[c]) ELSE new_queue

\* The process is gone, and what its handler had not yet written.
Crash(c) ==
    /\ pc[c] # "idle"
    /\ faults < MaxFaults
    /\ faults' = faults + 1
    /\ Requeue(c)
    /\ Finish(c)
    /\ UNCHANGED <<tables, retry_queue, dlq, webhooks, published>>

\* The channel is gone and the handler does not notice before it settles.
ChannelLost(c) ==
    /\ owned[c]
    /\ faults < MaxFaults
    /\ faults' = faults + 1
    /\ Requeue(c)
    /\ owned' = [owned EXCEPT ![c] = FALSE]
    /\ UNCHANGED <<tables, retry_queue, dlq, pc, delivery, local, webhooks,
                   published>>

-------------------------------------------------------------------------------

Handle(c) ==
    \/ HasSeen(c) \/ Load(c) \/ CacheGet(c) \/ CachePut(c) \/ Complete(c)
    \/ Webhook(c) \/ Remember(c) \/ DatabaseFails(c)
    \/ Route(c) \/ Ack(c) \/ Reject(c)

Receive(c) == \E m \in Message : Deliver(c, m)

Next ==
    \/ \E e \in Events : Publish(e)
    \/ \E m \in Message : Expire(m)
    \/ \E c \in Consumers :
         Receive(c) \/ Handle(c) \/ Crash(c) \/ ChannelLost(c)

Spec == Init /\ [][Next]_vars

(***************************************************************************)
(* A handler goes on: each await it makes has a timeout or ends with the   *)
(* connection. The broker delivers what is ready to an idle consumer and   *)
(* dead-letters what expired.                                              *)
(***************************************************************************)
Fairness ==
    /\ \A c \in Consumers : WF_vars(Handle(c)) /\ WF_vars(Receive(c))
    /\ \A m \in Message : WF_vars(Expire(m))

FairSpec == Spec /\ Fairness

-------------------------------------------------------------------------------
(***************************************************************************)
(* Safety.                                                                 *)
(***************************************************************************)

(***************************************************************************)
(* However many consumers, duplicates and crashes: a merchant is told one  *)
(* status, that of the row. The webhook carries what _complete found under *)
(* the row lock, and only after it committed (charge.py:44-57).            *)
(***************************************************************************)
ToldTheTruth == Lifecycle!ToldTheTruth

(***************************************************************************)
(* A settled payment agrees with the charge put_if_absent stored, although *)
(* two consumers may both have missed the cache and drawn an outcome       *)
(* (random_emulator.py:29-36, sql_cache.py:29-52).                         *)
(***************************************************************************)
SettledAsCharged == Lifecycle!SettledAsCharged

(***************************************************************************)
(* An event that was published is never lost: it is in the inbox, or a     *)
(* copy waits in a queue or the DLQ, or the broker still holds a delivery  *)
(* it will put back. One about to be acknowledged does not count: its      *)
(* handler has made sure of the event elsewhere (dispatcher.py:36-62).     *)
(***************************************************************************)
Survives(e) ==
    \/ e \in inbox
    \/ \E m \in Message :
         m.event = e /\ (new_queue[m] > 0 \/ retry_queue[m] > 0 \/ dlq[m] > 0)
    \/ \E c \in Consumers :
         owned[c] /\ pc[c] # "ack" /\ delivery[c].event = e

NoEventLost == \A e \in Events : published[e] > 0 => Survives(e)

(***************************************************************************)
(* An inbox row, which silences every later copy, exists only for a        *)
(* payment that is settled and whose webhook a merchant accepted           *)
(* (process_payment.py:36-41).                                             *)
(***************************************************************************)
InboxMeansDelivered ==
    \A e \in inbox : /\ PaymentOf[e] \in accepted
                     /\ payments[PaymentOf[e]] \in Terminal

(***************************************************************************)
(* No copy counts MaxAttempts retries, and one that waits for a retry      *)
(* counts at least one (policy.py:33-38, failures.py:39-52).               *)
(***************************************************************************)
RetriesBounded ==
    \A m \in Message :
        /\ m.retries = MaxAttempts => new_queue[m] + retry_queue[m] + dlq[m] = 0
        /\ m.retries = 0 => retry_queue[m] = 0

(***************************************************************************)
(* Retrying does not multiply messages: each copy of an event the broker   *)
(* still has stems from a publication by the relay or from a fault. A      *)
(* delivery about to be acknowledged does not count: its copy replaces it. *)
(***************************************************************************)
Copies(e) ==
    SumFunctionOnSet(
        [m \in Message |-> new_queue[m] + retry_queue[m] + dlq[m]],
        {m \in Message : m.event = e})
    + Cardinality({c \in Consumers :
                     owned[c] /\ pc[c] # "ack" /\ delivery[c].event = e})

CopiesBounded == \A e \in Events : Copies(e) <= published[e] + faults

(***************************************************************************)
(* A merchant gets at most MaxAttempts POSTs for each publication of the   *)
(* payment's events and for each fault, whatever raises and whenever: only *)
(* a fault runs a handler again without counting it (identity.py:38-43).   *)
(***************************************************************************)
AttemptsBudget ==
    \A p \in Payments :
        posts[p] <= MaxAttempts *
            (SumFunctionOnSet(published, {e \in Events : PaymentOf[e] = p})
             + faults)

(***************************************************************************)
(* README.md:18-19 "If the handler dies before it can forward a message,   *)
(* Rabbit rejects it to the same DLQ". The code does so when forwarding    *)
(* raises; when the process dies the broker puts the message back into     *)
(* payments.new.                                                           *)
(***************************************************************************)
DeadHandlerDeadLetters ==
    [][\A c \in Consumers :
         owned[c] /\ pc[c] = "route" /\ pc'[c] = "idle"
           => dlq'[delivery[c]] = dlq[delivery[c]] + 1]_vars

-------------------------------------------------------------------------------
(***************************************************************************)
(* Refinement and liveness.                                                *)
(***************************************************************************)

\* Messages, retries and faults are only a way to run PaymentLifecycle.
ImplementsLifecycle == Lifecycle!Spec

(***************************************************************************)
(* Every published event is handled in the end: its webhook was accepted   *)
(* or it lies in the DLQ for an operator.                                  *)
(***************************************************************************)
Handled(e) == e \in inbox \/ \E m \in Message : m.event = e /\ dlq[m] > 0

EventuallyHandled == \A e \in Events : published[e] > 0 ~> Handled(e)

(***************************************************************************)
(* Retrying ends: once the relay and the faults are done, the queues drain *)
(* and every handler returns.                                              *)
(***************************************************************************)
Quiet ==
    /\ \A m \in Message : new_queue[m] = 0 /\ retry_queue[m] = 0
    /\ \A c \in Consumers : pc[c] = "idle"

EventuallyQuiet == <>[]Quiet
===============================================================================

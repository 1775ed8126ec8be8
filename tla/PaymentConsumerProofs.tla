-------------------------- MODULE PaymentConsumerProofs --------------------------
(***************************************************************************)
(* What is proved of PaymentConsumer for all finite sets of consumers and  *)
(* events, all payments, every number of attempts, publications, faults.   *)
(***************************************************************************)
EXTENDS PaymentConsumer, TLAPS

(***************************************************************************)
(* What a handler knows between two of its steps. A value read in one      *)
(* transaction is used in a later one: it is still right because a charge  *)
(* once stored and a payment once settled never change.                    *)
(***************************************************************************)
HandlerKnows(c) ==
    LET p == Subject(delivery[c]) IN
    /\ pc[c] # "idle" => delivery[c] \in Message
    /\ owned[c] => pc[c] # "idle"
    /\ pc[c] \in {"cache_get", "cache_put", "complete"} =>
         payments[p] # "absent"
    /\ pc[c] = "complete" =>
         local[c] \in Outcomes /\ local[c] = gateway_charges[p]
    /\ pc[c] = "webhook" =>
         local[c] \in Terminal /\ local[c] = payments[p]
    /\ pc[c] = "remember" => p \in accepted
    /\ pc[c] = "route" => local[c] \in Errors

\* The inductive invariant behind every theorem of this module.
IInv ==
    /\ TypeOK
    /\ \A c \in Consumers : HandlerKnows(c)
    /\ ToldTheTruth
    /\ SettledAsCharged
    /\ \A p \in accepted : payments[p] \in Terminal
    /\ InboxMeansDelivered

-------------------------------------------------------------------------------

\* The payment of a message is one.
LEMMA SubjectType == \A m \in Message : Subject(m) \in Payments
  BY ConsumerAssumption DEF Message, Subject

\* Putting a copy into a queue, or taking one that is there.
LEMMA QueueType ==
    ASSUME NEW queue \in [Message -> Nat], NEW m \in Message
    PROVE  /\ Put(queue, m) \in [Message -> Nat]
           /\ queue[m] > 0 => Take(queue, m) \in [Message -> Nat]
  BY DEF Put, Take

\* A forwarded copy is a message: retrying stops below MaxAttempts.
LEMMA ForwardType ==
    ASSUME NEW c \in Consumers, delivery[c] \in Message,
           retry_queue \in [Message -> Nat], dlq \in [Message -> Nat],
           Forward(c)
    PROVE  /\ retry_queue' \in [Message -> Nat]
           /\ dlq' \in [Message -> Nat]
<1> DEFINE m == delivery[c]
<1>1. CASE DecideAction(m.retries, local[c]) = "retry"
  <2>1. m.retries + 1 < MaxAttempts
    BY <1>1 DEF DecideAction
  <2>2. m.event \in Events /\ m.retries \in 0 .. MaxAttempts
    BY DEF Message
  <2>3. [m EXCEPT !.retries = @ + 1] \in Message
    BY <2>1, <2>2, MaxAttemptsAssumption DEF Message
  <2> QED
    BY <1>1, <2>3, QueueType DEF Forward
<1>2. CASE DecideAction(m.retries, local[c]) # "retry"
  BY <1>2, QueueType DEF Forward
<1> QED
  BY <1>1, <1>2

\* Empty tables and queues satisfy IInv.
LEMMA InitIInv == Init => IInv
  BY ConsumerAssumption, MaxAttemptsAssumption
     DEF Init, IInv, TypeOK, HandlerKnows, ToldTheTruth, SettledAsCharged,
         Lifecycle!ToldTheTruth, Lifecycle!SettledAsCharged,
         Lifecycle!Terminal, InboxMeansDelivered, Statuses, Terminal, Outcomes,
         Steps, Errors

-------------------------------------------------------------------------------

(***************************************************************************)
(* Tables only grow towards a settled payment: what makes a value read     *)
(* before an await still right after it.                                   *)
(***************************************************************************)
TablesGrow ==
    /\ \A p \in Payments :
         /\ payments[p] # "absent" => payments'[p] # "absent"
         /\ payments[p] \in Terminal => payments'[p] = payments[p]
         /\ gateway_charges[p] # None =>
              gateway_charges'[p] = gateway_charges[p]
    /\ accepted \subseteq accepted'

\* What a handler knows survives the steps of others.
LEMMA Frame ==
    ASSUME NEW d \in Consumers, HandlerKnows(d), TablesGrow,
           pc'[d] = pc[d], delivery'[d] = delivery[d],
           owned'[d] => owned[d], local'[d] = local[d]
    PROVE  HandlerKnows(d)'
<1>1. pc[d] # "idle" => Subject(delivery[d]) \in Payments
  BY SubjectType DEF HandlerKnows
<1>2. \A o \in Outcomes : o # None
  BY ConsumerAssumption DEF Outcomes
<1> QED
  BY <1>1, <1>2 DEF HandlerKnows, TablesGrow, Subject

\* Steps that leave the tables and the merchants alone.
LEMMA QuietStep ==
    ASSUME IInv, TypeOK', UNCHANGED <<tables, webhooks>>,
           \A d \in Consumers : HandlerKnows(d)'
    PROVE  IInv'
  BY DEF IInv, ToldTheTruth, SettledAsCharged, InboxMeansDelivered,
         Lifecycle!ToldTheTruth, Lifecycle!SettledAsCharged,
         Lifecycle!Terminal, Lifecycle!StatusOf, Terminal, tables, webhooks

\* Tables that stay the same do not shrink.
LEMMA QuietTables == UNCHANGED <<tables, webhooks>> => TablesGrow
  BY DEF TablesGrow, tables, webhooks

\* The steps of the environment: no handler sees them.
LEMMA PublishIInv ==
    ASSUME IInv, NEW e \in Events, Publish(e) PROVE IInv'
<1>1. [event |-> e, retries |-> 0] \in Message
  BY MaxAttemptsAssumption DEF Message
<1>2. TypeOK'
  <2>1. new_queue' \in [Message -> Nat]
    BY <1>1, QueueType DEF IInv, TypeOK, Publish
  <2>2. published' \in [Events -> 0 .. MaxPublish]
    BY ConsumerAssumption DEF IInv, TypeOK, Publish
  <2> QED
    BY <2>1, <2>2 DEF IInv, TypeOK, Publish, tables, handler, webhooks
<1>3. \A d \in Consumers : HandlerKnows(d)'
  BY Frame, QuietTables DEF IInv, Publish, tables, handler, webhooks
<1> QED
  BY <1>2, <1>3, QuietStep DEF Publish

\* A retry that is due again keeps IInv.
LEMMA ExpireIInv ==
    ASSUME IInv, NEW m \in Message, Expire(m) PROVE IInv'
<1>1. TypeOK'
  BY QueueType DEF IInv, TypeOK, Expire, tables, handler, webhooks, environment
<1>2. \A d \in Consumers : HandlerKnows(d)'
  BY Frame, QuietTables DEF IInv, Expire, tables, handler, webhooks
<1> QED
  BY <1>1, <1>2, QuietStep DEF Expire

\* A delivery starts a handler that knows nothing yet.
LEMMA DeliverIInv ==
    ASSUME IInv, NEW c \in Consumers, NEW m \in Message, Deliver(c, m)
    PROVE  IInv'
<1>1. TypeOK'
  BY QueueType
     DEF IInv, TypeOK, Deliver, tables, webhooks, environment, Steps
<1>2. HandlerKnows(c)'
  BY DEF IInv, TypeOK, Deliver, HandlerKnows
<1>3. \A d \in Consumers \ {c} : HandlerKnows(d)'
  BY Frame, QuietTables DEF IInv, TypeOK, Deliver
<1> QED
  BY <1>1, <1>2, <1>3, QuietStep DEF Deliver

-------------------------------------------------------------------------------

(***************************************************************************)
(* The steps of handler c. Each lemma shows that c knows what its next     *)
(* step needs; Frame does the other handlers.                              *)
(***************************************************************************)

\* has_seen keeps IInv.
LEMMA HasSeenIInv ==
    ASSUME IInv, NEW c \in Consumers, HasSeen(c) PROVE IInv'
<1> USE DEF HasSeen, HasMessage, Continue
<1>1. TypeOK'
  BY DEF IInv, TypeOK, tables, queues, webhooks, environment, Steps
<1>2. HandlerKnows(c)'
  BY DEF IInv, TypeOK, HandlerKnows
<1>3. \A d \in Consumers \ {c} : HandlerKnows(d)'
  BY Frame, QuietTables DEF IInv, TypeOK
<1> QED
  BY <1>1, <1>2, <1>3, QuietStep

\* What _load reads of a settled payment stays right.
LEMMA LoadIInv ==
    ASSUME IInv, NEW c \in Consumers, Load(c) PROVE IInv'
<1> USE DEF Load, Continue, Raise
<1>1. delivery[c] \in Message /\ Subject(delivery[c]) \in Payments
  BY SubjectType DEF IInv, HandlerKnows
<1>2. TypeOK'
  BY <1>1 DEF IInv, TypeOK, tables, queues, webhooks, environment, Steps,
              Errors, Statuses
<1>3. HandlerKnows(c)'
  BY <1>1 DEF IInv, TypeOK, HandlerKnows, tables, Terminal, Errors, Subject
<1>4. \A d \in Consumers \ {c} : HandlerKnows(d)'
  BY Frame, QuietTables DEF IInv, TypeOK
<1> QED
  BY <1>2, <1>3, <1>4, QuietStep

\* A charge found in the cache stays right.
LEMMA CacheGetIInv ==
    ASSUME IInv, NEW c \in Consumers, CacheGet(c) PROVE IInv'
<1> USE DEF CacheGet, Continue
<1>1. delivery[c] \in Message /\ Subject(delivery[c]) \in Payments
  BY SubjectType DEF IInv, HandlerKnows
<1>2. TypeOK'
  BY <1>1 DEF IInv, TypeOK, tables, queues, webhooks, environment, Steps
<1>3. HandlerKnows(c)'
  BY <1>1 DEF IInv, TypeOK, HandlerKnows, tables, Subject
<1>4. \A d \in Consumers \ {c} : HandlerKnows(d)'
  BY Frame, QuietTables DEF IInv, TypeOK
<1> QED
  BY <1>2, <1>3, <1>4, QuietStep

\* The charge every caller goes on with is the stored one.
LEMMA CachePutIInv ==
    ASSUME IInv, NEW c \in Consumers, CachePut(c) PROVE IInv' /\ TablesGrow
<1> USE DEF CachePut, Continue, Raise
<1> DEFINE p == Subject(delivery[c])
<1>1. delivery[c] \in Message /\ p \in Payments
  BY SubjectType DEF IInv, HandlerKnows
<1>2. PICK stored \in Outcomes :
        /\ gateway_charges' = [gateway_charges EXCEPT ![p] = stored]
        /\ gateway_charges[p] # None => stored = gateway_charges[p]
        /\ Continue(c, "complete", stored) \/ Raise(c, "other")
  BY <1>1 DEF IInv, TypeOK
<1>3. TypeOK'
  BY <1>1, <1>2
     DEF IInv, TypeOK, queues, webhooks, environment, Steps, Errors
<1>4. TablesGrow
  BY <1>1, <1>2 DEF IInv, TypeOK, TablesGrow, webhooks
<1>5. HandlerKnows(c)'
  BY <1>1, <1>2 DEF IInv, TypeOK, HandlerKnows, Errors, Subject
<1>6. \A d \in Consumers \ {c} : HandlerKnows(d)'
  BY <1>2, <1>4, Frame DEF IInv, TypeOK
<1>7. SettledAsCharged'
  BY <1>1, <1>2 DEF IInv, TypeOK, SettledAsCharged,
       Lifecycle!SettledAsCharged, Lifecycle!Terminal, Lifecycle!StatusOf
<1>8. ToldTheTruth' /\ InboxMeansDelivered'
      /\ \A q \in accepted' : payments'[q] \in Terminal
  BY DEF IInv, ToldTheTruth, Lifecycle!ToldTheTruth, InboxMeansDelivered,
         webhooks
<1> QED
  BY <1>3, <1>4, <1>5, <1>6, <1>7, <1>8 DEF IInv

\* A pending payment is settled as the stored charge says, another not at all.
LEMMA CompleteIInv ==
    ASSUME IInv, NEW c \in Consumers, Complete(c) PROVE IInv' /\ TablesGrow
<1> USE DEF Complete, Save, Continue, Raise
<1> DEFINE p == Subject(delivery[c])
           status == IF payments[p] = "pending"
                       THEN Lifecycle!StatusOf(local[c]) ELSE payments[p]
<1>1. delivery[c] \in Message /\ p \in Payments
  BY SubjectType DEF IInv, HandlerKnows
<1>2. local[c] \in Outcomes /\ local[c] = gateway_charges[p]
      /\ local[c] # None /\ payments[p] # "absent"
  BY ConsumerAssumption DEF IInv, HandlerKnows, Outcomes
<1>3. status \in Terminal
  BY <1>1, <1>2 DEF IInv, TypeOK, Statuses, Terminal, Lifecycle!StatusOf
<1>4. /\ payments' = [payments EXCEPT ![p] = status]
      /\ Continue(c, "webhook", status) \/ Raise(c, "other")
  BY <1>3 DEF Terminal
<1> HIDE DEF status, Complete
<1>5. TypeOK'
  BY <1>1, <1>3, <1>4
     DEF IInv, TypeOK, Complete, queues, webhooks, environment, Steps, Errors,
         Statuses
<1>6. TablesGrow
  BY <1>1, <1>3, <1>4
     DEF IInv, TypeOK, TablesGrow, Complete, webhooks, Terminal, status
<1>7. HandlerKnows(c)'
  BY <1>1, <1>3, <1>4 DEF IInv, TypeOK, HandlerKnows, Errors, Subject
<1>8. \A d \in Consumers \ {c} : HandlerKnows(d)'
  BY <1>4, <1>6, Frame DEF IInv, TypeOK
<1>9. SettledAsCharged'
  BY <1>1, <1>2, <1>4
     DEF IInv, TypeOK, SettledAsCharged, Complete, status, Terminal,
         Lifecycle!SettledAsCharged, Lifecycle!Terminal, Lifecycle!StatusOf
<1>10. ToldTheTruth'
  <2>1. \A q \in Payments : notified[q] # {} => payments[q] \in Terminal
    BY DEF IInv, TypeOK, ToldTheTruth, Lifecycle!ToldTheTruth
  <2> QED
    BY <2>1, <1>6 DEF IInv, TypeOK, ToldTheTruth, Lifecycle!ToldTheTruth,
                       TablesGrow, Complete, webhooks
<1>11. InboxMeansDelivered' /\ \A q \in accepted' : payments'[q] \in Terminal
  BY <1>6, ConsumerAssumption
     DEF IInv, TypeOK, InboxMeansDelivered, TablesGrow, Complete, webhooks
<1> QED
  BY <1>5, <1>6, <1>7, <1>8, <1>9, <1>10, <1>11 DEF IInv

\* What a merchant is told is the status of the row.
LEMMA WebhookIInv ==
    ASSUME IInv, NEW c \in Consumers, Webhook(c) PROVE IInv' /\ TablesGrow
<1> USE DEF Webhook, WebhookErrors, Continue, Raise
<1> DEFINE p == Subject(delivery[c])
<1>1. delivery[c] \in Message /\ p \in Payments
  BY SubjectType DEF IInv, HandlerKnows
<1>2. local[c] \in Terminal /\ local[c] = payments[p]
  BY DEF IInv, HandlerKnows
<1>3. TypeOK'
  <2>1. posts' \in [Payments -> Nat] /\ notified' \in [Payments -> SUBSET Terminal]
        /\ accepted' \in SUBSET Payments
    BY <1>1, <1>2 DEF IInv, TypeOK
  <2>2. /\ pc' \in [Consumers -> Steps \cup {"idle"}]
        /\ local' \in [Consumers -> Outcomes \cup Statuses \cup Errors \cup {None}]
    BY DEF IInv, TypeOK, Steps, Errors
  <2> QED
    BY <2>1, <2>2 DEF IInv, TypeOK, tables, queues, environment
<1>4. TablesGrow
  BY DEF TablesGrow, tables
<1>5. HandlerKnows(c)'
  BY <1>1 DEF IInv, TypeOK, HandlerKnows, Errors, Subject
<1>6. \A d \in Consumers \ {c} : HandlerKnows(d)'
  BY <1>4, Frame DEF IInv, TypeOK
<1>7. ToldTheTruth'
  BY <1>1, <1>2
     DEF IInv, TypeOK, ToldTheTruth, Lifecycle!ToldTheTruth, tables
<1>8. SettledAsCharged' /\ InboxMeansDelivered'
      /\ \A q \in accepted' : payments'[q] \in Terminal
  BY <1>2 DEF IInv, SettledAsCharged, Lifecycle!SettledAsCharged,
              Lifecycle!Terminal, Lifecycle!StatusOf, InboxMeansDelivered, tables
<1> QED
  BY <1>3, <1>4, <1>5, <1>6, <1>7, <1>8 DEF IInv

\* The inbox gets its row after the merchant accepted the webhook.
LEMMA RememberIInv ==
    ASSUME IInv, NEW c \in Consumers, Remember(c) PROVE IInv'
<1> USE DEF Remember, AddMessage, Continue, Raise
<1>1. delivery[c] \in Message /\ delivery[c].event \in Events
      /\ Subject(delivery[c]) \in accepted
  BY DEF IInv, HandlerKnows, Message
<1>2. TypeOK'
  BY <1>1 DEF IInv, TypeOK, queues, webhooks, environment, Steps, Errors
<1>3. TablesGrow
  BY DEF TablesGrow, webhooks
<1>4. HandlerKnows(c)'
  BY <1>1 DEF IInv, TypeOK, HandlerKnows, Errors, Subject, webhooks
<1>5. \A d \in Consumers \ {c} : HandlerKnows(d)'
  BY <1>3, Frame DEF IInv, TypeOK
<1>6. InboxMeansDelivered' /\ \A q \in accepted' : payments'[q] \in Terminal
  BY <1>1 DEF IInv, InboxMeansDelivered, Subject, webhooks
<1>7. ToldTheTruth' /\ SettledAsCharged'
  BY DEF IInv, ToldTheTruth, SettledAsCharged, webhooks,
         Lifecycle!ToldTheTruth, Lifecycle!SettledAsCharged,
         Lifecycle!Terminal, Lifecycle!StatusOf
<1> QED
  BY <1>2, <1>4, <1>5, <1>6, <1>7 DEF IInv

\* A transaction that did not commit keeps IInv.
LEMMA DatabaseFailsIInv ==
    ASSUME IInv, NEW c \in Consumers, DatabaseFails(c) PROVE IInv'
<1> USE DEF DatabaseFails, Continue, Raise
<1>1. TypeOK'
  BY DEF IInv, TypeOK, tables, queues, webhooks, environment, Steps, Errors
<1>2. HandlerKnows(c)'
  BY DEF IInv, TypeOK, HandlerKnows, Errors
<1>3. \A d \in Consumers \ {c} : HandlerKnows(d)'
  BY Frame, QuietTables DEF IInv, TypeOK
<1> QED
  BY <1>1, <1>2, <1>3, QuietStep

\* Forwarding keeps IInv.
LEMMA RouteIInv ==
    ASSUME IInv, NEW c \in Consumers, Route(c) PROVE IInv'
<1> USE DEF Route, Continue
<1>1. delivery[c] \in Message
  BY DEF IInv, HandlerKnows
<1>2. retry_queue' \in [Message -> Nat] /\ dlq' \in [Message -> Nat]
  BY <1>1, ForwardType DEF IInv, TypeOK
<1>3. faults' \in 0 .. MaxFaults
  BY ConsumerAssumption DEF IInv, TypeOK
<1>4. TypeOK'
  BY <1>2, <1>3 DEF IInv, TypeOK, tables, webhooks, Steps
<1>5. HandlerKnows(c)'
  BY <1>1 DEF IInv, TypeOK, HandlerKnows
<1>6. \A d \in Consumers \ {c} : HandlerKnows(d)'
  BY Frame, QuietTables DEF IInv, TypeOK
<1> QED
  BY <1>4, <1>5, <1>6, QuietStep

\* A handler that ends, by settling its delivery or by dying, knows nothing.
LEMMA FinishKnows ==
    ASSUME IInv, NEW c \in Consumers, Finish(c), UNCHANGED <<tables, webhooks>>
    PROVE  \A d \in Consumers : HandlerKnows(d)'
<1>1. HandlerKnows(c)'
  BY DEF IInv, TypeOK, HandlerKnows, Finish
<1>2. \A d \in Consumers \ {c} : HandlerKnows(d)'
  BY Frame, QuietTables DEF IInv, TypeOK, Finish
<1> QED
  BY <1>1, <1>2

\* An acknowledgement keeps IInv.
LEMMA AckIInv ==
    ASSUME IInv, NEW c \in Consumers, Ack(c) PROVE IInv'
<1>1. TypeOK'
  BY DEF IInv, TypeOK, Ack, Finish, tables, queues, webhooks, environment
<1> QED
  BY <1>1, FinishKnows, QuietStep DEF Ack

\* A rejection keeps IInv.
LEMMA RejectIInv ==
    ASSUME IInv, NEW c \in Consumers, Reject(c) PROVE IInv'
<1>1. delivery[c] \in Message
  BY DEF IInv, HandlerKnows, Reject
<1>2. dlq' \in [Message -> Nat]
  BY <1>1, QueueType DEF IInv, TypeOK, Reject
<1>3. TypeOK'
  BY <1>2 DEF IInv, TypeOK, Reject, Finish, tables, webhooks, environment
<1> QED
  BY <1>3, FinishKnows, QuietStep DEF Reject

\* Putting a delivery back leaves a queue.
LEMMA RequeueType ==
    ASSUME IInv, NEW c \in Consumers, Requeue(c)
    PROVE  new_queue' \in [Message -> Nat]
  BY QueueType DEF IInv, TypeOK, HandlerKnows, Requeue

\* The loss of a process keeps IInv.
LEMMA CrashIInv ==
    ASSUME IInv, NEW c \in Consumers, Crash(c) PROVE IInv'
<1>1. new_queue' \in [Message -> Nat] /\ faults' \in 0 .. MaxFaults
  BY RequeueType, ConsumerAssumption DEF Crash, IInv, TypeOK
<1>2. TypeOK'
  BY <1>1 DEF IInv, TypeOK, Crash, Finish, tables, webhooks
<1> QED
  BY <1>2, FinishKnows, QuietStep DEF Crash

\* The loss of a channel keeps IInv.
LEMMA ChannelLostIInv ==
    ASSUME IInv, NEW c \in Consumers, ChannelLost(c) PROVE IInv'
<1>1. new_queue' \in [Message -> Nat] /\ faults' \in 0 .. MaxFaults
  BY RequeueType, ConsumerAssumption DEF ChannelLost, IInv, TypeOK
<1>2. TypeOK'
  BY <1>1 DEF IInv, TypeOK, ChannelLost, tables, webhooks
<1>3. \A d \in Consumers : HandlerKnows(d)'
  BY Frame, QuietTables DEF IInv, TypeOK, ChannelLost
<1> QED
  BY <1>2, <1>3, QuietStep DEF ChannelLost

-------------------------------------------------------------------------------

\* Every step keeps IInv.
LEMMA NextIInv == IInv /\ [Next]_vars => IInv'
<1> SUFFICES ASSUME IInv, [Next]_vars PROVE IInv'
  OBVIOUS
<1>1. CASE \E e \in Events : Publish(e)
  BY <1>1, PublishIInv
<1>2. CASE \E m \in Message : Expire(m)
  BY <1>2, ExpireIInv
<1>3. CASE \E c \in Consumers : Receive(c)
  BY <1>3, DeliverIInv DEF Receive
<1>4. CASE \E c \in Consumers : Handle(c)
  BY <1>4, HasSeenIInv, LoadIInv, CacheGetIInv, CachePutIInv, CompleteIInv,
     WebhookIInv, RememberIInv, DatabaseFailsIInv, RouteIInv, AckIInv,
     RejectIInv DEF Handle
<1>5. CASE \E c \in Consumers : Crash(c) \/ ChannelLost(c)
  BY <1>5, CrashIInv, ChannelLostIInv
<1>6. CASE UNCHANGED vars
  <2>1. TypeOK'
    BY <1>6 DEF IInv, TypeOK, vars, tables, queues, handler, webhooks, environment
  <2>2. \A d \in Consumers : HandlerKnows(d)'
    BY <1>6, Frame, QuietTables DEF IInv, vars, handler
  <2> QED
    BY <1>6, <2>1, <2>2, QuietStep DEF vars
<1> QED
  BY <1>1, <1>2, <1>3, <1>4, <1>5, <1>6 DEF Next

\* IInv holds throughout.
THEOREM Invariant == Spec => []IInv
<1> QED
  BY InitIInv, NextIInv, PTL DEF Spec

(***************************************************************************)
(* Every variable keeps its type: in particular no queue is asked for a    *)
(* copy it does not have, and no message counts more than MaxAttempts      *)
(* retries.                                                                *)
(***************************************************************************)
THEOREM TypeCorrect == Spec => []TypeOK
<1>1. IInv => TypeOK
  BY DEF IInv
<1> QED
  BY <1>1, Invariant, PTL

(***************************************************************************)
(* A merchant is told the status of the row and no other, for any number   *)
(* of consumers and copies.                                                *)
(***************************************************************************)
THEOREM Agreement == Spec => []ToldTheTruth
<1>1. IInv => ToldTheTruth
  BY DEF IInv
<1> QED
  BY <1>1, Invariant, PTL

(***************************************************************************)
(* A settled payment agrees with the stored charge, whoever drew it and    *)
(* whoever settled.                                                        *)
(***************************************************************************)
THEOREM ChargeKept == Spec => []SettledAsCharged
<1>1. IInv => SettledAsCharged
  BY DEF IInv
<1> QED
  BY <1>1, Invariant, PTL

(***************************************************************************)
(* An inbox row stands for a settled payment whose webhook was accepted.   *)
(***************************************************************************)
THEOREM InboxCorrect == Spec => []InboxMeansDelivered
<1>1. IInv => InboxMeansDelivered
  BY DEF IInv
<1> QED
  BY <1>1, Invariant, PTL

-------------------------------------------------------------------------------
(***************************************************************************)
(* No event is lost.                                                       *)
(***************************************************************************)

\* What is put into a queue is there, and Put takes nothing away.
LEMMA PutKeeps ==
    ASSUME NEW queue \in [Message -> Nat], NEW m \in Message
    PROVE  /\ Put(queue, m)[m] > 0
           /\ \A n \in Message : queue[n] > 0 => Put(queue, m)[n] > 0
  BY DEF Put

\* A forwarded copy is somewhere, and no other copy is lost.
LEMMA ForwardKeeps ==
    ASSUME IInv, NEW c \in Consumers, pc[c] = "route", Forward(c)
    PROVE  /\ \E n \in Message : /\ n.event = delivery[c].event
                                 /\ retry_queue'[n] > 0 \/ dlq'[n] > 0
           /\ \A n \in Message : retry_queue[n] > 0 => retry_queue'[n] > 0
           /\ \A n \in Message : dlq[n] > 0 => dlq'[n] > 0
<1> DEFINE m == delivery[c]
<1>1. m \in Message
  BY DEF IInv, HandlerKnows
<1>2. CASE DecideAction(m.retries, local[c]) = "retry"
  <2> DEFINE n == [m EXCEPT !.retries = @ + 1]
  <2>1. n \in Message /\ n.event = m.event
    BY <1>1, <1>2, MaxAttemptsAssumption DEF Message, DecideAction
  <2>2. retry_queue' = Put(retry_queue, n) /\ dlq' = dlq
    BY <1>2 DEF Forward
  <2>3. retry_queue \in [Message -> Nat]
    BY DEF IInv, TypeOK
  <2> HIDE DEF n
  <2>4. /\ retry_queue'[n] > 0
        /\ \A k \in Message : retry_queue[k] > 0 => retry_queue'[k] > 0
    BY <2>1, <2>2, <2>3, PutKeeps
  <2> QED
    BY <2>1, <2>2, <2>4
<1>3. CASE DecideAction(m.retries, local[c]) # "retry"
  BY <1>1, <1>3, PutKeeps DEF Forward, IInv, TypeOK
<1> QED
  BY <1>2, <1>3

\* A delivery that is put back is in payments.new.
LEMMA RequeueKeeps ==
    ASSUME IInv, NEW c \in Consumers, Requeue(c)
    PROVE  /\ owned[c] => delivery[c] \in Message
                           /\ new_queue'[delivery[c]] > 0
           /\ \A n \in Message : new_queue[n] > 0 => new_queue'[n] > 0
<1>1. owned[c] => delivery[c] \in Message
  BY DEF IInv, HandlerKnows
<1> QED
  BY <1>1, PutKeeps DEF Requeue, IInv, TypeOK

\* A step of handler c that keeps its delivery and does not make it "ack".
LEMMA KeepsDelivery ==
    ASSUME NEW c \in Consumers, NEW e \in Events, Survives(e),
           NEW step, NEW value, Continue(c, step, value), step # "ack",
           inbox \subseteq inbox', UNCHANGED queues, TypeOK
    PROVE  Survives(e)'
  BY DEF Survives, Continue, queues, TypeOK

\* No step of a handler loses an event.
LEMMA HandleSurvives ==
    ASSUME IInv, NEW c \in Consumers, Handle(c), NEW e \in Events, Survives(e)
    PROVE  Survives(e)'
<1>1. CASE HasSeen(c)
  BY <1>1 DEF HasSeen, HasMessage, Continue, Survives, tables, queues, IInv, TypeOK
<1>2. CASE Load(c) \/ CacheGet(c) \/ CachePut(c) \/ Complete(c)
           \/ Webhook(c) \/ DatabaseFails(c)
  <2>1. /\ inbox' = inbox /\ UNCHANGED queues
        /\ \E step \in Steps \ {"ack"} : \E value : Continue(c, step, value)
    <3>1. CASE Load(c)
      BY <3>1 DEF Load, Raise, tables, Steps
    <3>2. CASE CacheGet(c)
      BY <3>2 DEF CacheGet, tables, Steps
    <3>3. CASE CachePut(c)
      BY <3>3 DEF CachePut, Raise, Steps
    <3>4. CASE Complete(c)
      BY <3>4 DEF Complete, Raise, Steps
    <3>5. CASE Webhook(c)
      BY <3>5 DEF Webhook, Raise, tables, Steps
    <3>6. CASE DatabaseFails(c)
      BY <3>6 DEF DatabaseFails, Raise, tables, Steps
    <3> QED
      BY <1>2, <3>1, <3>2, <3>3, <3>4, <3>5, <3>6
  <2> QED
    BY <2>1, KeepsDelivery DEF IInv
<1>3. CASE Remember(c)
  BY <1>3 DEF Remember, AddMessage, Continue, Raise, Survives, queues, IInv, TypeOK
<1>4. CASE Route(c)
  <2>1. CASE Forward(c)
    BY <1>4, <2>1, ForwardKeeps
       DEF Route, Continue, Survives, tables, IInv, TypeOK
  <2>2. CASE UNCHANGED <<retry_queue, dlq>> /\ Continue(c, "reject", None)
    BY <1>4, <2>2 DEF Route, Continue, Survives, tables, IInv, TypeOK
  <2> QED
    BY <1>4, <2>1, <2>2 DEF Route
<1>5. CASE Ack(c)
  BY <1>5 DEF Ack, Finish, Survives, tables, queues, IInv, TypeOK
<1>6. CASE Reject(c)
  <2>1. delivery[c] \in Message
    BY <1>6 DEF IInv, HandlerKnows, Reject
  <2>2. /\ owned[c] => dlq'[delivery[c]] > 0
        /\ \A n \in Message : dlq[n] > 0 => dlq'[n] > 0
    BY <1>6, <2>1, PutKeeps DEF Reject, IInv, TypeOK
  <2> QED
    BY <1>6, <2>1, <2>2 DEF Reject, Finish, Survives, tables, IInv, TypeOK
<1> QED
  BY <1>1, <1>2, <1>3, <1>4, <1>5, <1>6 DEF Handle

\* Neither the relay, the broker nor a fault loses an event.
LEMMA EnvironmentSurvives ==
    ASSUME IInv, NEW e \in Events, Survives(e),
           \/ \E d \in Events : Publish(d)
           \/ \E m \in Message : Expire(m)
           \/ \E c \in Consumers : Receive(c) \/ Crash(c) \/ ChannelLost(c)
    PROVE  Survives(e)'
<1>1. CASE \E d \in Events : Publish(d)
  <2>1. PICK d \in Events : Publish(d)
    BY <1>1
  <2>2. [event |-> d, retries |-> 0] \in Message
    BY MaxAttemptsAssumption DEF Message
  <2>3. \A n \in Message : new_queue[n] > 0 => new_queue'[n] > 0
    BY <2>1, <2>2, PutKeeps DEF Publish, IInv, TypeOK
  <2> QED
    BY <2>1, <2>3 DEF Publish, Survives, tables, handler
<1>2. CASE \E m \in Message : Expire(m)
  <2>1. PICK m \in Message : Expire(m)
    BY <1>2
  <2>2. /\ new_queue'[m] > 0
        /\ \A n \in Message : new_queue[n] > 0 => new_queue'[n] > 0
        /\ \A n \in Message \ {m} : retry_queue'[n] = retry_queue[n]
    BY <2>1, PutKeeps DEF Expire, IInv, TypeOK, Take
  <2> QED
    BY <2>1, <2>2 DEF Expire, Survives, tables, handler
<1>3. CASE \E c \in Consumers : Receive(c)
  <2>1. PICK c \in Consumers, m \in Message : Deliver(c, m)
    BY <1>3 DEF Receive
  <2>2. \A n \in Message \ {m} : new_queue'[n] = new_queue[n]
    BY <2>1 DEF Deliver, Take, IInv, TypeOK
  <2>3. /\ owned'[c] /\ pc'[c] = "has_seen" /\ delivery'[c] = m
        /\ ~owned[c]
        /\ \A d \in Consumers \ {c} : /\ owned'[d] = owned[d]
                                      /\ pc'[d] = pc[d]
                                      /\ delivery'[d] = delivery[d]
    BY <2>1 DEF Deliver, IInv, TypeOK, HandlerKnows
  <2> QED
    BY <2>1, <2>2, <2>3 DEF Deliver, Survives, tables
<1>4. CASE \E c \in Consumers : Crash(c) \/ ChannelLost(c)
  <2>1. PICK c \in Consumers : Crash(c) \/ ChannelLost(c)
    BY <1>4
  <2>2. Requeue(c) /\ inbox' = inbox /\ UNCHANGED <<retry_queue, dlq>>
    BY <2>1 DEF Crash, ChannelLost, tables
  <2>3. \A d \in Consumers \ {c} : /\ owned'[d] = owned[d]
                                   /\ pc'[d] = pc[d]
                                   /\ delivery'[d] = delivery[d]
    BY <2>1 DEF Crash, ChannelLost, Finish, IInv, TypeOK
  <2> QED
    BY <2>2, <2>3, RequeueKeeps DEF Survives
<1> QED
  BY <1>1, <1>2, <1>3, <1>4

\* An event survives its first publication: the copy is in payments.new.
LEMMA PublishedSurvives ==
    ASSUME IInv, NEW e \in Events, published[e] = 0, [Next]_vars,
           published'[e] > 0
    PROVE  Survives(e)'
<1>1. ASSUME NEW c \in Consumers,
             Receive(c) \/ Handle(c) \/ Crash(c) \/ ChannelLost(c)
      PROVE  published' = published
  <2>1. CASE Receive(c)
    BY <2>1 DEF Receive, Deliver, environment
  <2>2. CASE Handle(c)
    BY <2>2 DEF Handle, HasSeen, Load, CacheGet, CachePut, Complete, Webhook,
         Remember, DatabaseFails, Route, Ack, Reject, environment
  <2> QED
    BY <1>1, <2>1, <2>2 DEF Crash, ChannelLost
<1>2. PICK d \in Events : Publish(d)
  <2>1. published' # published
    OBVIOUS
  <2>2. Next
    BY <2>1 DEF vars, environment
  <2>3. ~ \E m \in Message : Expire(m)
    BY <2>1 DEF Expire, environment
  <2> QED
    BY <1>1, <2>1, <2>2, <2>3 DEF Next
<1>3. Publish(e)
  <2>1. d = e
    BY <1>2 DEF Publish, IInv, TypeOK
  <2> QED
    BY <1>2, <2>1
<1>4. [event |-> e, retries |-> 0] \in Message
  BY MaxAttemptsAssumption DEF Message
<1>5. new_queue'[[event |-> e, retries |-> 0]] > 0
  BY <1>3, <1>4, PutKeeps DEF Publish, IInv, TypeOK
<1> QED
  BY <1>4, <1>5 DEF Survives

\* An event that was published survives every step.
LEMMA NextNoEventLost == IInv /\ NoEventLost /\ [Next]_vars => NoEventLost'
<1> SUFFICES ASSUME IInv, NoEventLost, [Next]_vars,
                    NEW e \in Events, published'[e] > 0
             PROVE  Survives(e)'
  BY DEF NoEventLost
<1>1. CASE published[e] = 0
  BY <1>1, PublishedSurvives
<1>2. CASE published[e] > 0
  <2>1. Survives(e)
    BY <1>2 DEF NoEventLost
  <2>2. CASE Next
    BY <2>1, <2>2, EnvironmentSurvives, HandleSurvives DEF Next
  <2>3. CASE UNCHANGED vars
    BY <2>1, <2>3 DEF Survives, vars, tables, queues, handler
  <2> QED
    BY <2>2, <2>3
<1> QED
  BY <1>1, <1>2 DEF IInv, TypeOK

(***************************************************************************)
(* No event is lost, whatever crashes, is requeued, fails to be forwarded  *)
(* or is acknowledged on a channel that is gone.                           *)
(***************************************************************************)
THEOREM NothingLost == Spec => []NoEventLost
<1>1. Init => NoEventLost
  BY DEF Init, NoEventLost
<1> QED
  BY <1>1, NextNoEventLost, Invariant, PTL DEF Spec

-------------------------------------------------------------------------------
(***************************************************************************)
(* Retrying is bounded.                                                    *)
(***************************************************************************)

\* A queue holds no copy that counts MaxAttempts retries.
NoneSpent(queue) ==
    \A m \in Message : m.retries = MaxAttempts => queue[m] = 0

\* What no queue holds no handler is given.
RetryInv ==
    /\ NoneSpent(new_queue) /\ NoneSpent(retry_queue) /\ NoneSpent(dlq)
    /\ \A m \in Message : m.retries = 0 => retry_queue[m] = 0
    /\ \A c \in Consumers :
         pc[c] # "idle" => delivery[c].retries < MaxAttempts

\* A queue stays so when the copy put into it may be retried, and when one is
\* taken.
LEMMA NoneSpentKept ==
    ASSUME NEW queue \in [Message -> Nat], NoneSpent(queue), NEW m \in Message
    PROVE  /\ m.retries < MaxAttempts => NoneSpent(Put(queue, m))
           /\ queue[m] > 0 => NoneSpent(Take(queue, m)) /\ m.retries < MaxAttempts
<1>1. \A n \in Message : n.retries \in 0 .. MaxAttempts /\ queue[n] \in Nat
  BY DEF Message
<1>2. MaxAttempts \in Nat
  BY MaxAttemptsAssumption
<1>3. queue[m] > 0 => m.retries < MaxAttempts
  BY <1>1, <1>2 DEF NoneSpent
<1>4. ASSUME NEW n \in Message, n.retries = MaxAttempts, m.retries < MaxAttempts
      PROVE  n # m
  BY <1>1, <1>2, <1>4
<1> QED
  BY <1>3, <1>4 DEF NoneSpent, Put, Take

\* What a failed delivery becomes: a retry that counts one more, or a dead
\* letter, neither with all retries spent.
LEMMA ForwardRetries ==
    ASSUME IInv, RetryInv, NEW c \in Consumers, pc[c] = "route", Forward(c)
    PROVE  /\ NoneSpent(retry_queue') /\ NoneSpent(dlq')
           /\ \A m \in Message : m.retries = 0 => retry_queue'[m] = 0
<1> DEFINE m == delivery[c]
<1>1. /\ m \in Message /\ m.retries < MaxAttempts
      /\ retry_queue \in [Message -> Nat] /\ dlq \in [Message -> Nat]
  BY DEF IInv, TypeOK, HandlerKnows, RetryInv
<1>2. m.event \in Events /\ m.retries \in 0 .. MaxAttempts
  BY <1>1 DEF Message
<1>3. CASE DecideAction(m.retries, local[c]) = "retry"
  <2> DEFINE n == [m EXCEPT !.retries = @ + 1]
  <2>1. m.retries + 1 < MaxAttempts
    BY <1>3 DEF DecideAction
  <2>2. n \in Message
    BY <1>1, <1>2, <2>1, MaxAttemptsAssumption DEF Message
  <2>3. n.retries = m.retries + 1
    BY <1>1 DEF Message
  <2>4. n.retries < MaxAttempts /\ n.retries # 0
    BY <1>2, <2>1, <2>3
  <2>5. retry_queue' = Put(retry_queue, n) /\ dlq' = dlq
    BY <1>3 DEF Forward
  <2> HIDE DEF n
  <2>6. NoneSpent(retry_queue')
    BY <1>1, <2>2, <2>4, <2>5, NoneSpentKept DEF RetryInv
  <2>7. \A k \in Message : k.retries = 0 => retry_queue'[k] = 0
    BY <1>1, <2>2, <2>4, <2>5 DEF RetryInv, Put
  <2> QED
    BY <2>5, <2>6, <2>7 DEF RetryInv
<1>4. CASE DecideAction(m.retries, local[c]) # "retry"
  BY <1>1, <1>4, NoneSpentKept DEF Forward, RetryInv
<1> QED
  BY <1>3, <1>4

\* A handler that keeps its delivery or gives it up keeps RetryInv, if the
\* queues do.
LEMMA RetryKept ==
    ASSUME IInv, RetryInv, NEW c \in Consumers,
           \/ \E step, value : Continue(c, step, value) /\ pc[c] # "idle"
           \/ Finish(c)
           \/ UNCHANGED <<pc, delivery>>,
           NoneSpent(new_queue'), NoneSpent(retry_queue'), NoneSpent(dlq'),
           \A m \in Message : m.retries = 0 => retry_queue'[m] = 0
    PROVE  RetryInv'
<1>1. \A d \in Consumers : pc'[d] # "idle" =>
        pc[d] # "idle" /\ delivery'[d] = delivery[d]
  BY DEF Continue, Finish, IInv, TypeOK
<1> QED
  BY <1>1 DEF RetryInv, NoneSpent

\* The steps of a handler keep RetryInv.
LEMMA HandleRetries ==
    ASSUME IInv, RetryInv, NEW c \in Consumers, Handle(c) PROVE RetryInv'
<1>1. CASE HasSeen(c) \/ Load(c) \/ CacheGet(c) \/ CachePut(c) \/ Complete(c)
           \/ Webhook(c) \/ Remember(c) \/ DatabaseFails(c)
  <2>1. UNCHANGED queues /\ \E step, value : Continue(c, step, value) /\ pc[c] # "idle"
    <3>1. CASE HasSeen(c) \/ Load(c) \/ CacheGet(c)
      BY <3>1 DEF HasSeen, Load, CacheGet, Raise
    <3>2. CASE CachePut(c) \/ Complete(c)
      BY <3>2 DEF CachePut, Complete, Raise
    <3>3. CASE Webhook(c) \/ Remember(c) \/ DatabaseFails(c)
      BY <3>3 DEF Webhook, Remember, DatabaseFails, Raise
    <3> QED
      BY <1>1, <3>1, <3>2, <3>3
  <2> QED
    BY <2>1, RetryKept DEF queues, RetryInv
<1>2. CASE Route(c)
  <2>1. pc[c] = "route" /\ new_queue' = new_queue
        /\ \E step, value : Continue(c, step, value) /\ pc[c] # "idle"
    BY <1>2 DEF Route
  <2>2. CASE Forward(c)
    BY <2>1, <2>2, ForwardRetries, RetryKept DEF RetryInv
  <2>3. CASE UNCHANGED <<retry_queue, dlq>>
    BY <2>1, <2>3, RetryKept DEF RetryInv
  <2> QED
    BY <1>2, <2>2, <2>3 DEF Route
<1>3. CASE Ack(c)
  BY <1>3, RetryKept DEF Ack, queues, RetryInv
<1>4. CASE Reject(c)
  <2>1. delivery[c] \in Message /\ delivery[c].retries < MaxAttempts
        /\ dlq \in [Message -> Nat]
    BY <1>4 DEF Reject, IInv, TypeOK, HandlerKnows, RetryInv
  <2>2. NoneSpent(dlq')
    BY <1>4, <2>1, NoneSpentKept DEF Reject, RetryInv
  <2> QED
    BY <1>4, <2>2, RetryKept DEF Reject, RetryInv
<1> QED
  BY <1>1, <1>2, <1>3, <1>4 DEF Handle

\* So does the environment.
LEMMA EnvironmentRetries ==
    ASSUME IInv, RetryInv,
           \/ \E e \in Events : Publish(e)
           \/ \E m \in Message : Expire(m)
           \/ \E c \in Consumers : Receive(c) \/ Crash(c) \/ ChannelLost(c)
    PROVE  RetryInv'
<1>1. new_queue \in [Message -> Nat] /\ retry_queue \in [Message -> Nat]
  BY DEF IInv, TypeOK
<1>2. ASSUME NEW e \in Events, Publish(e) PROVE RetryInv'
  <2> DEFINE m == [event |-> e, retries |-> 0]
  <2>1. m \in Message /\ m.retries < MaxAttempts
    BY MaxAttemptsAssumption DEF Message
  <2>2. new_queue' = Put(new_queue, m)
        /\ UNCHANGED <<retry_queue, dlq, pc, delivery>>
    BY <1>2 DEF Publish, handler
  <2> HIDE DEF m
  <2>3. NoneSpent(new_queue')
    BY <1>1, <2>1, <2>2, NoneSpentKept DEF RetryInv
  <2> QED
    BY <2>2, <2>3 DEF RetryInv, NoneSpent
<1>3. ASSUME NEW m \in Message, Expire(m) PROVE RetryInv'
  <2>1. /\ retry_queue[m] > 0 /\ retry_queue' = Take(retry_queue, m)
        /\ new_queue' = Put(new_queue, m) /\ UNCHANGED <<dlq, pc, delivery>>
    BY <1>3 DEF Expire, handler
  <2>2. NoneSpent(retry_queue') /\ m.retries < MaxAttempts
    BY <1>1, <2>1, NoneSpentKept DEF RetryInv
  <2>3. NoneSpent(new_queue')
    BY <1>1, <2>1, <2>2, NoneSpentKept DEF RetryInv
  <2>4. \A k \in Message : k.retries = 0 => retry_queue'[k] = 0
    BY <1>1, <2>1 DEF RetryInv, Take
  <2> QED
    BY <2>1, <2>2, <2>3, <2>4 DEF RetryInv, NoneSpent
<1>4. ASSUME NEW c \in Consumers, Receive(c) PROVE RetryInv'
  <2>1. PICK m \in Message : Deliver(c, m)
    BY <1>4 DEF Receive
  <2>2. new_queue[m] > 0 /\ new_queue' = Take(new_queue, m)
        /\ UNCHANGED <<retry_queue, dlq>>
    BY <2>1 DEF Deliver
  <2>3. NoneSpent(new_queue') /\ m.retries < MaxAttempts
    BY <1>1, <2>2, NoneSpentKept DEF RetryInv
  <2>4. \A d \in Consumers : \/ d = c /\ delivery'[d] = m
                             \/ pc'[d] = pc[d] /\ delivery'[d] = delivery[d]
    BY <2>1 DEF Deliver, IInv, TypeOK
  <2> QED
    BY <2>2, <2>3, <2>4 DEF RetryInv, NoneSpent
<1>5. ASSUME NEW c \in Consumers, Crash(c) \/ ChannelLost(c) PROVE RetryInv'
  <2>1. Requeue(c) /\ UNCHANGED <<retry_queue, dlq>>
        /\ (Finish(c) \/ UNCHANGED <<pc, delivery>>)
    BY <1>5 DEF Crash, ChannelLost
  <2>2. owned[c] => delivery[c] \in Message /\ delivery[c].retries < MaxAttempts
    BY DEF IInv, HandlerKnows, RetryInv
  <2>3. NoneSpent(new_queue')
    BY <1>1, <2>1, <2>2, NoneSpentKept DEF Requeue, RetryInv
  <2> QED
    BY <2>1, <2>3, RetryKept DEF RetryInv
<1> QED
  BY <1>2, <1>3, <1>4, <1>5

\* RetryInv holds of every execution.
LEMMA RetryInvariant == Spec => []RetryInv
<1>1. Init => RetryInv
  BY DEF Init, RetryInv, NoneSpent
<1>2. IInv /\ RetryInv /\ [Next]_vars => RetryInv'
  <2> SUFFICES ASSUME IInv, RetryInv, [Next]_vars PROVE RetryInv'
    OBVIOUS
  <2>1. CASE UNCHANGED vars
    BY <2>1 DEF vars, queues, handler, RetryInv, NoneSpent
  <2> QED
    BY <2>1, HandleRetries, EnvironmentRetries DEF Next
<1> QED
  BY <1>1, <1>2, Invariant, PTL DEF Spec

(***************************************************************************)
(* No copy ever counts MaxAttempts retries, and one that waits for a retry *)
(* counts at least one: DecideAction stops one short of the limit, and     *)
(* only the router writes the header (policy.py:33-38, failures.py:39-52). *)
(***************************************************************************)
THEOREM RetriesEnd == Spec => []RetriesBounded
<1>1. IInv /\ RetryInv => RetriesBounded
  BY DEF IInv, TypeOK, RetryInv, NoneSpent, RetriesBounded
<1> QED
  BY <1>1, Invariant, RetryInvariant, PTL

-------------------------------------------------------------------------------
(***************************************************************************)
(* Refinement.                                                             *)
(***************************************************************************)

\* Every step is a step of PaymentLifecycle or leaves its variables alone.
LEMMA NextRefines == IInv /\ [Next]_vars => [Lifecycle!Next]_(Lifecycle!vars)
<1> SUFFICES ASSUME IInv, [Next]_vars
             PROVE  [Lifecycle!Next]_(Lifecycle!vars)
  OBVIOUS
<1> DEFINE Stutters == UNCHANGED <<payments, gateway_charges, notified>>
<1>1. Stutters => UNCHANGED Lifecycle!vars
  BY DEF Lifecycle!vars
<1>2. ASSUME NEW c \in Consumers, CachePut(c)
      PROVE  Stutters \/ \E p \in Payments : Lifecycle!Decide(p)
  <2> DEFINE p == Subject(delivery[c])
  <2>1. p \in Payments /\ payments[p] # "absent"
    BY <1>2, SubjectType DEF IInv, HandlerKnows, CachePut
  <2>2. CASE gateway_charges[p] = None
    <3>1. Lifecycle!Decide(p)
      BY <1>2, <2>1, <2>2
         DEF CachePut, Lifecycle!Decide, Lifecycle!Outcomes, Outcomes, webhooks
    <3> QED
      BY <2>1, <3>1
  <2>3. CASE gateway_charges[p] # None
    BY <1>2, <2>1, <2>3 DEF CachePut, IInv, TypeOK, webhooks
  <2> QED
    BY <2>2, <2>3
<1>3. ASSUME NEW c \in Consumers, Complete(c)
      PROVE  Stutters \/ \E p \in Payments : Lifecycle!Settle(p)
  <2> DEFINE p == Subject(delivery[c])
  <2>1. /\ p \in Payments /\ local[c] = gateway_charges[p]
        /\ gateway_charges[p] # None
    BY <1>3, SubjectType, ConsumerAssumption
       DEF IInv, HandlerKnows, Complete, Outcomes
  <2>2. CASE payments[p] = "pending"
    <3>1. Lifecycle!Settle(p)
      BY <1>3, <2>1, <2>2 DEF Complete, Save, Lifecycle!Settle, webhooks
    <3> QED
      BY <2>1, <3>1
  <2>3. CASE payments[p] # "pending"
    BY <1>3, <2>1, <2>3 DEF Complete, Save, IInv, TypeOK, webhooks
  <2> QED
    BY <2>2, <2>3
<1>4. ASSUME NEW c \in Consumers, Webhook(c)
      PROVE  Stutters \/ \E p \in Payments : Lifecycle!Notify(p)
  <2> DEFINE p == Subject(delivery[c])
  <2>1. /\ p \in Payments /\ local[c] = payments[p]
        /\ payments[p] \in Lifecycle!Terminal
    BY <1>4, SubjectType
       DEF IInv, HandlerKnows, Webhook, Terminal, Lifecycle!Terminal
  <2>2. \/ notified' = [notified EXCEPT ![p] = @ \cup {payments[p]}]
        \/ notified' = notified
    BY <1>4, <2>1 DEF Webhook
  <2>3. UNCHANGED <<payments, gateway_charges>>
    BY <1>4 DEF Webhook, tables
  <2> QED
    BY <2>1, <2>2, <2>3 DEF Lifecycle!Notify
<1>5. ASSUME NEW c \in Consumers,
             \/ Receive(c) \/ HasSeen(c) \/ Load(c) \/ CacheGet(c)
             \/ Remember(c) \/ DatabaseFails(c) \/ Route(c) \/ Ack(c)
             \/ Reject(c) \/ Crash(c) \/ ChannelLost(c)
      PROVE  Stutters
  BY <1>5 DEF Receive, Deliver, HasSeen, Load, CacheGet, Remember,
              DatabaseFails, Route, Ack, Reject, Crash, ChannelLost,
              tables, webhooks
<1>6. ASSUME \/ \E e \in Events : Publish(e)
             \/ \E m \in Message : Expire(m)
             \/ UNCHANGED vars
      PROVE  Stutters
  BY <1>6 DEF Publish, Expire, vars, tables, webhooks
<1> HIDE DEF Stutters
<1> QED
  BY <1>1, <1>2, <1>3, <1>4, <1>5, <1>6 DEF Next, Handle, Lifecycle!Next

(***************************************************************************)
(* The consumer implements PaymentLifecycle: charges are decided once,     *)
(* payments settled once and as charged, merchants told settled statuses   *)
(* only. What PaymentLifecycle promises holds of every execution.          *)
(***************************************************************************)
THEOREM Refinement == Spec => ImplementsLifecycle
<1>1. Init => Lifecycle!Init
  BY DEF Init, Lifecycle!Init
<1> QED
  BY <1>1, NextRefines, Invariant, PTL
     DEF Spec, ImplementsLifecycle, Lifecycle!Spec

-------------------------------------------------------------------------------
(***************************************************************************)
(* For a specification that creates payments besides, as PaymentService.   *)
(***************************************************************************)

\* A payment that is created disturbs no handler and loses no event: nothing
\* is known of a payment that is absent but that.
LEMMA CreatedIInv ==
    ASSUME IInv, NEW p \in Payments, payments[p] = "absent",
           payments' = [payments EXCEPT ![p] = "pending"],
           UNCHANGED <<gateway_charges, inbox, queues, handler, webhooks,
                       environment>>
    PROVE  IInv' /\ (NoEventLost => NoEventLost')
<1>1. TypeOK'
  BY DEF IInv, TypeOK, queues, handler, webhooks, environment, Statuses
<1>2. TablesGrow
  BY DEF IInv, TypeOK, TablesGrow, webhooks, Terminal
<1>3. \A d \in Consumers : HandlerKnows(d)'
  BY <1>2, Frame DEF IInv, handler
<1>4. ToldTheTruth'
  <2>1. \A q \in Payments : notified[q] # {} => payments[q] \in Terminal
    BY DEF IInv, TypeOK, ToldTheTruth, Lifecycle!ToldTheTruth
  <2> QED
    BY <1>2, <2>1 DEF IInv, TypeOK, ToldTheTruth, Lifecycle!ToldTheTruth,
                      TablesGrow, webhooks
<1>5. SettledAsCharged'
  BY DEF IInv, TypeOK, SettledAsCharged, Lifecycle!SettledAsCharged,
         Lifecycle!Terminal, Lifecycle!StatusOf
<1>6. InboxMeansDelivered' /\ \A q \in accepted' : payments'[q] \in Terminal
  BY <1>2, ConsumerAssumption
     DEF IInv, TypeOK, InboxMeansDelivered, TablesGrow, webhooks
<1>7. NoEventLost => NoEventLost'
  BY DEF NoEventLost, Survives, queues, handler, environment
<1> QED
  BY <1>1, <1>3, <1>4, <1>5, <1>6, <1>7 DEF IInv

\* All a consumer does to the table payments is to settle one that is pending.
LEMMA PaymentsSettle ==
    ASSUME IInv, [Next]_vars
    PROVE  \/ payments' = payments
           \/ \E p \in Payments : /\ payments[p] = "pending"
                                  /\ \E s \in Terminal :
                                       payments' = [payments EXCEPT ![p] = s]
<1>1. ASSUME NEW c \in Consumers, Complete(c)
      PROVE  \/ payments' = payments
             \/ \E p \in Payments : /\ payments[p] = "pending"
                                    /\ \E s \in Terminal :
                                         payments' = [payments EXCEPT ![p] = s]
  <2> DEFINE p == Subject(delivery[c])
  <2>1. p \in Payments
    BY <1>1, SubjectType DEF IInv, HandlerKnows, Complete
  <2>2. CASE payments[p] = "pending"
    BY <1>1, <2>1, <2>2 DEF Complete, Save, Lifecycle!StatusOf, Terminal
  <2>3. CASE payments[p] # "pending"
    BY <1>1, <2>1, <2>3 DEF Complete, Save, IInv, TypeOK
  <2> QED
    BY <2>2, <2>3
<1>2. ASSUME NEW c \in Consumers, Handle(c), ~ Complete(c)
      PROVE  payments' = payments
  BY <1>2 DEF Handle, HasSeen, Load, CacheGet, CachePut, Webhook, Remember,
              DatabaseFails, Route, Ack, Reject, tables
<1>3. ASSUME NEW c \in Consumers, Receive(c) \/ Crash(c) \/ ChannelLost(c)
      PROVE  payments' = payments
  BY <1>3 DEF Receive, Deliver, Crash, ChannelLost, tables
<1>4. ASSUME \/ \E e \in Events : Publish(e)
             \/ \E m \in Message : Expire(m)
             \/ UNCHANGED vars
      PROVE  payments' = payments
  BY <1>4 DEF Publish, Expire, vars, tables
<1> QED
  BY <1>1, <1>2, <1>3, <1>4 DEF Next

\* Only the relay counts publications.
LEMMA PublishedStays ==
    ASSUME \/ \E m \in Message : Expire(m)
           \/ \E c \in Consumers :
                Receive(c) \/ Handle(c) \/ Crash(c) \/ ChannelLost(c)
           \/ UNCHANGED vars
    PROVE  published' = published
<1>1. CASE \E c \in Consumers : Receive(c)
  BY <1>1 DEF Receive, Deliver, environment
<1>2. CASE \E c \in Consumers : Handle(c)
  BY <1>2 DEF Handle, HasSeen, Load, CacheGet, CachePut, Complete, Webhook,
         Remember, DatabaseFails, Route, Ack, Reject, environment
<1>3. CASE \E c \in Consumers : Crash(c) \/ ChannelLost(c)
  BY <1>3 DEF Crash, ChannelLost
<1> QED
  BY <1>1, <1>2, <1>3 DEF Expire, vars, environment
===============================================================================

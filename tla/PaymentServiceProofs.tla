------------------------- MODULE PaymentServiceProofs -------------------------
(***************************************************************************)
(* What the whole service promises for any number of requests, publishers  *)
(* and consumers: what was proved of each component, composed. A step of   *)
(* the service is a step of one component, and of the one it writes to;    *)
(* to each of the others it is no step, or one of its environment.         *)
(***************************************************************************)
EXTENDS PaymentService, TLAPS

\* The components with what was proved of them.
ApiP == INSTANCE CreatePaymentProofs
    WITH outbox <- {e \in Requests : status[e] # "none"},
         pc <- api_pc, faults <- api_faults

RelayP == INSTANCE OutboxRelayProofs
    WITH Events <- Requests, MaxAttempts <- PublishAttempts,
         LateHolders <- TRUE, LostReplies <- TRUE,
         pc <- relay_pc, faults <- relay_faults

ConsumerP == INSTANCE PaymentConsumerProofs
    WITH Payments <- Requests, Events <- Requests,
         PaymentOf <- [e \in Requests |-> e], MaxAttempts <- HandleAttempts,
         MaxPublish <- 2 * (PublishAttempts + MaxFaults),
         pc <- consumer_pc, faults <- consumer_faults

\* What the relay takes for sent has been in payments.new.
SentIsPublished == \A e \in sent : published[e] > 0

\* The invariants of the components, and what holds between two of them.
ServiceInv ==
    /\ ApiP!ApiInv
    /\ RelayP!RelayInv
    /\ ConsumerP!IInv
    /\ ConsumerP!NoEventLost
    /\ SentIsPublished

-------------------------------------------------------------------------------
(***************************************************************************)
(* What the components assume of their constants.                          *)
(***************************************************************************)

\* The assumptions of CreatePayment.
LEMMA ApiAssumptions ==
    /\ Stored \in [Metadata -> Metadata]
    /\ \A m \in Metadata : Stored[Stored[m]] = Stored[m]
    /\ None \notin Requests
    /\ MaxFaults \in Nat
    /\ None \notin [key : Keys, body : [order : Orders, metadata : Metadata]]
    /\ None \notin ApiP!Answers
<1>1. ApiP!Answers = Api!Answers
  BY DEF Api!Answers, ApiP!Answers, Api!Statuses, ApiP!Statuses, Api!Terminal,
         ApiP!Terminal, Api!Refused, ApiP!Refused, Api!Codes, ApiP!Codes
<1> QED
  BY <1>1, ServiceAssumption, AnswerAssumption

\* The assumptions of OutboxRelay.
LEMMA RelayAssumptions ==
    /\ Requests \subseteq Nat
    /\ RelayP!IsFiniteSet(Requests)
    /\ BatchSize \in Nat \ {0}
    /\ PublishAttempts \in Nat \ {0}
    /\ TRUE \in BOOLEAN
    /\ MaxFaults \in Nat
    /\ None \notin Publishers \cup Nat
    /\ None \notin {"fresh", "stale", "later", "due", "recent", "old"}
  BY ServiceAssumption DEF IsFiniteSet, RelayP!IsFiniteSet

\* The assumptions of PaymentConsumer.
LEMMA ConsumerAssumptions ==
    /\ ConsumerP!IsFiniteSet(Consumers)
    /\ ConsumerP!IsFiniteSet(Requests)
    /\ [e \in Requests |-> e] \in [Requests -> Requests]
    /\ None \notin {"success", "failure"}
    /\ 2 * (PublishAttempts + MaxFaults) \in Nat
    /\ MaxFaults \in Nat
    /\ HandleAttempts \in Nat \ {0}
  BY ServiceAssumption DEF IsFiniteSet, ConsumerP!IsFiniteSet

-------------------------------------------------------------------------------
(***************************************************************************)
(* The actions of the components are those the proofs speak of.            *)
(***************************************************************************)

\* The steps of a request.
LEMMA ApiRequests ==
    ASSUME NEW r \in Requests
    PROVE  /\ Api!Refuse(r) => ApiP!Refuse(r)
           /\ Api!Accept(r) => ApiP!Accept(r)
           /\ Api!Insert(r) => ApiP!Insert(r)
           /\ Api!Commit(r) => ApiP!Commit(r)
           /\ Api!Rollback(r) => ApiP!Rollback(r)
           /\ Api!Replay(r) => ApiP!Replay(r)
           /\ Api!DatabaseFails(r) => ApiP!DatabaseFails(r)
           /\ Api!Lose(r) => ApiP!Lose(r)
<1>1. Api!Refuse(r) => ApiP!Refuse(r)
  BY DEF Api!Refuse, ApiP!Refuse, Api!Verdicts, ApiP!Verdicts, Api!Flaws,
         ApiP!Flaws, Api!Reply, ApiP!Reply, Api!Refused, ApiP!Refused,
         Api!tables, ApiP!tables
<1>2. Api!Accept(r) => ApiP!Accept(r)
  BY DEF Api!Accept, ApiP!Accept, Api!Command, ApiP!Command, Api!Body,
         ApiP!Body, Api!Goto, ApiP!Goto, Api!tables, ApiP!tables
<1>3. Api!Insert(r) => ApiP!Insert(r)
  BY DEF Api!Insert, ApiP!Insert, Api!Uncommitted, ApiP!Uncommitted, Api!Goto,
         ApiP!Goto, Api!IsIdempotencyConflict, ApiP!IsIdempotencyConflict,
         Api!RowsOf, ApiP!RowsOf, Api!Exists, ApiP!Exists, Api!tables,
         ApiP!tables
<1>4. Api!Commit(r) => ApiP!Commit(r)
  BY DEF Api!Commit, ApiP!Commit, Api!Write, ApiP!Write, Api!Row, ApiP!Row,
         Api!Reply, ApiP!Reply, Api!Accepted, ApiP!Accepted, Api!Create,
         ApiP!Create, Api!Refused, ApiP!Refused, Api!Fault, ApiP!Fault
<1>5. Api!Rollback(r) => ApiP!Rollback(r)
  BY DEF Api!Rollback, ApiP!Rollback, Api!Goto, ApiP!Goto, Api!tables,
         ApiP!tables
<1>6. Api!Replay(r) => ApiP!Replay(r)
  BY DEF Api!Replay, ApiP!Replay, Api!RowsOf, ApiP!RowsOf, Api!Exists,
         ApiP!Exists, Api!Reconstitute, ApiP!Reconstitute,
         Api!HasMatchingCreateInput, ApiP!HasMatchingCreateInput, Api!Reply,
         ApiP!Reply, Api!Refused, ApiP!Refused, Api!Accepted, ApiP!Accepted,
         Api!tables, ApiP!tables
<1>7. Api!DatabaseFails(r) => ApiP!DatabaseFails(r)
  BY DEF Api!DatabaseFails, ApiP!DatabaseFails, Api!Flight, ApiP!Flight,
         Api!Fault, ApiP!Fault, Api!Reply, ApiP!Reply, Api!Refused,
         ApiP!Refused, Api!tables, ApiP!tables
<1>8. Api!Lose(r) => ApiP!Lose(r)
  BY DEF Api!Lose, ApiP!Lose, Api!Flight, ApiP!Flight, Api!Fault, ApiP!Fault,
         Api!Write, ApiP!Write, Api!Row, ApiP!Row, Api!Goto, ApiP!Goto,
         Api!tables, ApiP!tables
<1> QED
  BY <1>1, <1>2, <1>3, <1>4, <1>5, <1>6, <1>7, <1>8

\* Writing a row, and the passing of time.
LEMMA RelayRows ==
    ASSUME NEW e \in Requests
    PROVE  /\ Relay!Add(e) => RelayP!Add(e)
           /\ Relay!ClaimTimesOut(e) => RelayP!ClaimTimesOut(e)
           /\ Relay!BackoffElapses(e) => RelayP!BackoffElapses(e)
           /\ Relay!RetentionElapses(e) => RelayP!RetentionElapses(e)
<1>1. Relay!Add(e) => RelayP!Add(e)
  BY DEF Relay!Add, RelayP!Add, Relay!history, RelayP!history
<1>2. Relay!ClaimTimesOut(e) => RelayP!ClaimTimesOut(e)
  BY DEF Relay!ClaimTimesOut, RelayP!ClaimTimesOut, Relay!history,
         RelayP!history
<1>3. Relay!BackoffElapses(e) => RelayP!BackoffElapses(e)
  BY DEF Relay!BackoffElapses, RelayP!BackoffElapses, Relay!history,
         RelayP!history
<1>4. Relay!RetentionElapses(e) => RelayP!RetentionElapses(e)
  BY DEF Relay!RetentionElapses, RelayP!RetentionElapses, Relay!history,
         RelayP!history
<1> QED
  BY <1>1, <1>2, <1>3, <1>4

\* The steps of a publisher.
LEMMA RelayPublishers ==
    ASSUME NEW p \in Publishers
    PROVE  /\ Relay!ClaimSelect(p) => RelayP!ClaimSelect(p)
           /\ Relay!ClaimCommit(p) => RelayP!ClaimCommit(p)
           /\ Relay!Publish(p) => RelayP!Publish(p)
           /\ Relay!MarkProcessed(p) => RelayP!MarkProcessed(p)
           /\ Relay!RetryOrFail(p) => RelayP!RetryOrFail(p)
           /\ Relay!Purge(p) => RelayP!Purge(p)
           /\ Relay!Crash(p) => RelayP!Crash(p)
<1>1. Relay!ClaimSelect(p) => RelayP!ClaimSelect(p)
  BY DEF Relay!Cardinality, RelayP!Cardinality, Relay!ClaimSelect,
         RelayP!ClaimSelect, Relay!Selected, RelayP!Selected, Relay!First,
         RelayP!First, Relay!Claimable, RelayP!Claimable, Relay!row,
         RelayP!row, Relay!history, RelayP!history
<1>2. Relay!ClaimCommit(p) => RelayP!ClaimCommit(p)
  BY DEF Relay!ClaimCommit, RelayP!ClaimCommit, Relay!Unlock, RelayP!Unlock,
         Relay!MarkClaimed, RelayP!MarkClaimed, Relay!Batch, RelayP!Batch,
         Relay!Fault, RelayP!Fault, Relay!Drop, RelayP!Drop, Relay!Nobody,
         RelayP!Nobody, Relay!row, RelayP!row, Relay!history, RelayP!history
<1>3. Relay!Publish(p) => RelayP!Publish(p)
  BY DEF Relay!Publish, RelayP!Publish, Relay!Current, RelayP!Current,
         Relay!Batch, RelayP!Batch, Relay!row, RelayP!row
<1>4. Relay!MarkProcessed(p) => RelayP!MarkProcessed(p)
  BY DEF Relay!MarkProcessed, RelayP!MarkProcessed, Relay!Current,
         RelayP!Current, Relay!Batch, RelayP!Batch, Relay!SetProcessed,
         RelayP!SetProcessed, Relay!Exists, RelayP!Exists, Relay!Advance,
         RelayP!Advance, Relay!Fault, RelayP!Fault, Relay!row, RelayP!row,
         Relay!history, RelayP!history
<1>5. Relay!RetryOrFail(p) => RelayP!RetryOrFail(p)
  BY DEF Relay!RetryOrFail, RelayP!RetryOrFail, Relay!Current, RelayP!Current,
         Relay!Batch, RelayP!Batch, Relay!Release, RelayP!Release,
         Relay!Exists, RelayP!Exists, Relay!Advance, RelayP!Advance,
         Relay!Fault, RelayP!Fault, Relay!Drop, RelayP!Drop, Relay!Nobody,
         RelayP!Nobody, Relay!row, RelayP!row, Relay!history, RelayP!history
<1>6. Relay!Purge(p) => RelayP!Purge(p)
  <2>1. Relay!PurgeSelect(p) => RelayP!PurgeSelect(p)
    BY DEF Relay!Cardinality, RelayP!Cardinality, Relay!Min, RelayP!Min,
           Relay!PurgeSelect, RelayP!PurgeSelect, Relay!Purgeable,
           RelayP!Purgeable, Relay!row, RelayP!row, Relay!history,
           RelayP!history
  <2>2. Relay!PurgeDelete(p) => RelayP!PurgeDelete(p)
    BY DEF Relay!PurgeDelete, RelayP!PurgeDelete, Relay!history,
           RelayP!history
  <2> QED
    BY <2>1, <2>2 DEF Relay!Purge, RelayP!Purge
<1>7. Relay!Crash(p) => RelayP!Crash(p)
  BY DEF Relay!Crash, RelayP!Crash, Relay!Fault, RelayP!Fault, Relay!Drop,
         RelayP!Drop, Relay!Nobody, RelayP!Nobody, Relay!Unlock,
         RelayP!Unlock, Relay!row, RelayP!row
<1> QED
  BY <1>1, <1>2, <1>3, <1>4, <1>5, <1>6, <1>7

\* The steps of a handler.
LEMMA ConsumerRuns ==
    ASSUME NEW c \in Consumers
    PROVE  /\ Consumer!Receive(c) => ConsumerP!Receive(c)
           /\ Consumer!HasSeen(c) => ConsumerP!HasSeen(c)
           /\ Consumer!Load(c) => ConsumerP!Load(c)
           /\ Consumer!CacheGet(c) => ConsumerP!CacheGet(c)
           /\ Consumer!CachePut(c) => ConsumerP!CachePut(c)
           /\ Consumer!Complete(c) => ConsumerP!Complete(c)
           /\ Consumer!Webhook(c) => ConsumerP!Webhook(c)
           /\ Consumer!Remember(c) => ConsumerP!Remember(c)
           /\ Consumer!DatabaseFails(c) => ConsumerP!DatabaseFails(c)
           /\ Consumer!Route(c) => ConsumerP!Route(c)
           /\ Consumer!Ack(c) => ConsumerP!Ack(c)
           /\ Consumer!Reject(c) => ConsumerP!Reject(c)
           /\ Consumer!Crash(c) => ConsumerP!Crash(c)
           /\ Consumer!ChannelLost(c) => ConsumerP!ChannelLost(c)
<1>1. Consumer!Receive(c) => ConsumerP!Receive(c)
  BY DEF Consumer!Receive, ConsumerP!Receive, Consumer!Deliver,
         ConsumerP!Deliver, Consumer!Message, ConsumerP!Message,
         Consumer!Take, ConsumerP!Take, Consumer!tables, ConsumerP!tables,
         Consumer!webhooks, ConsumerP!webhooks, Consumer!environment,
         ConsumerP!environment
<1>2. Consumer!HasSeen(c) => ConsumerP!HasSeen(c)
  BY DEF Consumer!HasSeen, ConsumerP!HasSeen, Consumer!HasMessage,
         ConsumerP!HasMessage, Consumer!Continue, ConsumerP!Continue,
         Consumer!tables, ConsumerP!tables, Consumer!queues, ConsumerP!queues,
         Consumer!webhooks, ConsumerP!webhooks, Consumer!environment,
         ConsumerP!environment
<1>3. Consumer!Load(c) => ConsumerP!Load(c)
  BY DEF Consumer!Load, ConsumerP!Load, Consumer!Subject, ConsumerP!Subject,
         Consumer!Raise, ConsumerP!Raise, Consumer!Continue,
         ConsumerP!Continue, Consumer!Terminal, ConsumerP!Terminal,
         Consumer!tables, ConsumerP!tables, Consumer!queues, ConsumerP!queues,
         Consumer!webhooks, ConsumerP!webhooks, Consumer!environment,
         ConsumerP!environment
<1>4. Consumer!CacheGet(c) => ConsumerP!CacheGet(c)
  BY DEF Consumer!CacheGet, ConsumerP!CacheGet, Consumer!Subject,
         ConsumerP!Subject, Consumer!Continue, ConsumerP!Continue,
         Consumer!tables, ConsumerP!tables, Consumer!queues, ConsumerP!queues,
         Consumer!webhooks, ConsumerP!webhooks, Consumer!environment,
         ConsumerP!environment
<1>5. Consumer!CachePut(c) => ConsumerP!CachePut(c)
  BY DEF Consumer!CachePut, ConsumerP!CachePut, Consumer!Subject,
         ConsumerP!Subject, Consumer!Outcomes, ConsumerP!Outcomes,
         Consumer!Raise, ConsumerP!Raise, Consumer!Continue,
         ConsumerP!Continue, Consumer!queues, ConsumerP!queues,
         Consumer!webhooks, ConsumerP!webhooks, Consumer!environment,
         ConsumerP!environment
<1>6. Consumer!Complete(c) => ConsumerP!Complete(c)
  BY DEF Consumer!Complete, ConsumerP!Complete, Consumer!Subject,
         ConsumerP!Subject, Consumer!Save, ConsumerP!Save, Consumer!Raise,
         ConsumerP!Raise, Consumer!Continue, ConsumerP!Continue,
         Consumer!queues, ConsumerP!queues, Consumer!webhooks,
         ConsumerP!webhooks, Consumer!environment, ConsumerP!environment,
         Consumer!Lifecycle!StatusOf, ConsumerP!Lifecycle!StatusOf
<1>7. Consumer!Webhook(c) => ConsumerP!Webhook(c)
  BY DEF Consumer!Webhook, ConsumerP!Webhook, Consumer!Subject,
         ConsumerP!Subject, Consumer!WebhookErrors, ConsumerP!WebhookErrors,
         Consumer!Raise, ConsumerP!Raise, Consumer!Continue,
         ConsumerP!Continue, Consumer!tables, ConsumerP!tables,
         Consumer!queues, ConsumerP!queues, Consumer!environment,
         ConsumerP!environment
<1>8. Consumer!Remember(c) => ConsumerP!Remember(c)
  BY DEF Consumer!Remember, ConsumerP!Remember, Consumer!AddMessage,
         ConsumerP!AddMessage, Consumer!Raise, ConsumerP!Raise,
         Consumer!Continue, ConsumerP!Continue, Consumer!queues,
         ConsumerP!queues, Consumer!webhooks, ConsumerP!webhooks,
         Consumer!environment, ConsumerP!environment
<1>9. Consumer!DatabaseFails(c) => ConsumerP!DatabaseFails(c)
  BY DEF Consumer!DatabaseFails, ConsumerP!DatabaseFails, Consumer!Raise,
         ConsumerP!Raise, Consumer!Continue, ConsumerP!Continue,
         Consumer!tables, ConsumerP!tables, Consumer!queues, ConsumerP!queues,
         Consumer!webhooks, ConsumerP!webhooks, Consumer!environment,
         ConsumerP!environment
<1>10. Consumer!Route(c) => ConsumerP!Route(c)
  BY DEF Consumer!Route, ConsumerP!Route, Consumer!Forward, ConsumerP!Forward,
         Consumer!DecideAction, Consumer!IsRetryable, ConsumerP!IsRetryable,
         ConsumerP!DecideAction, Consumer!Put, ConsumerP!Put,
         Consumer!Continue, ConsumerP!Continue, Consumer!tables,
         ConsumerP!tables, Consumer!webhooks, ConsumerP!webhooks
<1>11. Consumer!Ack(c) => ConsumerP!Ack(c)
  BY DEF Consumer!Ack, ConsumerP!Ack, Consumer!Finish, ConsumerP!Finish,
         Consumer!tables, ConsumerP!tables, Consumer!queues, ConsumerP!queues,
         Consumer!webhooks, ConsumerP!webhooks, Consumer!environment,
         ConsumerP!environment
<1>12. Consumer!Reject(c) => ConsumerP!Reject(c)
  BY DEF Consumer!Reject, ConsumerP!Reject, Consumer!Finish, ConsumerP!Finish,
         Consumer!Put, ConsumerP!Put, Consumer!tables, ConsumerP!tables,
         Consumer!webhooks, ConsumerP!webhooks, Consumer!environment,
         ConsumerP!environment
<1>13. Consumer!Crash(c) => ConsumerP!Crash(c)
  BY DEF Consumer!Crash, ConsumerP!Crash, Consumer!Requeue, ConsumerP!Requeue,
         Consumer!Put, ConsumerP!Put, Consumer!Finish, ConsumerP!Finish,
         Consumer!tables, ConsumerP!tables, Consumer!webhooks,
         ConsumerP!webhooks
<1>14. Consumer!ChannelLost(c) => ConsumerP!ChannelLost(c)
  BY DEF Consumer!ChannelLost, ConsumerP!ChannelLost, Consumer!Requeue,
         ConsumerP!Requeue, Consumer!Put, ConsumerP!Put, Consumer!tables,
         ConsumerP!tables, Consumer!webhooks, ConsumerP!webhooks
<1> QED
  BY <1>1, <1>2, <1>3, <1>4, <1>5, <1>6, <1>7, <1>8, <1>9, <1>10, <1>11,
     <1>12, <1>13, <1>14

\* The rest: the queues, the initial states and what is said of an event.
LEMMA SameRest ==
    /\ Api!Init => ApiP!Init
    /\ Relay!Init => RelayP!Init
    /\ Consumer!Init => ConsumerP!Init
    /\ \A e \in Requests : Consumer!Publish(e) => ConsumerP!Publish(e)
    /\ \A m \in Consumer!Message :
         m \in ConsumerP!Message /\ (Consumer!Expire(m) => ConsumerP!Expire(m))
    /\ \A e \in Requests : ConsumerP!Survives(e) => Consumer!Survives(e)
    /\ \A p \in Publishers : Relay!Current(p) = RelayP!Current(p)
<1>1. Api!Init => ApiP!Init
  BY DEF Api!Init, ApiP!Init
<1>2. Relay!Init => RelayP!Init
  BY DEF Relay!Init, RelayP!Init, Relay!Upgraded, RelayP!Upgraded
<1>3. Consumer!Init => ConsumerP!Init
  BY DEF Consumer!Init, ConsumerP!Init, Consumer!Message, ConsumerP!Message
<1>4. \A e \in Requests : Consumer!Publish(e) => ConsumerP!Publish(e)
  BY DEF Consumer!Publish, ConsumerP!Publish, Consumer!Put, ConsumerP!Put,
         Consumer!tables, ConsumerP!tables, Consumer!handler,
         ConsumerP!handler, Consumer!webhooks, ConsumerP!webhooks
<1>5. \A m \in Consumer!Message :
        m \in ConsumerP!Message /\ (Consumer!Expire(m) => ConsumerP!Expire(m))
  BY DEF Consumer!Message, ConsumerP!Message, Consumer!Expire,
         ConsumerP!Expire, Consumer!Put, ConsumerP!Put, Consumer!Take,
         ConsumerP!Take, Consumer!tables, ConsumerP!tables, Consumer!handler,
         ConsumerP!handler, Consumer!webhooks, ConsumerP!webhooks,
         Consumer!environment, ConsumerP!environment
<1>6. \A e \in Requests : ConsumerP!Survives(e) => Consumer!Survives(e)
  BY DEF Consumer!Survives, ConsumerP!Survives, Consumer!Message,
         ConsumerP!Message
<1>7. \A p \in Publishers : Relay!Current(p) = RelayP!Current(p)
  BY DEF Relay!Current, RelayP!Current, Relay!Batch, RelayP!Batch
<1> QED
  BY <1>1, <1>2, <1>3, <1>4, <1>5, <1>6, <1>7

-------------------------------------------------------------------------------
(***************************************************************************)
(* A step of the service, as each component sees it.                       *)
(***************************************************************************)

\* A component none of whose variables change.
LEMMA Untouched ==
    /\ UNCHANGED relay => UNCHANGED RelayP!vars
    /\ UNCHANGED <<payments, consumer>> => UNCHANGED ConsumerP!vars
    /\ UNCHANGED <<payments, api, status>> => UNCHANGED ApiP!vars
  BY DEF relay, RelayP!vars, RelayP!row, RelayP!history, consumer,
         ConsumerP!vars, ConsumerP!tables, ConsumerP!queues,
         ConsumerP!handler, ConsumerP!webhooks, ConsumerP!environment, api,
         ApiP!vars, ApiP!tables, ApiP!handling

\* What a handler, the broker or a fault does to the consumer.
LEMMA ConsumerSteps ==
    ASSUME \/ RetryExpires
           \/ \E c \in Consumers :
                ConsumerStep(c) \/ ConsumerReceives(c) \/ ConsumerDies(c)
    PROVE  /\ \/ \E m \in ConsumerP!Message : ConsumerP!Expire(m)
              \/ \E c \in Consumers :
                   \/ ConsumerP!Receive(c) \/ ConsumerP!Handle(c)
                   \/ ConsumerP!Crash(c) \/ ConsumerP!ChannelLost(c)
           /\ UNCHANGED <<api, relay>>
<1>1. CASE RetryExpires
  BY <1>1, SameRest DEF RetryExpires
<1>2. ASSUME NEW c \in Consumers, ConsumerStep(c)
      PROVE  ConsumerP!Handle(c) /\ UNCHANGED <<api, relay>>
  BY <1>2, ConsumerRuns DEF ConsumerStep, Consumer!Handle, ConsumerP!Handle
<1>3. ASSUME NEW c \in Consumers, ConsumerReceives(c) \/ ConsumerDies(c)
      PROVE  /\ \/ ConsumerP!Receive(c) \/ ConsumerP!Crash(c)
                \/ ConsumerP!ChannelLost(c)
             /\ UNCHANGED <<api, relay>>
  BY <1>3, ConsumerRuns DEF ConsumerReceives, ConsumerDies
<1> QED
  BY <1>1, <1>2, <1>3

\* What a publisher or a timeout does to the relay, a publish left aside.
LEMMA RelaySteps ==
    ASSUME \/ \E e \in Requests : TimePasses(e)
           \/ \E p \in Publishers : RelayAlone(p) \/ RelayDies(p)
    PROVE  /\ \/ \E e \in Requests :
                   \/ RelayP!ClaimTimesOut(e) \/ RelayP!BackoffElapses(e)
                   \/ RelayP!RetentionElapses(e)
              \/ \E p \in Publishers :
                   \/ RelayP!ClaimSelect(p) \/ RelayP!ClaimCommit(p)
                   \/ RelayP!MarkProcessed(p) \/ RelayP!RetryOrFail(p)
                   \/ RelayP!Purge(p) \/ RelayP!Crash(p)
           /\ UNCHANGED <<payments, api, consumer>>
<1>1. ASSUME NEW e \in Requests, TimePasses(e)
      PROVE  /\ \/ RelayP!ClaimTimesOut(e) \/ RelayP!BackoffElapses(e)
                \/ RelayP!RetentionElapses(e)
             /\ UNCHANGED <<payments, api, consumer>>
  BY <1>1, RelayRows DEF TimePasses
<1>2. ASSUME NEW p \in Publishers, RelayAlone(p) \/ RelayDies(p)
      PROVE  /\ \/ RelayP!ClaimSelect(p) \/ RelayP!ClaimCommit(p)
                \/ RelayP!MarkProcessed(p) \/ RelayP!RetryOrFail(p)
                \/ RelayP!Purge(p) \/ RelayP!Crash(p)
             /\ UNCHANGED <<payments, api, consumer>>
  BY <1>2, RelayPublishers DEF RelayAlone, RelayDies
<1> QED
  BY <1>1, <1>2

-------------------------------------------------------------------------------
(***************************************************************************)
(* Every step keeps ServiceInv and is one of PaymentLifecycle.             *)
(***************************************************************************)

\* A step of the table payments and of nothing else PaymentLifecycle sees.
LEMMA CreateOrStutter ==
    ASSUME UNCHANGED <<gateway_charges, notified>>,
           \/ payments' = payments
           \/ \E r \in Requests :
                /\ payments[r] = "absent"
                /\ payments' = [payments EXCEPT ![r] = "pending"]
    PROVE  [Lifecycle!Next]_(Lifecycle!vars)
  BY DEF Lifecycle!Next, Lifecycle!Create, Lifecycle!vars

\* A request: the relay is given a row, and the consumer a pending payment.
LEMMA ApiStepInv ==
    ASSUME ServiceInv, NEW r \in Requests, ApiStep(r)
    PROVE  ServiceInv' /\ [Lifecycle!Next]_(Lifecycle!vars)
<1>1. /\ \/ ApiP!Refuse(r) \/ ApiP!Accept(r) \/ ApiP!Handle(r) \/ ApiP!Lose(r)
      /\ UNCHANGED consumer
      /\ RelayP!Add(r) \/ UNCHANGED relay
  BY ApiRequests, RelayRows DEF ApiStep, Api!Handle, ApiP!Handle
<1>2. ApiP!ApiInv'
  BY <1>1, ApiAssumptions, ApiP!NextApiInv DEF ServiceInv, ApiP!Next
<1>3. RelayP!RelayInv'
  BY <1>1, Untouched, RelayAssumptions, RelayP!NextRelayInv
  DEF ServiceInv, RelayP!Next
<1>4. sent' = sent /\ published' = published
      /\ UNCHANGED <<gateway_charges, notified>>
  BY <1>1 DEF RelayP!Add, RelayP!history, relay, consumer
<1>5. \/ payments' = payments
      \/ payments[r] = "absent" /\ payments' = [payments EXCEPT ![r] = "pending"]
  <2>1. ASSUME api_pc[r] = "commit" PROVE payments[r] = "absent"
    BY <2>1, ApiAssumptions, ApiP!NoRowYet
    DEF ServiceInv, ApiP!Exists, ApiP!Flight
  <2>2. \/ payments' = payments
        \/ api_pc[r] = "commit" /\ payments' = [payments EXCEPT ![r] = "pending"]
    BY <1>1 DEF ApiP!Refuse, ApiP!Accept, ApiP!Handle, ApiP!Lose, ApiP!Insert,
                ApiP!Commit, ApiP!Rollback, ApiP!Replay, ApiP!DatabaseFails,
                ApiP!Write, ApiP!tables
  <2> QED
    BY <2>1, <2>2
<1>6. ConsumerP!IInv' /\ ConsumerP!NoEventLost'
  <2>1. CASE payments' = payments
    BY <1>1, <2>1, Untouched, ConsumerAssumptions, ConsumerP!NextIInv,
       ConsumerP!NextNoEventLost DEF ServiceInv
  <2>2. CASE /\ payments[r] = "absent"
             /\ payments' = [payments EXCEPT ![r] = "pending"]
    <3>1. UNCHANGED <<gateway_charges, inbox, ConsumerP!queues,
                      ConsumerP!handler, ConsumerP!webhooks,
                      ConsumerP!environment>>
      BY <1>1 DEF consumer, ConsumerP!queues, ConsumerP!handler,
                  ConsumerP!webhooks, ConsumerP!environment
    <3> QED
      BY <2>2, <3>1, ConsumerAssumptions, ConsumerP!CreatedIInv DEF ServiceInv
  <2> QED
    BY <1>5, <2>1, <2>2
<1>7. SentIsPublished'
  BY <1>4 DEF ServiceInv, SentIsPublished
<1>8. [Lifecycle!Next]_(Lifecycle!vars)
  BY <1>4, <1>5, CreateOrStutter
<1> QED
  BY <1>2, <1>3, <1>6, <1>7, <1>8 DEF ServiceInv

\* No step of the relay changes which rows were written: the API does not see
\* one of them.
LEMMA RelayUnseen ==
    ASSUME UNCHANGED <<payments, api>>,
           \A e \in Requests : status'[e] = "none" <=> status[e] = "none"
    PROVE  UNCHANGED ApiP!vars
<1>1. {e \in Requests : status'[e] # "none"} = {e \in Requests : status[e] # "none"}
  OBVIOUS
<1> QED
  BY <1>1 DEF api, ApiP!vars, ApiP!tables, ApiP!handling

\* The relay claims, settles, gives up or purges, or time passes for it.
LEMMA RelayStepInv ==
    ASSUME ServiceInv,
           \/ \E e \in Requests : TimePasses(e)
           \/ \E p \in Publishers : RelayAlone(p) \/ RelayDies(p)
    PROVE  ServiceInv' /\ [Lifecycle!Next]_(Lifecycle!vars)
<1>1. /\ \/ \E e \in Requests :
              \/ RelayP!ClaimTimesOut(e) \/ RelayP!BackoffElapses(e)
              \/ RelayP!RetentionElapses(e)
         \/ \E p \in Publishers :
              \/ RelayP!ClaimSelect(p) \/ RelayP!ClaimCommit(p)
              \/ RelayP!MarkProcessed(p) \/ RelayP!RetryOrFail(p)
              \/ RelayP!Purge(p) \/ RelayP!Crash(p)
      /\ UNCHANGED <<payments, api, consumer>>
  BY RelaySteps
<1>2. \/ \E e \in Requests :
           \/ RelayP!ClaimTimesOut(e) \/ RelayP!BackoffElapses(e)
           \/ RelayP!RetentionElapses(e)
      \/ \E p \in Publishers : RelayP!Relay(p) \/ RelayP!Crash(p)
  BY <1>1 DEF RelayP!Relay
<1>3. RelayP!RelayInv'
  BY <1>2, RelayAssumptions, RelayP!NextRelayInv DEF ServiceInv, RelayP!Next
<1>4. \A e \in Requests : status'[e] = "none" <=> status[e] = "none"
  BY <1>2, RelayAssumptions, RelayP!WrittenStays DEF ServiceInv
<1>5. ApiP!ApiInv'
  BY <1>1, <1>4, RelayUnseen, ApiAssumptions, ApiP!NextApiInv DEF ServiceInv
<1>6. ConsumerP!IInv' /\ ConsumerP!NoEventLost'
  BY <1>1, Untouched, ConsumerAssumptions, ConsumerP!NextIInv,
     ConsumerP!NextNoEventLost DEF ServiceInv
<1>7. sent' = sent
  BY <1>1, RelayAssumptions, RelayP!SentByPublish
<1>8. SentIsPublished'
  BY <1>1, <1>7 DEF ServiceInv, SentIsPublished, consumer
<1>9. [Lifecycle!Next]_(Lifecycle!vars)
  BY <1>1, CreateOrStutter DEF consumer
<1> QED
  BY <1>3, <1>5, <1>6, <1>8, <1>9 DEF ServiceInv

\* A publish: the broker has a copy more of what the relay takes for sent.
LEMMA RelayPublishInv ==
    ASSUME ServiceInv, NEW p \in Publishers, RelayPublish(p)
    PROVE  ServiceInv' /\ [Lifecycle!Next]_(Lifecycle!vars)
<1> DEFINE e == Relay!Current(p)
<1>1. RelayP!Publish(p) /\ UNCHANGED api
  BY RelayPublishers DEF RelayPublish
<1>2. RelayP!RelayInv'
  BY <1>1, RelayAssumptions, RelayP!NextRelayInv
  DEF ServiceInv, RelayP!Next, RelayP!Relay
<1>3. e \in Requests /\ e = RelayP!Current(p)
  <2>1. RelayP!Batch(p) # {}
    BY <1>1 DEF ServiceInv, RelayP!RelayInv, RelayP!BatchInv, RelayP!Working,
                RelayP!Publish
  <2> QED
    BY <2>1, SameRest, RelayAssumptions, RelayP!CurrentInBatch
<1>4. \/ ConsumerP!Publish(e)
      \/ sent' = sent /\ UNCHANGED <<payments, consumer>>
  BY <1>3, SameRest DEF RelayPublish
<1>5. UNCHANGED <<payments, gateway_charges, notified, status>>
  BY <1>1, <1>4 DEF ConsumerP!Publish, ConsumerP!tables, ConsumerP!webhooks,
                    consumer, RelayP!Publish, RelayP!row
<1>6. ApiP!ApiInv'
  BY <1>1, <1>5, Untouched, ApiAssumptions, ApiP!NextApiInv DEF ServiceInv
<1>7. ConsumerP!IInv' /\ ConsumerP!NoEventLost'
  BY <1>3, <1>4, Untouched, ConsumerAssumptions, ConsumerP!NextIInv,
     ConsumerP!NextNoEventLost DEF ServiceInv, ConsumerP!Next
<1>8. SentIsPublished'
  <2>1. sent \subseteq Requests /\ published \in [Requests -> Nat]
    BY DEF ServiceInv, RelayP!RelayInv, RelayP!TypeOK, ConsumerP!IInv,
           ConsumerP!TypeOK
  <2>2. CASE ConsumerP!Publish(e)
    <3>1. published' = [published EXCEPT ![e] = published[e] + 1]
      BY <2>2 DEF ConsumerP!Publish
    <3>2. sent' \subseteq sent \cup {e}
      BY <1>1, <1>3 DEF RelayP!Publish
    <3> QED
      BY <1>3, <2>1, <3>1, <3>2 DEF ServiceInv, SentIsPublished
  <2>3. CASE sent' = sent /\ UNCHANGED <<payments, consumer>>
    BY <2>3 DEF ServiceInv, SentIsPublished, consumer
  <2> QED
    BY <1>4, <2>2, <2>3
<1>9. [Lifecycle!Next]_(Lifecycle!vars)
  BY <1>5, CreateOrStutter
<1> QED
  BY <1>2, <1>6, <1>7, <1>8, <1>9 DEF ServiceInv

\* A handler, the broker or a fault: what the API sees of it is a payment that
\* is settled, and it is a step of PaymentLifecycle.
LEMMA ConsumerStepInv ==
    ASSUME ServiceInv,
           \/ RetryExpires
           \/ \E c \in Consumers :
                ConsumerStep(c) \/ ConsumerReceives(c) \/ ConsumerDies(c)
    PROVE  ServiceInv' /\ [Lifecycle!Next]_(Lifecycle!vars)
<1>1. /\ \/ \E m \in ConsumerP!Message : ConsumerP!Expire(m)
         \/ \E c \in Consumers :
              \/ ConsumerP!Receive(c) \/ ConsumerP!Handle(c)
              \/ ConsumerP!Crash(c) \/ ConsumerP!ChannelLost(c)
      /\ UNCHANGED <<api, relay>>
  BY ConsumerSteps
<1>2. ConsumerP!Next
  BY <1>1 DEF ConsumerP!Next
<1>3. ConsumerP!IInv' /\ ConsumerP!NoEventLost'
  BY <1>2, ConsumerAssumptions, ConsumerP!NextIInv, ConsumerP!NextNoEventLost
  DEF ServiceInv
<1>4. RelayP!RelayInv'
  BY <1>1, Untouched, RelayAssumptions, RelayP!NextRelayInv DEF ServiceInv
<1>5. SentIsPublished'
  <2>1. published' = published
    BY <1>1, ConsumerAssumptions, ConsumerP!PublishedStays
  <2> QED
    BY <1>1, <2>1 DEF ServiceInv, SentIsPublished, relay
<1>6. ApiP!ApiInv'
  <2>1. \/ payments' = payments
        \/ \E p \in Requests :
             /\ payments[p] = "pending"
             /\ \E s \in ConsumerP!Terminal :
                  payments' = [payments EXCEPT ![p] = s]
    BY <1>2, ConsumerAssumptions, ConsumerP!PaymentsSettle DEF ServiceInv
  <2>2. UNCHANGED <<columns, api_pc, request, answer, api_faults, status>>
    BY <1>1 DEF api, relay
  <2>3. [ApiP!Next]_(ApiP!vars)
    <3>1. CASE payments' = payments
      BY <1>1, <2>2, <3>1, Untouched
    <3>2. ASSUME NEW p \in Requests, payments[p] = "pending",
                 NEW s \in ConsumerP!Terminal,
                 payments' = [payments EXCEPT ![p] = s]
          PROVE  ApiP!Settle(p)
      BY <2>2, <3>2 DEF ApiP!Settle, ApiP!Terminal, ConsumerP!Terminal,
                        ApiP!handling
    <3> QED
      BY <2>1, <3>1, <3>2 DEF ApiP!Next
  <2> QED
    BY <2>3, ApiAssumptions, ApiP!NextApiInv DEF ServiceInv
<1>7. [Lifecycle!Next]_(Lifecycle!vars)
  <2>1. [ConsumerP!Lifecycle!Next]_(ConsumerP!Lifecycle!vars)
    BY <1>2, ConsumerAssumptions, ConsumerP!NextRefines DEF ServiceInv
  <2> QED
    BY <2>1
    DEF ConsumerP!Lifecycle!Next, Lifecycle!Next, ConsumerP!Lifecycle!vars,
        Lifecycle!vars, ConsumerP!Lifecycle!Create, Lifecycle!Create,
        ConsumerP!Lifecycle!Decide, Lifecycle!Decide,
        ConsumerP!Lifecycle!Settle, Lifecycle!Settle,
        ConsumerP!Lifecycle!Notify, Lifecycle!Notify,
        ConsumerP!Lifecycle!Outcomes, Lifecycle!Outcomes,
        ConsumerP!Lifecycle!Terminal, Lifecycle!Terminal,
        ConsumerP!Lifecycle!StatusOf, Lifecycle!StatusOf
<1> QED
  BY <1>3, <1>4, <1>5, <1>6, <1>7 DEF ServiceInv

\* An empty database, nothing sent and no message: ServiceInv holds.
LEMMA InitServiceInv == Init => ServiceInv /\ Lifecycle!Init
<1> SUFFICES ASSUME Init PROVE ServiceInv /\ Lifecycle!Init
  OBVIOUS
<1>1. ApiP!Init /\ RelayP!Init /\ ConsumerP!Init
  BY SameRest DEF Init
<1>2. ApiP!ApiInv /\ RelayP!RelayInv
  BY <1>1, ApiAssumptions, ApiP!InitApiInv, RelayAssumptions,
     RelayP!InitRelayInv
<1>3. ConsumerP!IInv
  BY <1>1, ConsumerAssumptions, ConsumerP!InitIInv
<1>4. ConsumerP!NoEventLost
  BY <1>1 DEF ConsumerP!Init, ConsumerP!NoEventLost
<1>5. SentIsPublished
  <2>1. \A e \in Requests : status[e] = "none"
    BY <1>1 DEF ApiP!Init
  <2>2. \A e \in Requests : published_at[e] = None
    BY <1>1, <2>1 DEF RelayP!Init, RelayP!Upgraded
  <2> QED
    BY <1>1, <2>2 DEF RelayP!Init, SentIsPublished
<1>6. Lifecycle!Init
  BY <1>1 DEF ApiP!Init, ConsumerP!Init, Lifecycle!Init
<1> QED
  BY <1>2, <1>3, <1>4, <1>5, <1>6 DEF ServiceInv

\* Every step of the service.
LEMMA NextServiceInv ==
    ServiceInv /\ [Next]_vars => ServiceInv' /\ [Lifecycle!Next]_(Lifecycle!vars)
<1> SUFFICES ASSUME ServiceInv, [Next]_vars
             PROVE  ServiceInv' /\ [Lifecycle!Next]_(Lifecycle!vars)
  OBVIOUS
<1>1. CASE Next
  BY <1>1, ApiStepInv, RelayStepInv, RelayPublishInv, ConsumerStepInv
  DEF Next, RelayStep
<1>2. CASE UNCHANGED vars
  <2>1. /\ UNCHANGED ApiP!vars /\ UNCHANGED RelayP!vars
        /\ UNCHANGED ConsumerP!vars
        /\ UNCHANGED <<sent, published, payments, gateway_charges, notified>>
    BY <1>2, Untouched DEF vars, relay, consumer
  <2>2. ApiP!ApiInv' /\ RelayP!RelayInv'
    BY <2>1, ApiAssumptions, ApiP!NextApiInv, RelayAssumptions,
       RelayP!NextRelayInv DEF ServiceInv
  <2>3. ConsumerP!IInv' /\ ConsumerP!NoEventLost'
    BY <2>1, ConsumerAssumptions, ConsumerP!NextIInv,
       ConsumerP!NextNoEventLost DEF ServiceInv
  <2>4. SentIsPublished' /\ [Lifecycle!Next]_(Lifecycle!vars)
    BY <2>1, CreateOrStutter DEF ServiceInv, SentIsPublished
  <2> QED
    BY <2>2, <2>3, <2>4 DEF ServiceInv
<1> QED
  BY <1>1, <1>2

\* ServiceInv holds throughout.
LEMMA ServiceInvariant == Spec => []ServiceInv
  BY InitServiceInv, NextServiceInv, PTL DEF Spec

-------------------------------------------------------------------------------
(***************************************************************************)
(* What follows.                                                           *)
(***************************************************************************)

(***************************************************************************)
(* No payment is ever dropped between two components: through the commit,  *)
(* a publish whose confirm is lost, a purge, a crash or a lost channel it  *)
(* has an outbox row the relay is not done with, or the consumer has its   *)
(* event (create_payment.py:52-59, publish_outbox.py:101-112,              *)
(* dispatcher.py:36-62).                                                   *)
(***************************************************************************)
THEOREM Carried == Spec => []AcceptedIsCarried
<1>1. ASSUME ServiceInv, NEW p \in Requests, payments[p] # "absent",
             status[p] \notin {"NEW", "PROCESSING", "FAILED"}
      PROVE  Consumer!Survives(p)
  <2>1. status[p] # "none"
    BY <1>1 DEF ServiceInv, ApiP!ApiInv, ApiP!EventPerPayment, ApiP!Exists
  <2>2. status[p] \in {"PROCESSED", "purged"}
    BY <1>1, <2>1 DEF ServiceInv, RelayP!RelayInv, RelayP!TypeOK,
                      RelayP!OutboxStatus
  <2>3. p \in sent
    BY <1>1, <2>2 DEF ServiceInv, RelayP!RelayInv, RelayP!SettledWasSent
  <2>4. ConsumerP!Survives(p)
    BY <1>1, <2>3 DEF ServiceInv, SentIsPublished, ConsumerP!NoEventLost
  <2> QED
    BY <2>4, SameRest
<1>2. ServiceInv => AcceptedIsCarried
  BY <1>1 DEF AcceptedIsCarried
<1> QED
  BY <1>2, ServiceInvariant, PTL

\* Whatever anybody is told of a key is of a row with this key, and an outcome
\* he is told is that of the row.
LEMMA ToldOfRow ==
    ASSUME ServiceInv, NEW key \in Keys, NEW told \in ToldOf(key)
    PROVE  /\ told = <<told[1], told[2]>> /\ told[1] \in Requests
           /\ ApiP!Exists(told[1]) /\ columns[told[1]].key = key
           /\ told[2] \in {"pending", payments[told[1]]}
<1>1. ASSUME NEW p \in Requests, columns[p] # None, columns[p].key = key,
             NEW s \in notified[p], told = <<p, s>>
      PROVE  /\ ApiP!Exists(p) /\ s = payments[p]
  <2>1. ApiP!Exists(p)
    BY <1>1 DEF ServiceInv, ApiP!ApiInv, ApiP!RowsInv
  <2>2. s = payments[p]
    BY <1>1 DEF ServiceInv, ConsumerP!IInv, ConsumerP!ToldTheTruth,
                ConsumerP!Lifecycle!ToldTheTruth
  <2> QED
    BY <2>1, <2>2
<1>2. ASSUME NEW r \in Requests, request[r].key = key, answer[r] # None,
             answer[r].payment # None,
             told = <<answer[r].payment, answer[r].status>>
      PROVE  /\ answer[r].payment \in Requests
             /\ ApiP!Exists(answer[r].payment)
             /\ columns[answer[r].payment].key = key
             /\ answer[r].status \in {"pending", payments[answer[r].payment]}
  <2>1. answer[r] \in ApiP!Answers
    BY <1>2 DEF ServiceInv, ApiP!ApiInv, ApiP!TypeOK
  <2>2. answer[r].code = "202" /\ answer[r].payment \in Requests
    BY <1>2, <2>1 DEF ApiP!Answers, ApiP!Refused
  <2>3. ApiP!Agrees(r)
    BY ApiAssumptions, ApiP!AgreesIff DEF ServiceInv, ApiP!ApiInv
  <2> QED
    BY <1>2, <2>2, <2>3 DEF ApiP!Agrees
<1>3. \/ \E p \in Requests : /\ columns[p] # None /\ columns[p].key = key
                             /\ \E s \in notified[p] : told = <<p, s>>
      \/ \E r \in Requests : /\ request[r].key = key /\ answer[r] # None
                             /\ answer[r].payment # None
                             /\ told = <<answer[r].payment, answer[r].status>>
  <2> DEFINE P == {q \in Requests : columns[q] # None /\ columns[q].key = key}
             R == {q \in Requests : /\ request[q] # None
                                    /\ request[q].key = key
                                    /\ answer[q] # None
                                    /\ answer[q].payment # None}
  <2>1. \/ told \in UNION {{<<p, s>> : s \in notified[p]} : p \in P}
        \/ told \in {<<answer[r].payment, answer[r].status>> : r \in R}
    BY Zenon DEF ToldOf
  <2>2. CASE told \in UNION {{<<p, s>> : s \in notified[p]} : p \in P}
    <3>1. PICK p \in P : told \in {<<p, s>> : s \in notified[p]}
      BY <2>2, Zenon
    <3> QED
      BY <3>1
  <2>3. CASE told \in {<<answer[r].payment, answer[r].status>> : r \in R}
    BY <2>3
  <2> QED
    BY <2>1, <2>2, <2>3
<1>4. CASE \E p \in Requests : /\ columns[p] # None /\ columns[p].key = key
                              /\ \E s \in notified[p] : told = <<p, s>>
  BY <1>1, <1>4
<1>5. CASE \E r \in Requests :
             /\ request[r].key = key /\ answer[r] # None
             /\ answer[r].payment # None
             /\ told = <<answer[r].payment, answer[r].status>>
  BY <1>2, <1>5
<1> QED
  BY <1>3, <1>4, <1>5

(***************************************************************************)
(* Clients and merchants together are told of one payment and one outcome  *)
(* per Idempotency-Key, however requests are repeated, events published    *)
(* twice and handlers run again (create_payment.py:60-77,                  *)
(* charge.py:44-57).                                                       *)
(***************************************************************************)
THEOREM OneOutcome == Spec => []OneOutcomePerKey
<1>1. ASSUME ServiceInv, NEW key \in Keys, NEW told1 \in ToldOf(key),
             NEW told2 \in ToldOf(key)
      PROVE  /\ told1[1] = told2[1]
             /\ {told1[2], told2[2]} \subseteq Api!Terminal => told1 = told2
  <2>1. /\ told1 = <<told1[1], told1[2]>> /\ told1[1] \in Requests
        /\ ApiP!Exists(told1[1]) /\ columns[told1[1]].key = key
        /\ told1[2] \in {"pending", payments[told1[1]]}
    BY <1>1, ToldOfRow
  <2>2. /\ told2 = <<told2[1], told2[2]>> /\ told2[1] \in Requests
        /\ ApiP!Exists(told2[1]) /\ columns[told2[1]].key = key
        /\ told2[2] \in {"pending", payments[told2[1]]}
    BY <1>1, ToldOfRow
  <2>3. told1[1] = told2[1]
    BY <1>1, <2>1, <2>2 DEF ServiceInv, ApiP!ApiInv, ApiP!OnePaymentPerKey
  <2>4. {told1[2], told2[2]} \subseteq Api!Terminal => told1[2] = told2[2]
    BY <2>1, <2>2, <2>3 DEF Api!Terminal
  <2> QED
    BY <2>1, <2>2, <2>3, <2>4
<1>2. ServiceInv => OneOutcomePerKey
  BY <1>1 DEF OneOutcomePerKey
<1> QED
  BY <1>2, ServiceInvariant, PTL

(***************************************************************************)
(* The service implements PaymentLifecycle: with its API, relay and        *)
(* consumers a payment is created once, decided once, settled once and as  *)
(* decided, and its merchant told nothing else (payment.py:145-159).       *)
(***************************************************************************)
THEOREM Refinement == Spec => ImplementsLifecycle
<1> QED
  BY InitServiceInv, NextServiceInv, ServiceInvariant, PTL
  DEF Spec, ImplementsLifecycle, Lifecycle!Spec
===============================================================================

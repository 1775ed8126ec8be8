# Verification of the payment service

TLA+ models of the payment service, the TLC runs that check them on small
instances, and theorems about them with proofs TLAPS checks. Paths are relative
to the directory `src/` of the service unless they start with `tests/` or
`alembic/` or name the README of the repository.

## The system

The API writes a payment and an outbox row in one transaction. The publisher
process relays outbox rows to RabbitMQ. The consumer charges the payment
through a gateway emulator, settles it, and posts a webhook to the merchant.

| component | state it keeps | operations |
|---|---|---|
| create / get payment (`create_payment.py`, `get_payment.py`) | tables `payments`, `outbox` | create with an idempotency key, replay, get |
| HTTP boundary (`presentation/http`) | none | check the request, map the exception to a response |
| outbox relay (`publish_outbox.py`, `outbox_queue.py`) | table `outbox`: status, retry_count, claimed_at, available_at, published_at | claim a batch, publish, mark processed, release, purge |
| relay loop (`outbox_relay.py`, `worker.py`, `backoff.py`, `publisher.py`) | stop event, task, failures in a row | start, poll, back off, stop |
| queues (`topology.py`) | `payments.new`, `payments.new.retry`, `payments.new.dlq` | publish, deliver, expire, dead-letter, requeue |
| consumer (`process_payment.py`, `charge.py`, `inbox.py`, `dispatcher.py`, `failures.py`) | tables `payments`, `inbox` | has seen, load, charge, complete, webhook, remember; ack, retry, DLQ, reject |
| gateway emulator (`random_emulator.py`, `sql_cache.py`) | table `gateway_charges` | get, put if absent |
| webhook sender (`httpx_sender.py`, `errors.py`) | none | post, map the error |
| retry policy (`retry/policy.py`) | none | retry or DLQ |
| resources (`resources.py`, `runtime.py`, the entrypoints' lifespans) | what is open | start, close |
| migrations (`alembic/`) | the schema, and the status of rows older than it | upgrade |
| value objects, observability, configuration | none that a step depends on | |

The processes share nothing but PostgreSQL and RabbitMQ. The outbox connects
the API to the relay, `payments.new` the relay to the consumer; the consumer
talks to itself through the retry queue.

What makes the system hard is that everything is at least once. The relay
publishes a row again when it cannot know whether it did; the broker delivers a
message again when it was not settled; the consumer posts a webhook again when
it cannot know whether the inbox row was written. Handlers overlap (a copy
delivered while the first is still worked on, several consumers, a rolling
restart), and each is a sequence of awaits: one transaction, one publish, one
POST. What a handler read before an await is used after it. `PROJECT.json`
lists the hazards at their lines.

What each part has to get right:

- consumer: one outcome per payment whatever overlaps; the merchant is only
  told what the row says; an event is not lost; retries are bounded and end in
  the DLQ.
- relay: a row is settled only if it was sent, given up only if it was tried,
  never out of reach of the next claim; two publishers do not work on one row;
  every row is settled and purged in the end.
- relay loop: it polls as long as the process serves, it stops when asked, and
  the engine and the broker outlive it.
- create payment: one payment and one event per idempotency key; who is told
  202 finds that payment; a conflict is one; nobody waits for ever on the index.
- resources: what was opened is closed or reported whichever step fails.
- all together: an accepted payment is carried by a row, a message or a delivery
  at every moment, and is processed or put before an operator in the end.

## Modules

| module | models |
|---|---|
| `PaymentLifecycle` | abstract: one payment from creation to notification |
| `RetryPolicy` | `decide_action` over classes of exceptions |
| `PaymentConsumer` | the consumer, its queues and tables; implements `PaymentLifecycle` |
| `OutboxRelay` | the outbox table and its publishers |
| `RelayLoop` | a process: its lifespan and resources, and the publisher's polling task |
| `CreatePayment` | overlapping POSTs from the checks to the answer, and GET |
| `PaymentService` | `CreatePayment`, `OutboxRelay` and `PaymentConsumer` together; implements `PaymentLifecycle` |
| `MCPaymentConsumer`, `MCOutboxRelay`, `MCCreatePayment`, `MCPaymentService` | instances for TLC |
| `PaymentLifecycleProofs`, `PaymentConsumerProofs`, `OutboxRelayProofs`, `CreatePaymentProofs`, `RelayLoopProofs` | theorems about each module and their proofs |
| `ConsumerBudgetProofs`, `SumProofs` | the consumer's two budgets, and the lemmas about finite sums they rest on |
| `PaymentServiceProofs` | theorems about the composition, from the invariants of its components |

A definition whose comment begins "A mutant" is the definition below it with a
plausible mistake; `PROJECT.json` names the property that notices it.

### PaymentConsumer

A consumer `c` is one run of the message handler at a time; `pc[c]` names the
await it is about to make, `delivery[c]` the message it was given, `owned[c]`
whether the channel of that delivery is still open, and `local[c]` the value
that the next step works on (an outcome, a status, an exception). The actions are
the awaits of `ProcessPayment.execute` and `PaymentMessageDispatcher.dispatch`
in their order:

`HasSeen`, `Load`, `CacheGet`, `CachePut`, `Complete`, `Webhook`, `Remember`,
then `Ack`; on an exception `Route` and `Ack`, or `Reject`.

- A transaction is one step. It may commit and the caller go on, not commit and
  raise (`DatabaseFails`), or commit and raise all the same (the alternative
  `Raise` of `CachePut`, `Complete`, `Remember`). These three need no fault
  budget: the retry count bounds them.
- `Complete` locks the row (`get_for_update`) and is atomic for that reason. It
  may wait for another handler's lock; the wait is the interleaving before it.
- A POST may reach the merchant and still end as an error (a 5xx or a timeout).
- Queues count copies by message. Their order is not modelled: retries have
  TTLs of their own, redeliveries go to the front and consumers overlap.
- `Crash` loses the process, `ChannelLost` the delivery but not the handler,
  which goes on and settles a delivery that is no longer its own. In both the
  broker puts the message back into `payments.new`. A forward without confirm
  is the third alternative of `Route`. These three share `MaxFaults`.
- A payment with no row (`"absent"`) stands for a message about a payment that
  `CreatePayment` did not write; the code raises `PaymentNotFound` for it. A
  message without a valid `payment_id` takes the same way to the DLQ before
  the inbox is asked and has no action of its own. A body that is no JSON object
  fails in FastStream before it is dispatched and is left out.
- No `DomainError` reaches the policy: the aggregate's transition table is only
  asked for pending rows, and the webhook URL passed the same check in
  `CreatePayment`.
- `notified`, `accepted`, `posts`, `published` and `faults` are history: no
  guard of the code reads them, and only the bounds read the last two.

### OutboxRelay

A row is its five columns. A timestamp is reduced to what the code asks of it:
`claimed_at` is fresh or stale, `available_at` later or due, `published_at`
recent or old; `ClaimTimesOut`, `BackoffElapses` and `RetentionElapses` let time
pass. `locked[e]` is the row lock of a claim that selected but did not commit.
`held[p]` is the rest of publisher `p`'s batch with the `retry_count` its copy of
the record has. A publisher goes through `ClaimSelect`, `ClaimCommit`, and for
each record `Publish` and `MarkProcessed`, or `RetryOrFail`; an empty claim is
followed by `PurgeSelect` and `PurgeDelete`. The table may start with rows from
before migration 002, which are given a status by `Upgraded`.

`UPDATE ... WHERE id` is modelled as it is written: it ignores the status the
row has by now, and a purged row is not updated. So is `DELETE ... WHERE id IN
(SELECT ... LIMIT)`: under READ COMMITTED other transactions commit between the
sub-select, which fills `doomed[p]`, and the delete, which then only asks for
the id again. A row that a late holder released in between is deleted although
it says NEW; `SettledWasSent` says that the broker has it all the same.

Two constants say what the environment may do. `LateHolders`: a claim may time
out while its publisher works on it (a batch that takes longer than
`outbox_claim_timeout_seconds`). `LostReplies`: a commit may succeed and raise.
The properties are sorted by what they survive: `SettledWasSent`,
`FailedWasTried` and `NothingStranded` hold under both, the others only as
their run says.

### RelayLoop

`service` is one of the three entrypoints, `main` what its lifespan does and
`open` the resources that are open. `Connect` and `Declare` are the awaits of
`Resources.start`. With `fail_fast=False` the broker's connect waits for a broker
that is not there, but it may raise for another reason (the broker refuses it);
when either await raises, the process exits without closing anything
(the lifespan has not reached its `try`) and is restarted. `Close` is called
when the server stops, or, in the consumer, by FastStream after it has stopped
the broker itself (`OpenAtClose`). `CleanUp` runs one step of `close()`, which
may raise; `CancelCleanUp` is a cancellation, which no `except Exception` sees.

`loop` is the await the publisher's task is at. A poll is one step that returns
or raises; what it does is `OutboxRelay`. `DelayRaises` is Python's conversion
of `2 ** n` to a float, which fails above `n = 1023`. `outage` counts what the
environment does and `failures` what the backoff counts. `CancelStop` cancels
`close()` while it awaits the task, and with it the task; a poll that is
cancelled refreshes its gauges first, and when that raises the cancellation is
lost. An entrypoint starts and closes its runtime once, so `_is_started` and
`_is_closed` never make a call return early and are left out.

### CreatePayment

A request is named after the payment its `uuid4()` would create; `pc[r]` is
the await it is about to make. `Refuse` and `Accept` are the checks before the
use case: the body, the API key, the schema, the header, with the precedence
FastAPI gives them. `Insert` is the flush of `payments.add`: PostgreSQL's unique
index makes it wait for an open transaction with its key (`Uncommitted`), and
raise over a committed row. `Commit` writes payment and outbox row together and
may commit and raise. After the rollback `Replay` is `_replay_existing`.
`DatabaseFails` is any statement or commit that raises with nothing committed,
`Lose` the loss of the process, at which an open transaction may or may not
have been committed. `Settle` is the consumer, as far as a replay sees it.

`Orders` stands for amount, currency, description and webhook URL, which come
back from the table as they were written. Metadata does not: `Stored` is what
the JSONB column makes of it, and the instance has one value that comes back as
another (the float `1e23` as the integer `10**23`).

### PaymentService

The three modules as instances over shared variables: `payments` belongs to
`CreatePayment` and `PaymentConsumer`; `CreatePayment`'s `outbox` is the set of
rows whose `status` in `OutboxRelay` is not `"none"`; a publish of the relay
that reaches the broker is a `Publish` of the consumer. A step of the service is
a step of one component, joined with the step it causes in another: `ApiStep`
with `Relay!Add`, `RelayPublish` with `Consumer!Publish`. The components'
environment actions are gone: nobody settles, adds or publishes but the
component that does. Claims may time out under their holder and replies be
lost; the faults of all components share one budget.

## Runs

| run | shows | instance |
|---|---|---|
| `consumer_safety` | agreement, no loss, bounded retries, copies and POSTs | 2 handlers, 1 payment, 1 event, 2 attempts, 2 publications, 2 faults |
| `consumer_liveness` | refinement of `PaymentLifecycle`, every event handled, queues drain | the same with 3 attempts, 1 publication, 1 fault |
| `consumer_dies` | violation, see below | 1 handler, 1 fault |
| `relay_timely` | exclusive claims, current copies, publish budget, settled is final; every row settled and purged | 2 publishers, 2 rows (new or migrated), batches of 2, 2 attempts, 2 faults |
| `relay_late` | what survives late claims and lost replies | 2 publishers, 2 rows, batches of 1, 2 faults, both constants TRUE |
| `relay_republish` | violation, see below | 1 publisher, 1 row, a lost reply |
| `loop` | polls until stopped, stops when asked, nothing closed under a poll, nothing left open unreported | 3 services, the real exponent 1023, outages of up to 1024 polls |
| `loop_outage` | violation, see below | outages of up to 1025 polls |
| `create` | one payment with its event per key, answers that agree with it, real conflicts, no endless wait | 3 requests, 1 key, 2 orders, 2 values of metadata, 2 faults |
| `create_replay` | violation, see below | 2 requests, no fault |
| `service` | every handover, one outcome per key, refinement of `PaymentLifecycle` | 2 requests with one key, 1 publisher with 2 attempts, 1 consumer with 1 attempt, 1 fault |
| `service_live` | an accepted payment is processed in the end | 1 request, 1 publisher with 1 attempt, 1 consumer with 2 attempts, 1 fault |

The bounds:

- Two handlers are enough to overlap on every pair of awaits; a third copy
  waits in a queue. Handlers of different payments touch different rows and
  messages, so one payment suffices, and a payment has one event because
  `CreatePayment` writes one outbox row. Two attempts are one that is retried
  and one that is not; the liveness run has the three of the code.
- `MaxPublish` bounds the relay's repetitions: with two publications and two
  faults up to four copies of an event are about. The theorems below need no bound.
- Two publishers and two rows make claims overlap and skip: with batches of two
  a publisher has a rest to drop, with batches of one there is a rest to leave.
  Two attempts are one that is retried and one that is not; the code's 8 only
  adds more of the first.
- `MaxFaults` bounds crashes, failed transactions and lost replies; failures
  the code counts itself (a publish that raises) are not bounded by it.
- Three requests are one that holds the key, one that waits for it and one that
  finds the row; requests with different keys touch different rows.
- The composition has one process of each kind, as `docker-compose.yml` runs
  them; what several of a kind do to each other is in the components' own runs.
  A fault anywhere is at each handover once. `MaxPublish` is large enough never
  to hold the relay back: each publish is counted or costs a fault.
- Symmetry is used for consumers and publishers, in runs without liveness
  properties only.
- Deadlock checking is off where the system may come to rest: a consumer with
  empty queues, a payment that was settled, requests that were answered, a
  process that was closed. The relay
  polls for ever and is checked for deadlock.

Fairness. A handler goes on: each await has a timeout or ends with its
connection, hence weak fairness of `Handle(c)`; the broker delivers to an idle
consumer and dead-letters what expired. A publisher's step is strongly fair
because `MarkProcessed`, `RetryOrFail` and `PurgeDelete` wait for row locks that
claims take and give back. Time passes. Nothing is fair that the system does not owe: no
publication, no crash, no success of a POST, a publish or a transaction. That
the loop goes on is itself checked, in `RelayLoop`, and it holds for outages of
at most 1024 polls. A request's handling is weakly fair: PostgreSQL answers or
the connection breaks, and a flush that waits goes on when the transaction it
waits for ends, which `RequestsAnswered` shows it does. The service has the
fairness of its components; no client has to send anything. `EventuallyPurged`
needs a relay that is idle in the end, which an instance with finitely many rows
has.

## What the code does otherwise than it says

- `relay_republish`: the README says that unpublished rows are relayed. When
  the commit of `mark_processed` succeeds but raises, `_retry_or_fail` releases
  the row by its id, whatever its status is: a `PROCESSED` row is `NEW` again
  with `published_at` set, and is relayed again. The consumer's inbox absorbs
  the copy. `release` asks for no status; a `WHERE status = PROCESSING` would.
- `consumer_dies`: the README says that a message whose handler dies before it
  can be forwarded goes to the DLQ. It does when forwarding raises. When the
  process dies, the message is put back into `payments.new`, uncounted. That is
  also why `AttemptsBudget` has to allow `MaxAttempts` POSTs for each fault.
- `loop_outage`: `ExponentialDelay.delay_for` computes `2 ** (attempts - 1)`
  before it takes the minimum with the cap. The 1025th failed poll in a row
  raises `OverflowError` outside of `isolate`, and the relay's task ends while
  the process stays ready. A test says that the loop continues after an error.

- `create_replay`: the README says that the same key and the same body are
  answered with 202 and the same payment. `has_matching_create_input` compares
  what was sent with what the JSONB column returns; a number in the metadata
  that does not survive it (`1e23`) makes the repetition a 409.
  `ConflictIsReal` says that there is no other reason.

## Proofs

Every safety property that a run checks is also a theorem, for all values of the
constants. The proofs are checked by TLAPS to the last step and rest on nothing
but the named `ASSUME`s on constants (`MaxAttemptsAssumption`,
`ConsumerAssumption`, `RelayAssumption`, `CreateAssumption`, `AnswerAssumption`,
`LoopAssumption`, `ServiceAssumption`). They say that sets are finite where they
are counted and rows natural numbers where they are ordered, that bounds are
natural, that JSONB returns unchanged what it has returned once, and that `None`
is none of the values it stands beside; TLC evaluates them on every instance.
Each proof has the same shape: an inductive invariant, one lemma per action that
keeps it, and a theorem that reads the property off it.

`PaymentConsumerProofs`, for any payments and bounds and any finite sets of
consumers and events:

- `TypeCorrect`, `Agreement` (`ToldTheTruth`), `ChargeKept` (`SettledAsCharged`)
  and `InboxCorrect`: from the inductive invariant `IInv`. The last three are
  not inductive: between two awaits a handler carries a value it read earlier.
  `IInv` adds `HandlerKnows`, what a handler knows at each step: at `complete`
  its outcome is the stored one, at `webhook` its status is the row's, at
  `remember` the merchant has accepted. This stays true while others move
  because a stored charge and a settled payment never change (`TablesGrow`,
  lemma `Frame`).
- `NothingLost` (`NoEventLost`): inductive together with `IInv`. An event has to
  survive in the inbox, in a queue or in a delivery the broker will put back; a
  delivery about to be acknowledged does not count, because after the ack it
  would be gone. That exclusion makes the property stronger and inductive.
- `RetriesEnd` (`RetriesBounded`): from `RetryInv`, which says the same of the
  deliveries that handlers have. That the forwarded copy is a message at all
  needs `DecideAction` to stop one short of the limit.
- `Refinement`: every step of the consumer is a step of `PaymentLifecycle`, with
  `payments` for `status` and `gateway_charges` for `outcome`, or a stutter.

`ConsumerBudgetProofs`, for the same:

- `CopiesConserved` (`CopiesBounded`): from `CopiesInv`. The bound alone is not
  inductive: a handler whose channel was lost is counted nowhere and may still
  forward a copy. `CopiesInv` counts a handler as a copy while the broker holds
  its delivery or it has not yet been routed (`Holds`). Each action then moves a
  copy from one summand to another, or a publication or a fault pays for it.
- `PostsBudgeted` (`AttemptsBudget`): from `PostsInv`, which adds to the POSTs
  made those still to come: a copy that counts `r` retries is good for
  `MaxAttempts - r` (`Left`), a handler for the same before its POST and for one
  less after it (`Allowance`). A POST and a retry only move this sum, a
  publication and a fault add at most `MaxAttempts` to it.

The sums are the `SumFunctionOnSet` of the community modules. `SumProofs` shows
what is needed of it: it is natural, it changes as its function does at one
argument (`SumChange`), it bounds a cardinality. Since the library's induction
theorems cannot be instantiated, the induction is over a set of subsets, by the
subset of least cardinality that it lacks (`SubsetInduction`).

`OutboxRelayProofs`, for any publishers, rows, batches, attempts and faults:

- `TypeCorrect`, `SettledSent`, `GivenUpTried`, `NoneStranded`: from `RelayInv`,
  without a hypothesis on `LateHolders` and `LostReplies`, so whatever times out
  and whichever replies are lost. `RelayInv` adds that a publisher has a batch
  exactly while it works (`BatchInv`), that a lock belongs to the claim that
  selected the row (`LockInv`), that what a row or a copy of it counts was tried
  (`CountInv`), and that what is about to be marked (`MarkInv`) or deleted
  (`DoomedInv`) was sent, whatever the row says by now.
- `ExclusiveClaims`, `CurrentCopies`, `BudgetKept`: under `~ LateHolders`, but
  with lost replies, which is more than the run checks. From `TimelyInv`: a row
  in a batch is as its claim left it unless a lost reply let it be settled or
  purged meanwhile (`HeldInv`), and each publish was counted, is about to be,
  was the last, or cost a fault (`BudgetInv`; a batch that still holds a purged
  row has a publish of it left to pay for).
- `SettledFinal` and `OnlyUnpublished`, action properties: under `~ LateHolders`
  and `~ LostReplies`, from `TimelyInv` too: what a purge has found stays
  settled (`DoomedSettled`). With lost replies they are false; `relay_republish`
  shows it.

`CreatePaymentProofs`, for any requests, keys and bodies: `TypeCorrect`,
`OnePayment` (`OnePaymentPerKey`), `EventWithPayment` (`EventPerPayment`),
`AnswersHold` (`AnswersAgree`), `ConflictsReal` (`ConflictIsReal`), from
`ApiInv`. It adds what the unique index keeps: a flushed row shares its key with
no other, flushed or committed (`KeysInv`); that a request which is rolled back
has met a row with its key (`HandlingInv`), so that `_replay_existing` finds
one; and that a row is what JSONB makes of its request (`RowsInv`).

`PaymentServiceProofs`: `Carried` (`AcceptedIsCarried`), `OneOutcome`
(`OneOutcomePerKey`) and `Refinement`. The proof modules of the three components
are instantiated over the shared variables, their assumptions shown from
`ServiceAssumption`, and their invariants kept together as `ServiceInv`, with
one conjunct between relay and consumer: what the relay takes for sent was in
`payments.new` (`SentIsPublished`). A step of one component is a step of
another's environment or leaves its variables alone, so the components' own
lemmas do most of it. That a payment is carried follows along the chain:
accepted, hence a row (`AnswersAgree`, `EventPerPayment`); not settled, hence to
be claimed (`NothingStranded`), or sent (`SettledWasSent`), hence published and
not lost (`NoEventLost`).

`PaymentLifecycleProofs`: `PromiseKept`, that the abstract specification keeps
what its two invariants promise. Together with the two `Refinement`s it says why
the consumer and the service may be judged by `PaymentLifecycle` alone.

`RelayLoopProofs`, from one inductive invariant `LoopInv`: `TypeCorrect`,
`ResourcesSafe`, `CloseComplete` (`NothingLeftOpen`), and `OutageSurvived` under
the hypothesis `MaxOutage <= LargestExponent + 1`, the exact bound of the run.
`LoopInv` adds to the type what is open at each point of the lifespan
(`OpenInv`: while `close()` runs, what is open is what is still to be cleaned up
and what raised) and what the task may be at (`TaskInv`).

Only model-checked: liveness (`EventuallyHandled`, `EventuallyQuiet`,
`EventuallySettled`, `EventuallyPurged`, `StopEnds`, `KeepsPolling`,
`RequestsAnswered`, `AcceptedIsProcessed`). It rests on fairness and on
`ENABLED`, which these provers do not handle.

## Not modelled

- Time as a quantity: how long a TTL, a backoff or a claim timeout is. Every
  order of their ends is covered instead. RabbitMQ expires only the head of the
  retry queue, so a retry may wait longer than its TTL; the models let it wait
  as long as it likes.
- The broker's own failures other than losing a connection: queues are durable
  and messages persistent.
- A relay that is never idle: `PublishOutbox` purges only when there is nothing
  to claim, and under an endless load the code does not promise to purge.
- Calls nobody makes: `WorkerLoop.start` and `stop` concurrently, a second
  `Resources.start`, `SqlOutboxQueue.unclaim`, `memory_cache.py`.
- The access log, metrics and probes, which only report; configuration, which
  the constants stand for; and the validation of amounts, keys and URLs,
  functions of one request that unit tests reach.

## Plan

Every safety property is proved; what may follow are theorems that no run states
yet:

1. The consumer's budgets in `PaymentService`: how many POSTs an accepted request
   can cost, from `CopiesInv` and `PostsInv` over the shared variables.
2. The parts of liveness that are not temporal: that a measure bounds the steps
   of a handler between two deliveries, and that it falls with each.

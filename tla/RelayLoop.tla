------------------------------- MODULE RelayLoop -------------------------------
(***************************************************************************)
(* A process of the deployment: the lifespan of its entrypoint, which      *)
(* starts and closes Resources, and in the publisher the loop that runs    *)
(* PublishOutbox: OutboxRelay._run in a task of WorkerLoop, with a backoff *)
(* between polls that raised. The two tasks of the event loop take turns   *)
(* at their awaits.                                                        *)
(*                                                                         *)
(* An entrypoint starts and closes its resources once, so _is_started and  *)
(* _is_closed never make it return early and are left out.                 *)
(***************************************************************************)
EXTENDS Integers, Sequences

CONSTANTS
    LargestExponent,    \* 2 ** n is a float up to this n: 1023
    MaxOutage           \* bound: polls in a row that raise

ASSUME LoopAssumption == LargestExponent \in Nat /\ MaxOutage \in Nat

VARIABLES
    service,            \* Entrypoint.service
    main,               \* what the lifespan does
    open,               \* the resources that are open
    steps,              \* cleanup steps close() has still to run
    errors,             \* the resources whose cleanup step raised
    cut,                \* close() was cancelled in one of its steps
    stop,               \* the event WorkerLoop._stop
    loop,               \* where the task is
    failures,           \* ExponentialBackoff._failures
    outage              \* polls that raised since the last that did not

runtime == <<open, steps, errors, cut>>
task == <<stop, loop, failures, outage>>
vars == <<service, main, runtime, task>>

Services == {"payment-api", "outbox-publisher", "payment-consumer"}
Kinds == {"http_client", "broker", "engine"}

\* What _create_resources has made before the event loop runs the lifespan.
Built == {"http_client", "engine"}

\* owns_broker=False: FastStream stops the broker of its app itself.
OwnsBroker == service # "payment-consumer"

\* Resources._shutdown_steps
ShutdownSteps ==
    IF OwnsBroker THEN <<"http_client", "broker", "engine">>
                  ELSE <<"http_client", "engine">>

Awaiting == {"created", "execute", "interval", "backoff", "yield"}

\* "dead": an exception left the task; nobody sees it before stop().
Ended == {"done", "cancelled", "dead"}

TypeOK ==
    /\ service \in Services
    /\ main \in {"starting", "declaring", "failed",
                 "serving", "stopping", "closing", "closed"}
    /\ open \in SUBSET Kinds
    /\ steps \in Seq(Kinds)
    /\ errors \in SUBSET Kinds
    /\ cut \in BOOLEAN
    /\ stop \in BOOLEAN
    /\ loop \in Awaiting \cup Ended \cup {"none"}
    /\ failures \in 0 .. MaxOutage
    /\ outage \in 0 .. MaxOutage

Init ==
    /\ service \in Services
    /\ main = "starting"
    /\ open = Built
    /\ steps = <<>>
    /\ errors = {}
    /\ cut = FALSE
    /\ stop = FALSE
    /\ loop = "none"
    /\ failures = 0
    /\ outage = 0

-------------------------------------------------------------------------------
(***************************************************************************)
(* The task.                                                               *)
(***************************************************************************)

\* while not is_stopped()
Again == IF stop THEN "done" ELSE "execute"

\* A mutant: the exponent is not one less than the attempts.
DelayRaisesEarly(attempts) == attempts > LargestExponent

\* ExponentialDelay.delay_for multiplies a float by 2 ** (attempts - 1)
\* before it takes the minimum with the cap: OverflowError.
DelayRaises(attempts) == attempts - 1 > LargestExponent

\* A mutant: the loop and the backoff both count the failure.
BackOffCountsTwice ==
    /\ outage < MaxOutage
    /\ outage' = outage + 1
    /\ failures' = failures + 2
    /\ loop' = IF DelayRaises(failures') THEN "dead" ELSE "backoff"

\* A poll that raised waits for the backoff, outside of isolate.
BackOff ==
    /\ outage < MaxOutage
    /\ outage' = outage + 1
    /\ failures' = failures + 1
    /\ loop' = IF DelayRaises(failures') THEN "dead" ELSE "backoff"

\* A poll that relayed a full batch goes on after sleep(0).
ExecuteReturns ==
    /\ loop = "execute"
    /\ outage' = 0
    /\ failures' = 0
    /\ loop' \in IF stop THEN {"done"} ELSE {"interval", "yield"}
    /\ UNCHANGED <<service, main, runtime, stop>>

ExecuteRaises ==
    /\ loop = "execute"
    /\ BackOff
    /\ UNCHANGED <<service, main, runtime, stop>>

\* The task starts, its timeout is over, or the event was set.
Wake ==
    /\ loop \in {"created", "interval", "backoff", "yield"}
    /\ loop' = Again
    /\ UNCHANGED <<service, main, runtime, stop, failures, outage>>

-------------------------------------------------------------------------------
(***************************************************************************)
(* The lifespan.                                                           *)
(***************************************************************************)

\* Resources.start up to its second await. With fail_fast=False it waits for a
\* broker that is not there; it raises when the broker refuses it, say.
Connect ==
    /\ main = "starting"
    /\ \/ main' = "declaring" /\ open' = open \cup {"broker"}
       \/ main' = "failed" /\ UNCHANGED open
    /\ UNCHANGED <<service, steps, errors, cut, task>>

\* WorkerLoop.start, in the publisher only.
StartLoop ==
    /\ loop' = IF service = "outbox-publisher" THEN "created" ELSE loop
    /\ stop' = FALSE
    /\ UNCHANGED <<failures, outage>>

(***************************************************************************)
(* PaymentsTopology.declare, and the loop is started. When it raises, the  *)
(* lifespan has not reached its try: nothing is closed before the process  *)
(* exits.                                                                  *)
(***************************************************************************)
Declare ==
    /\ main = "declaring"
    /\ \/ main' = "serving" /\ StartLoop
       \/ main' = "failed" /\ UNCHANGED task
    /\ UNCHANGED <<service, runtime>>

\* restart: unless-stopped
Restart ==
    /\ main = "failed"
    /\ main' = "starting"
    /\ open' = Built
    /\ UNCHANGED <<service, steps, errors, cut, task>>

\* FastStream has stopped the consumer's broker before it calls after_shutdown.
OpenAtClose == IF OwnsBroker THEN open ELSE open \ {"broker"}

\* A mutant: stop() joins without setting the event.
CloseUnannounced ==
    /\ main = "serving"
    /\ main' = "stopping"
    /\ open' = OpenAtClose
    /\ UNCHANGED <<service, steps, errors, cut, task>>

\* close() up to the await of the task in stop().
Close ==
    /\ main = "serving"
    /\ main' = "stopping"
    /\ open' = OpenAtClose
    /\ stop' = (service = "outbox-publisher")
    /\ UNCHANGED <<service, steps, errors, cut, loop, failures, outage>>

(***************************************************************************)
(* close() is cancelled while it awaits the task: so is the task. execute  *)
(* still refreshes the gauges; when that raises, isolate takes it for a    *)
(* failed poll and the cancellation is lost.                               *)
(***************************************************************************)
CancelStop ==
    /\ main = "stopping"
    /\ \/ /\ loop \in Awaiting
          /\ loop' = "cancelled"
          /\ UNCHANGED <<failures, outage>>
       \/ loop = "execute" /\ BackOff
    /\ UNCHANGED <<service, main, runtime, stop>>

\* A mutant: stop() does not wait for the task.
JoinedAtOnce ==
    /\ main = "stopping"
    /\ main' = "closing"
    /\ steps' = ShutdownSteps
    /\ UNCHANGED <<service, open, errors, cut, task>>

\* The task, if there is one, has ended: stop() returns or raises, and
\* close() goes on with runtime.close() either way.
Joined ==
    /\ main = "stopping"
    /\ loop \in Ended \cup {"none"}
    /\ main' = "closing"
    /\ steps' = ShutdownSteps
    /\ UNCHANGED <<service, open, errors, cut, task>>

\* A mutant: the first step that raises is the last.
CleanUpUntilError ==
    /\ main = "closing"
    /\ steps # <<>>
    /\ \/ open' = open \ {Head(steps)} /\ steps' = Tail(steps)
          /\ UNCHANGED errors
       \/ errors' = errors \cup {Head(steps)} /\ steps' = <<>>
          /\ UNCHANGED open
    /\ UNCHANGED <<service, main, cut, task>>

\* ResourceCleanup.run: a step that raises does not keep the others from
\* being run.
CleanUp ==
    /\ main = "closing"
    /\ steps # <<>>
    /\ \/ open' = open \ {Head(steps)} /\ UNCHANGED errors
       \/ errors' = errors \cup {Head(steps)} /\ UNCHANGED open
    /\ steps' = Tail(steps)
    /\ UNCHANGED <<service, main, cut, task>>

\* CancelledError is not an Exception: the steps that are left are not run.
CancelCleanUp ==
    /\ main = "closing"
    /\ steps # <<>>
    /\ main' = "closed"
    /\ cut' = TRUE
    /\ open' \in {open, open \ {Head(steps)}}
    /\ UNCHANGED <<service, steps, errors, task>>

Closed ==
    /\ main = "closing"
    /\ steps = <<>>
    /\ main' = "closed"
    /\ UNCHANGED <<service, runtime, task>>

-------------------------------------------------------------------------------

Task == ExecuteReturns \/ ExecuteRaises \/ Wake

Lifespan == Connect \/ Declare \/ Restart \/ Joined \/ CleanUp \/ Closed

Next == Lifespan \/ Task \/ Close \/ CancelStop \/ CancelCleanUp

Spec == Init /\ [][Next]_vars

\* A poll returns or raises, a wait ends, an await of the lifespan too, and
\* an outage ends after MaxOutage polls at most.
FairSpec == Spec /\ WF_vars(Lifespan) /\ WF_vars(Task)

-------------------------------------------------------------------------------

(***************************************************************************)
(* The engine and the broker are open, and the queues declared, as long as *)
(* there is a task that polls: also when the lifespan is cancelled, when   *)
(* stop() raises or when start() failed halfway (publisher.py:52-60,       *)
(* worker.py:58-69, resources.py:44-45).                                   *)
(***************************************************************************)
ResourcesOutliveLoop ==
    loop \in Awaiting =>
        {"broker", "engine"} \subseteq open /\ main \in {"serving", "stopping"}

(***************************************************************************)
(* What close() leaves open is what it raises an ExceptionGroup about: a   *)
(* step that fails hides no other resource, and whoever stops the broker,  *)
(* somebody does. Only a cancellation cuts it short (resources.py:18-26,   *)
(* 48-65).                                                                 *)
(***************************************************************************)
NothingLeftOpen == main = "closed" /\ ~ cut => open = errors

(***************************************************************************)
(* stop() ends, whatever the task is at when it is called: a busy backlog, *)
(* a long backoff, an outage (worker.py:26-35).                            *)
(***************************************************************************)
StopEnds == main = "stopping" ~> main = "closed"

(***************************************************************************)
(* While the process serves, it polls again: no outage of at most          *)
(* LargestExponent + 1 polls ends the loop (backoff.py:18-24).             *)
(***************************************************************************)
KeepsPolling ==
    service = "outbox-publisher" /\ main = "serving"
        ~> loop = "execute" \/ main # "serving"

(***************************************************************************)
(* tests/presentation/test_outbox_relay.py:55                              *)
(* "test_error_is_logged_and_loop_continues": polls that raise do not end  *)
(* the loop, however many do.                                              *)
(***************************************************************************)
ErrorsSurvived == loop # "dead"
===============================================================================

---------------------------- MODULE RelayLoopProofs ----------------------------
(***************************************************************************)
(* What RelayLoop promises for every range of a float and every outage.    *)
(***************************************************************************)
EXTENDS RelayLoop, TLAPS

\* Where the task may be while the lifespan is where it is, and the backoff
\* counts the polls of the present outage.
TaskInv ==
    /\ failures = outage
    /\ main \in {"starting", "declaring", "failed"} => loop = "none"
    /\ main \in {"closing", "closed"} => loop \in Ended \cup {"none"}
    /\ service # "outbox-publisher" => loop = "none"

\* The queues of steps close() goes through, and what is still to be closed.
Suffixes == {<<"http_client", "broker", "engine">>, <<"broker", "engine">>,
             <<"http_client", "engine">>, <<"engine">>, <<>>}
Left(s) == {s[i] : i \in DOMAIN s}

\* What is open is what start() opened, then what close() has not come to or
\* has failed to close.
OpenInv ==
    /\ steps \in Suffixes
    /\ main \in {"starting", "failed", "declaring", "serving", "stopping"}
         => errors = {} /\ ~ cut
    /\ main = "starting" => open = Built
    /\ main \in {"declaring", "serving"} => open = Kinds
    /\ main = "stopping" => open = IF OwnsBroker THEN Kinds ELSE Built
    /\ main = "closing" => /\ open = errors \cup Left(steps)
                           /\ errors \cap Left(steps) = {}
                           /\ ~ cut
    /\ main = "closed" /\ ~ cut => open = errors

LoopInv == TypeOK /\ TaskInv /\ OpenInv

\* What each list of steps has left to close.
LEMMA SuffixesLeft ==
    /\ Left(<<>>) = {}
    /\ Left(<<"engine">>) = {"engine"}
    /\ Left(<<"broker", "engine">>) = {"broker", "engine"}
    /\ Left(<<"http_client", "engine">>) = Built
    /\ Left(<<"http_client", "broker", "engine">>) = Kinds
  BY DEF Left, Built, Kinds

\* A step that was run is not left any more; those behind it are.
LEMMA StepRun ==
    ASSUME NEW s \in Suffixes, s # <<>>
    PROVE  /\ Head(s) \in Kinds
           /\ Tail(s) \in Suffixes
           /\ Left(s) = {Head(s)} \cup Left(Tail(s))
           /\ Head(s) \notin Left(Tail(s))
<1>1. CASE s = <<"engine">>
  BY <1>1, SuffixesLeft DEF Suffixes, Kinds
<1>2. CASE s = <<"broker", "engine">>
  <2>1. Head(s) = "broker" /\ Tail(s) = <<"engine">>
    BY <1>2
  <2> QED
    BY <1>2, <2>1, SuffixesLeft DEF Suffixes, Kinds
<1>3. CASE s = <<"http_client", "engine">>
  <2>1. Head(s) = "http_client" /\ Tail(s) = <<"engine">>
    BY <1>3
  <2> QED
    BY <1>3, <2>1, SuffixesLeft DEF Suffixes, Kinds, Built
<1>4. CASE s = <<"http_client", "broker", "engine">>
  <2>1. Head(s) = "http_client" /\ Tail(s) = <<"broker", "engine">>
    BY <1>4
  <2> QED
    BY <1>4, <2>1, SuffixesLeft DEF Suffixes, Kinds
<1> QED
  BY <1>1, <1>2, <1>3, <1>4 DEF Suffixes

\* What is left to close is a sequence of resources.
LEMMA SuffixesTyped == Suffixes \subseteq Seq(Kinds)
  BY DEF Suffixes, Kinds

\* The exponent of the n-th delay in a row is n - 1.
LEMMA DelaysInRange ==
    ASSUME NEW n \in Nat, n <= LargestExponent + 1
    PROVE  ~ DelayRaises(n)
  BY LoopAssumption DEF DelayRaises

\* What a poll that raises, cancelled or not, does to the invariant.
LEMMA BackOffInv ==
    ASSUME LoopInv, loop = "execute", BackOff,
           UNCHANGED <<service, main, runtime, stop>>
    PROVE  LoopInv'
<1>1. outage' \in 0 .. MaxOutage
  BY LoopAssumption DEF LoopInv, TypeOK, BackOff
<1>2. failures' = outage'
  BY DEF LoopInv, TaskInv, BackOff
<1>3. loop' \in {"dead", "backoff"}
  BY DEF BackOff
<1>4. TypeOK'
  BY <1>1, <1>2, <1>3 DEF LoopInv, TypeOK, Awaiting, Ended, runtime
<1>5. TaskInv'
  BY <1>2, <1>3 DEF LoopInv, TaskInv, Ended
<1>6. OpenInv'
  BY DEF LoopInv, OpenInv, runtime, OwnsBroker
<1> QED
  BY <1>4, <1>5, <1>6 DEF LoopInv

\* The other steps of the task, and a cancellation, move only the task.
LEMMA TaskStep ==
    ASSUME LoopInv, UNCHANGED <<service, main, runtime, stop>>,
           loop \in Awaiting, loop' \in Awaiting \cup Ended,
           main \in {"closing", "closed"} => loop' \in Ended \cup {"none"},
           \/ UNCHANGED <<failures, outage>>
           \/ failures' = 0 /\ outage' = 0
    PROVE  LoopInv'
<1>1. TypeOK'
  BY LoopAssumption DEF LoopInv, TypeOK, runtime
<1>2. TaskInv'
  BY DEF LoopInv, TaskInv, Awaiting
<1>3. OpenInv'
  BY DEF LoopInv, OpenInv, runtime, OwnsBroker
<1> QED
  BY <1>1, <1>2, <1>3 DEF LoopInv

\* LoopInv holds throughout.
LEMMA LoopInvariant == Spec => []LoopInv
<1>1. Init => LoopInv
  <2> SUFFICES ASSUME Init PROVE LoopInv
    OBVIOUS
  <2>1. failures \in 0 .. MaxOutage /\ outage \in 0 .. MaxOutage
    BY LoopAssumption DEF Init
  <2>2. steps \in Suffixes /\ steps \in Seq(Kinds)
    BY SuffixesTyped DEF Init, Suffixes
  <2>3. open \in SUBSET Kinds /\ errors \in SUBSET Kinds
        /\ cut \in BOOLEAN /\ stop \in BOOLEAN
    BY DEF Init, Built, Kinds
  <2>4. TypeOK
    BY <2>1, <2>2, <2>3 DEF Init, TypeOK
  <2> QED
    BY <2>2, <2>4 DEF Init, LoopInv, TaskInv, OpenInv
<1>2. LoopInv /\ [Next]_vars => LoopInv'
  <2> SUFFICES ASSUME LoopInv, [Next]_vars PROVE LoopInv'
    OBVIOUS
  <2>1. CASE Connect
    <3>1. TypeOK'
      BY <2>1 DEF Connect, LoopInv, TypeOK, Kinds, task
    <3>2. TaskInv'
      BY <2>1 DEF Connect, LoopInv, TaskInv, task
    <3>3. main' = "declaring" => open' = Kinds
      BY <2>1 DEF Connect, LoopInv, OpenInv, Built, Kinds
    <3> QED
      BY <2>1, <3>1, <3>2, <3>3 DEF Connect, LoopInv, OpenInv, OwnsBroker
  <2>2. CASE Declare
    <3>1. stop' \in BOOLEAN
      BY <2>2 DEF Declare, StartLoop, LoopInv, TypeOK, task
    <3>2. TypeOK'
      BY <2>2, <3>1 DEF Declare, StartLoop, LoopInv, TypeOK, Awaiting, task,
                        runtime
    <3>3. TaskInv'
      BY <2>2 DEF Declare, StartLoop, LoopInv, TaskInv, task, runtime
    <3> QED
      BY <2>2, <3>2, <3>3 DEF Declare, LoopInv, OpenInv, OwnsBroker, runtime
  <2>3. CASE Restart
    BY <2>3 DEF Restart, LoopInv, TypeOK, TaskInv, OpenInv, OwnsBroker, Built,
                Kinds, task
  <2>4. CASE ExecuteReturns
    BY <2>4, TaskStep DEF ExecuteReturns, Awaiting, Ended, LoopInv, TaskInv
  <2>5. CASE ExecuteRaises
    BY <2>5, BackOffInv DEF ExecuteRaises
  <2>6. CASE Wake
    BY <2>6, TaskStep DEF Wake, Again, Awaiting, Ended, LoopInv, TaskInv
  <2>7. CASE Close
    <3>1. stop' \in BOOLEAN
      BY <2>7 DEF Close
    <3>2. TypeOK'
      BY <2>7, <3>1 DEF Close, OpenAtClose, LoopInv, TypeOK
    <3>3. TaskInv'
      BY <2>7 DEF Close, LoopInv, TaskInv
    <3>4. open' = IF OwnsBroker THEN Kinds ELSE Built
      BY <2>7 DEF Close, OpenAtClose, LoopInv, OpenInv, Kinds, Built
    <3> QED
      BY <2>7, <3>2, <3>3, <3>4 DEF Close, OpenAtClose, LoopInv, OpenInv, OwnsBroker
  <2>8. CASE CancelStop
    <3>1. CASE loop = "execute" /\ BackOff
      BY <2>8, <3>1, BackOffInv DEF CancelStop
    <3> QED
      BY <2>8, <3>1, TaskStep DEF CancelStop, Ended
  <2>9. CASE Joined
    <3>1. steps' \in Suffixes /\ Left(steps') = open
      BY <2>9, SuffixesLeft DEF Joined, ShutdownSteps, LoopInv, OpenInv,
                                Suffixes
    <3>2. TypeOK'
      BY <2>9, <3>1, SuffixesTyped DEF Joined, LoopInv, TypeOK, task
    <3>3. TaskInv'
      BY <2>9 DEF Joined, LoopInv, TaskInv, task
    <3> QED
      BY <2>9, <3>1, <3>2, <3>3 DEF Joined, LoopInv, OpenInv
  <2>10. CASE CleanUp
    <3>1. steps \in Suffixes /\ steps # <<>> /\ steps' = Tail(steps)
      BY <2>10 DEF CleanUp, LoopInv, OpenInv
    <3>2. /\ Head(steps) \in Kinds
          /\ steps' \in Suffixes
          /\ Left(steps) = {Head(steps)} \cup Left(steps')
          /\ Head(steps) \notin Left(steps')
      BY <3>1, StepRun
    <3>3. TypeOK'
      BY <2>10, <3>2, SuffixesTyped DEF CleanUp, LoopInv, TypeOK, task
    <3>4. TaskInv'
      BY <2>10 DEF CleanUp, LoopInv, TaskInv, task
    <3>5. open = errors \cup Left(steps) /\ errors \cap Left(steps) = {}
          /\ ~ cut
      BY <2>10 DEF CleanUp, LoopInv, OpenInv
    <3>6. open' = errors' \cup Left(steps') /\ errors' \cap Left(steps') = {}
      BY <2>10, <3>2, <3>5 DEF CleanUp
    <3>7. main' = "closing" /\ ~ cut'
      BY <2>10, <3>5 DEF CleanUp
    <3> QED
      BY <3>2, <3>3, <3>4, <3>6, <3>7 DEF LoopInv, OpenInv
  <2>11. CASE CancelCleanUp
    <3>1. main' = "closed" /\ cut' = TRUE /\ open' \subseteq open
      BY <2>11 DEF CancelCleanUp
    <3> QED
      BY <2>11, <3>1 DEF CancelCleanUp, LoopInv, TypeOK, TaskInv, OpenInv, task
  <2>12. CASE Closed
    BY <2>12, SuffixesLeft
    DEF Closed, LoopInv, TypeOK, TaskInv, OpenInv, task, runtime
  <2>13. CASE UNCHANGED vars
    BY <2>13 DEF vars, task, runtime, LoopInv, TypeOK, TaskInv, OpenInv,
                 OwnsBroker
  <2> QED
    BY <2>1, <2>2, <2>3, <2>4, <2>5, <2>6, <2>7, <2>8, <2>9, <2>10, <2>11,
       <2>12, <2>13 DEF Next, Lifespan, Task
<1> QED
  BY <1>1, <1>2, PTL DEF Spec

\* The type invariant, for every range of a float and every bound.
THEOREM TypeCorrect == Spec => []TypeOK
<1>1. LoopInv => TypeOK
  BY DEF LoopInv
<1> QED
  BY <1>1, LoopInvariant, PTL

(***************************************************************************)
(* Nothing is closed under a poll: close() goes on only when the task has  *)
(* ended, and a task is started only when start() returned                 *)
(* (publisher.py:52-60).                                                   *)
(***************************************************************************)
THEOREM ResourcesSafe == Spec => []ResourcesOutliveLoop
<1>1. LoopInv => ResourcesOutliveLoop
  <2> SUFFICES ASSUME LoopInv, loop \in Awaiting
               PROVE  /\ {"broker", "engine"} \subseteq open
                      /\ main \in {"serving", "stopping"}
    BY DEF ResourcesOutliveLoop
  <2>1. service = "outbox-publisher" /\ main \in {"serving", "stopping"}
    BY DEF LoopInv, TypeOK, TaskInv, Awaiting, Ended
  <2>2. open = Kinds
    BY <2>1 DEF LoopInv, OpenInv, OwnsBroker
  <2> QED
    BY <2>1, <2>2 DEF Kinds
<1> QED
  BY <1>1, LoopInvariant, PTL

(***************************************************************************)
(* Whichever cleanup steps raise, a close() that was not cancelled leaves  *)
(* open just what it reports (resources.py:18-26, 48-65).                  *)
(***************************************************************************)
THEOREM CloseComplete == Spec => []NothingLeftOpen
<1>1. LoopInv => NothingLeftOpen
  BY DEF LoopInv, OpenInv, NothingLeftOpen
<1> QED
  BY <1>1, LoopInvariant, PTL

(***************************************************************************)
(* An outage of at most LargestExponent + 1 polls does not end the loop:   *)
(* the backoff raises only above, and it is reset by every poll that       *)
(* returns (backoff.py:18-24, outbox_relay.py:47-50).                      *)
(***************************************************************************)
THEOREM OutageSurvived ==
    ASSUME MaxOutage <= LargestExponent + 1
    PROVE  Spec => []ErrorsSurvived
<1>1. Init => ErrorsSurvived
  BY DEF Init, ErrorsSurvived
<1>2. LoopInv /\ LoopInv' /\ ErrorsSurvived /\ [Next]_vars => ErrorsSurvived'
  <2> SUFFICES ASSUME LoopInv, LoopInv', ErrorsSurvived, [Next]_vars
               PROVE  ErrorsSurvived'
    OBVIOUS
  <2>1. ASSUME BackOff PROVE ErrorsSurvived'
    <3>1. failures' <= LargestExponent + 1 /\ failures' \in Nat
      BY LoopAssumption DEF LoopInv, TypeOK
    <3>2. ~ DelayRaises(failures')
      BY <3>1, DelaysInRange
    <3> QED
      BY <2>1, <3>2 DEF BackOff, ErrorsSurvived
  <2>2. CASE Task \/ CancelStop
    BY <2>1, <2>2 DEF Task, ExecuteReturns, ExecuteRaises, Wake, Again,
                      CancelStop, ErrorsSurvived
  <2>3. CASE Lifespan \/ Close \/ CancelCleanUp \/ UNCHANGED vars
    BY <2>3 DEF Lifespan, Connect, Declare, StartLoop, Restart, Joined,
                CleanUp, Closed, Close, CancelCleanUp, vars, task,
                ErrorsSurvived
  <2> QED
    BY <2>2, <2>3 DEF Next
<1> QED
  BY <1>1, <1>2, LoopInvariant, PTL DEF Spec
===============================================================================

------------------------------ MODULE OutboxRelay ------------------------------
(***************************************************************************)
(* The transactional outbox: PublishOutbox, run in a loop by every         *)
(* publisher process, over the table outbox (SqlOutboxQueue) and the       *)
(* broker. A publisher's steps are what it awaits: the SELECT ... FOR      *)
(* UPDATE SKIP LOCKED of a claim, its commit, one publish, one UPDATE.     *)
(*                                                                         *)
(* A timestamp is abstracted to what the code asks of it: is a claim older *)
(* than the claim timeout, is a row due, is it past its retention.         *)
(***************************************************************************)
EXTENDS Integers, FiniteSetsExt

CONSTANTS
    Publishers,
    Events,             \* outbox rows, numbered by created_at
    None,               \* NULL, nobody
    BatchSize,          \* rows of a claim and of a purge
    MaxAttempts,        \* PublishOutbox(max_attempts=...)
    LateHolders,        \* TRUE: a claim may time out while it is worked on
    LostReplies,        \* TRUE: a commit may succeed and still raise
    MaxFaults           \* bound: crashes, failed transactions, lost replies

ASSUME RelayAssumption ==
    /\ Events \subseteq Nat
    /\ IsFiniteSet(Events)
    /\ BatchSize \in Nat \ {0}
    /\ MaxAttempts \in Nat \ {0}
    /\ LateHolders \in BOOLEAN
    /\ LostReplies \in BOOLEAN
    /\ MaxFaults \in Nat
    /\ None \notin Publishers \cup Nat
    /\ None \notin {"fresh", "stale", "later", "due", "recent", "old"}

VARIABLES
    \* The columns of the table.
    status, retry_count, claimed_at, available_at, published_at,
    locked,             \* locked[e]: the publisher whose claim locks the row
    pc,                 \* pc[p]: what publisher p does next
    held,               \* held[p][e]: retry_count in p's copy of the record,
                        \* None when e is not in what is left of its batch
    doomed,             \* doomed[p]: rows p's DELETE has found to delete
    \* What happened so far: no code reads these.
    sent,               \* events the broker has got at least once
    tries,              \* tries[e]: publishes tried
    faults

row == <<status, retry_count, claimed_at, available_at, published_at>>
history == <<sent, tries, faults>>
vars == <<row, locked, pc, held, doomed, history>>

\* "none": not written yet. "purged": deleted after its retention.
OutboxStatus == {"none", "NEW", "PROCESSING", "PROCESSED", "FAILED", "purged"}

TypeOK ==
    /\ status \in [Events -> OutboxStatus]
    /\ retry_count \in [Events -> 0 .. MaxAttempts]
    /\ claimed_at \in [Events -> {None, "fresh", "stale"}]
    /\ available_at \in [Events -> {None, "later", "due"}]
    /\ published_at \in [Events -> {None, "recent", "old"}]
    /\ locked \in [Events -> Publishers \cup {None}]
    /\ pc \in [Publishers ->
                 {"claim", "claimed", "publish", "mark", "retry",
                  "purge", "delete"}]
    /\ held \in [Publishers -> [Events -> (0 .. MaxAttempts - 1) \cup {None}]]
    /\ doomed \in [Publishers -> SUBSET Events]
    /\ sent \in SUBSET Events
    /\ tries \in [Events -> Nat]
    /\ faults \in 0 .. MaxFaults

\* A mutant: the server default is all the migration sets.
UpgradedAllNew(published) == "NEW"

\* Migration 002 gives a row that was there before it a status.
Upgraded(published) == IF published # None THEN "PROCESSED" ELSE "NEW"

\* The publishers start on a table that was migrated, with rows or without.
Init ==
    /\ published_at \in [Events -> {None, "recent"}]
    /\ status \in [Events -> {"none", "NEW", "PROCESSED"}]
    /\ \A e \in Events : \/ status[e] = "none" /\ published_at[e] = None
                         \/ status[e] = Upgraded(published_at[e])
    /\ retry_count = [e \in Events |-> 0]
    /\ claimed_at = [e \in Events |-> None]
    /\ available_at = [e \in Events |-> None]
    /\ locked = [e \in Events |-> None]
    /\ pc = [p \in Publishers |-> "claim"]
    /\ held = [p \in Publishers |-> [e \in Events |-> None]]
    /\ doomed = [p \in Publishers |-> {}]
    /\ sent = {e \in Events : published_at[e] # None}
    /\ tries = [e \in Events |-> 0]
    /\ faults = 0

Batch(p) == {e \in Events : held[p][e] # None}
Nobody == [e \in Events |-> None]

\* The record of its batch a publisher works on: the earliest one left.
Current(p) == CHOOSE e \in Batch(p) : \A f \in Batch(p) : e <= f

Exists(e) == status[e] \notin {"none", "purged"}

-------------------------------------------------------------------------------
(***************************************************************************)
(* Writing, and the passing of time.                                       *)
(***************************************************************************)

\* SqlOutboxWriter.add, when CreatePayment's transaction commits. Rows may
\* become visible in another order than that of created_at.
Add(e) ==
    /\ status[e] = "none"
    /\ status' = [status EXCEPT ![e] = "NEW"]
    /\ UNCHANGED <<retry_count, claimed_at, available_at, published_at,
                   locked, pc, held, doomed, history>>

ClaimTimesOut(e) ==
    /\ claimed_at[e] = "fresh"
    /\ LateHolders \/ \A p \in Publishers : held[p][e] = None
    /\ claimed_at' = [claimed_at EXCEPT ![e] = "stale"]
    /\ UNCHANGED <<status, retry_count, available_at, published_at,
                   locked, pc, held, doomed, history>>

BackoffElapses(e) ==
    /\ available_at[e] = "later"
    /\ available_at' = [available_at EXCEPT ![e] = "due"]
    /\ UNCHANGED <<status, retry_count, claimed_at, published_at,
                   locked, pc, held, doomed, history>>

RetentionElapses(e) ==
    /\ published_at[e] = "recent"
    /\ published_at' = [published_at EXCEPT ![e] = "old"]
    /\ UNCHANGED <<status, retry_count, claimed_at, available_at,
                   locked, pc, held, doomed, history>>

-------------------------------------------------------------------------------
(***************************************************************************)
(* Claiming a batch.                                                       *)
(***************************************************************************)

\* A mutant: what is in flight may be claimed before its claim timed out.
ClaimableInFlight(e) ==
    \/ status[e] = "NEW" /\ available_at[e] # "later"
    \/ status[e] = "PROCESSING"

\* A mutant: the stale branch of the filter is missing.
ClaimableNewOnly(e) == status[e] = "NEW" /\ available_at[e] # "later"

\* A mutant: the filter asks what is not PROCESSED, not what is NEW.
ClaimableFailed(e) ==
    \/ status[e] \in {"NEW", "FAILED"} /\ available_at[e] # "later"
    \/ status[e] = "PROCESSING" /\ claimed_at[e] = "stale"

\* OutboxClaimFilter.build
Claimable(e) ==
    \/ status[e] = "NEW" /\ available_at[e] # "later"
    \/ status[e] = "PROCESSING" /\ claimed_at[e] = "stale"

\* ORDER BY created_at LIMIT limit
First(limit, S) == {e \in S : Cardinality({f \in S : f < e}) < limit}

\* A mutant: SELECT without FOR UPDATE SKIP LOCKED.
SelectedUnlocked == First(BatchSize, {e \in Events : Claimable(e)})

Selected == First(BatchSize, {e \in Events : Claimable(e) /\ locked[e] = None})

(***************************************************************************)
(* The SELECT of claim_batch locks the rows it returns and skips those     *)
(* another claim has locked. With nothing to claim, execute purges.        *)
(***************************************************************************)
ClaimSelect(p) ==
    /\ pc[p] = "claim"
    /\ IF Selected = {}
         THEN /\ pc' = [pc EXCEPT ![p] = "purge"]
              /\ UNCHANGED <<locked, held>>
         ELSE /\ pc' = [pc EXCEPT ![p] = "claimed"]
              /\ locked' = [e \in Events |->
                              IF e \in Selected THEN p ELSE locked[e]]
              /\ held' = [held EXCEPT ![p] =
                   [e \in Events |->
                      IF e \in Selected THEN retry_count[e] ELSE None]]
    /\ UNCHANGED <<row, doomed, history>>

Unlock(p) ==
    locked' = [e \in Events |-> IF locked[e] = p THEN None ELSE locked[e]]

\* The publisher gives up what is left of its batch and polls again.
Drop(p) ==
    /\ pc' = [pc EXCEPT ![p] = "claim"]
    /\ held' = [held EXCEPT ![p] = Nobody]

Fault ==
    /\ faults < MaxFaults
    /\ faults' = faults + 1
    /\ UNCHANGED <<sent, tries>>

\* A mutant: the claim does not renew claimed_at.
MarkClaimedWithoutTime(p) ==
    /\ status' = [e \in Events |->
                    IF e \in Batch(p) THEN "PROCESSING" ELSE status[e]]
    /\ available_at' = [e \in Events |->
                          IF e \in Batch(p) THEN None ELSE available_at[e]]
    /\ UNCHANGED <<retry_count, claimed_at, published_at>>

\* The UPDATE of claim_batch.
MarkClaimed(p) ==
    /\ status' = [e \in Events |->
                    IF e \in Batch(p) THEN "PROCESSING" ELSE status[e]]
    /\ claimed_at' = [e \in Events |->
                        IF e \in Batch(p) THEN "fresh" ELSE claimed_at[e]]
    /\ available_at' = [e \in Events |->
                          IF e \in Batch(p) THEN None ELSE available_at[e]]
    /\ UNCHANGED <<retry_count, published_at>>

(***************************************************************************)
(* The commit of _claim: it succeeds, or nothing is claimed, or the rows   *)
(* are claimed and execute raises all the same: nobody works on them.      *)
(***************************************************************************)
ClaimCommit(p) ==
    /\ pc[p] = "claimed"
    /\ Unlock(p)
    /\ \/ /\ MarkClaimed(p)
          /\ pc' = [pc EXCEPT ![p] = "publish"]
          /\ UNCHANGED <<held, history>>
       \/ Fault /\ Drop(p) /\ UNCHANGED row
       \/ LostReplies /\ Fault /\ Drop(p) /\ MarkClaimed(p)
    /\ UNCHANGED doomed

-------------------------------------------------------------------------------
(***************************************************************************)
(* Delivering a record.                                                    *)
(***************************************************************************)

\* The publisher is done with its current record and takes the next one.
Advance(p) ==
    LET rest == Batch(p) \ {Current(p)} IN
    /\ held' = [held EXCEPT ![p][Current(p)] = None]
    /\ pc' = [pc EXCEPT ![p] = IF rest = {} THEN "claim" ELSE "publish"]

\* A mutant: the publish does not wait for the broker's confirm.
PublishUnconfirmed(p) ==
    LET e == Current(p) IN
    /\ pc[p] = "publish"
    /\ tries' = [tries EXCEPT ![e] = @ + 1]
    /\ sent' = sent \cup {e} \/ sent' = sent
    /\ pc' = [pc EXCEPT ![p] = "mark"]
    /\ UNCHANGED <<row, locked, held, doomed, faults>>

(***************************************************************************)
(* _publish_one. It raises when the event cannot be encoded, when the      *)
(* broker refuses it, or when the confirm is lost: then the broker has it. *)
(***************************************************************************)
Publish(p) ==
    LET e == Current(p) IN
    /\ pc[p] = "publish"
    /\ tries' = [tries EXCEPT ![e] = @ + 1]
    /\ \/ sent' = sent \cup {e} /\ pc' = [pc EXCEPT ![p] = "mark"]
       \/ sent' = sent \cup {e} /\ pc' = [pc EXCEPT ![p] = "retry"]
       \/ sent' = sent /\ pc' = [pc EXCEPT ![p] = "retry"]
    /\ UNCHANGED <<row, locked, held, doomed, faults>>

\* mark_processed: UPDATE ... WHERE id = e, whatever the row says by now.
SetProcessed(e) ==
    IF Exists(e)
      THEN /\ status' = [status EXCEPT ![e] = "PROCESSED"]
           /\ published_at' = [published_at EXCEPT ![e] = "recent"]
           /\ claimed_at' = [claimed_at EXCEPT ![e] = None]
           /\ available_at' = [available_at EXCEPT ![e] = None]
           /\ UNCHANGED retry_count
      ELSE UNCHANGED row

(***************************************************************************)
(* _mark_processed, once no claim has the row locked. When the transaction *)
(* raises, so does _deliver, and the record is up for a retry although the *)
(* broker has the event and although the commit may have succeeded.        *)
(***************************************************************************)
MarkProcessed(p) ==
    LET e == Current(p) IN
    /\ pc[p] = "mark"
    /\ locked[e] = None
    /\ \/ SetProcessed(e) /\ Advance(p) /\ UNCHANGED history
       \/ /\ Fault
          /\ \/ UNCHANGED row
             \/ LostReplies /\ SetProcessed(e)
          /\ pc' = [pc EXCEPT ![p] = "retry"]
          /\ UNCHANGED held
    /\ UNCHANGED <<locked, doomed>>

\* A mutant: a released row keeps the retry_count it had.
ReleaseUncounted(e, attempts) ==
    IF Exists(e)
      THEN /\ status' = [status EXCEPT
                  ![e] = IF attempts < MaxAttempts THEN "NEW" ELSE "FAILED"]
           /\ available_at' = [available_at EXCEPT
                  ![e] = IF attempts < MaxAttempts THEN "later" ELSE None]
           /\ claimed_at' = [claimed_at EXCEPT ![e] = None]
           /\ UNCHANGED <<retry_count, published_at>>
      ELSE UNCHANGED row

\* A mutant: a row is given up one attempt early.
ReleaseEarly(e, attempts) ==
    IF Exists(e)
      THEN /\ status' = [status EXCEPT
                  ![e] = IF attempts + 1 < MaxAttempts THEN "NEW" ELSE "FAILED"]
           /\ available_at' = [available_at EXCEPT
                  ![e] = IF attempts + 1 < MaxAttempts THEN "later" ELSE None]
           /\ retry_count' = [retry_count EXCEPT ![e] = attempts]
           /\ claimed_at' = [claimed_at EXCEPT ![e] = None]
           /\ UNCHANGED published_at
      ELSE UNCHANGED row

\* release, as _retry_or_fail calls it: NEW after a backoff, or FAILED.
Release(e, attempts) ==
    IF Exists(e)
      THEN /\ status' = [status EXCEPT
                  ![e] = IF attempts < MaxAttempts THEN "NEW" ELSE "FAILED"]
           /\ available_at' = [available_at EXCEPT
                  ![e] = IF attempts < MaxAttempts THEN "later" ELSE None]
           /\ retry_count' = [retry_count EXCEPT ![e] = attempts]
           /\ claimed_at' = [claimed_at EXCEPT ![e] = None]
           /\ UNCHANGED published_at
      ELSE UNCHANGED row

(***************************************************************************)
(* _retry_or_fail counts from the copy of the record the claim made. When  *)
(* its transaction raises, execute raises and drops the rest of the batch. *)
(***************************************************************************)
RetryOrFail(p) ==
    LET e == Current(p)
        attempts == held[p][e] + 1 IN
    /\ pc[p] = "retry"
    /\ locked[e] = None
    /\ \/ Release(e, attempts) /\ Advance(p) /\ UNCHANGED history
       \/ /\ Fault
          /\ \/ UNCHANGED row
             \/ LostReplies /\ Release(e, attempts)
          /\ Drop(p)
    /\ UNCHANGED <<locked, doomed>>

-------------------------------------------------------------------------------

\* A mutant: the cutoff is compared with claimed_at, cleared by mark_processed.
PurgeableByClaim ==
    {e \in Events : status[e] = "PROCESSED" /\ claimed_at[e] = "stale"}

Purgeable == {e \in Events : status[e] = "PROCESSED" /\ published_at[e] = "old"}

(***************************************************************************)
(* PurgeProcessedOutbox: DELETE ... WHERE id IN (SELECT ... LIMIT). The    *)
(* sub-select finds at most BatchSize rows that were published and are     *)
(* past their retention.                                                   *)
(***************************************************************************)
PurgeSelect(p) ==
    /\ pc[p] = "purge"
    /\ pc' = [pc EXCEPT ![p] = "delete"]
    /\ \E S \in SUBSET Purgeable :
         /\ Cardinality(S) = Min({BatchSize, Cardinality(Purgeable)})
         /\ doomed' = [doomed EXCEPT ![p] = S]
    /\ UNCHANGED <<row, locked, held, history>>

(***************************************************************************)
(* The rows are deleted once no claim has them locked. Under READ          *)
(* COMMITTED only the id of a row that was updated meanwhile is asked      *)
(* again: it is deleted whatever it says by now.                           *)
(***************************************************************************)
PurgeDelete(p) ==
    LET Kept(column) ==
          [e \in Events |-> IF e \in doomed[p] THEN None ELSE column[e]] IN
    /\ pc[p] = "delete"
    /\ \A e \in doomed[p] : locked[e] = None
    /\ pc' = [pc EXCEPT ![p] = "claim"]
    /\ doomed' = [doomed EXCEPT ![p] = {}]
    /\ status' = [e \in Events |->
                    IF e \in doomed[p] THEN "purged" ELSE status[e]]
    /\ claimed_at' = Kept(claimed_at)
    /\ available_at' = Kept(available_at)
    /\ published_at' = Kept(published_at)
    /\ UNCHANGED <<retry_count, locked, held, history>>

Purge(p) == PurgeSelect(p) \/ PurgeDelete(p)

\* A failed SELECT or purge, or the process is gone: its locks are released
\* and nothing else it had open was committed.
Crash(p) ==
    /\ pc[p] # "claim"
    /\ Fault
    /\ Drop(p)
    /\ Unlock(p)
    /\ doomed' = [doomed EXCEPT ![p] = {}]
    /\ UNCHANGED row

-------------------------------------------------------------------------------

Relay(p) ==
    \/ ClaimSelect(p) \/ ClaimCommit(p) \/ Publish(p)
    \/ MarkProcessed(p) \/ RetryOrFail(p) \/ Purge(p)

Next ==
    \/ \E e \in Events : \/ Add(e) \/ ClaimTimesOut(e)
                         \/ BackoffElapses(e) \/ RetentionElapses(e)
    \/ \E p \in Publishers : Relay(p) \/ Crash(p)

Spec == Init /\ [][Next]_vars

(***************************************************************************)
(* The loop of OutboxRelay goes on (RelayLoop says as long as what), its   *)
(* awaits return or raise, and time passes. A row locked by a claim is     *)
(* free after it.                                                          *)
(***************************************************************************)
Fairness ==
    /\ \A p \in Publishers : SF_vars(Relay(p))
    /\ \A e \in Events : WF_vars(ClaimTimesOut(e)) /\ WF_vars(BackoffElapses(e))
                         /\ WF_vars(RetentionElapses(e))

FairSpec == Spec /\ Fairness

-------------------------------------------------------------------------------
(***************************************************************************)
(* Safety, whatever times out and whichever replies are lost.              *)
(***************************************************************************)

(***************************************************************************)
(* A row is marked PROCESSED, stamped published_at or purged only after    *)
(* the broker has got its event: nothing is deleted that was never         *)
(* relayed (publish_outbox.py:101-103, outbox_queue.py:116-133).           *)
(***************************************************************************)
SettledWasSent ==
    \A e \in Events :
        status[e] \in {"PROCESSED", "purged"} \/ published_at[e] # None
            => e \in sent

(***************************************************************************)
(* A row is given up only after MaxAttempts publishes of it were tried,    *)
(* although attempts are counted from copies taken by earlier claims       *)
(* (publish_outbox.py:114-135).                                            *)
(***************************************************************************)
FailedWasTried ==
    \A e \in Events : status[e] = "FAILED" => tries[e] >= MaxAttempts

(***************************************************************************)
(* No row is out of reach: one that is not settled waits in NEW, or its    *)
(* claim carries the time that lets another claim find it stale; and a     *)
(* settled one carries nothing a claim would match (outbox_claim.py).       *)
(***************************************************************************)
NothingStranded ==
    \A e \in Events :
        /\ status[e] = "PROCESSING" <=> claimed_at[e] # None
        /\ available_at[e] # None => status[e] = "NEW"

-------------------------------------------------------------------------------
(***************************************************************************)
(* Safety as long as no claim times out while it is worked on.             *)
(***************************************************************************)

(***************************************************************************)
(* Two publishers never work on one row: SKIP LOCKED keeps concurrent      *)
(* claims apart, the claim itself later ones (outbox_queue.py:27-55).      *)
(***************************************************************************)
ClaimsExclusive ==
    \A p, q \in Publishers : p # q => Batch(p) \cap Batch(q) = {}

(***************************************************************************)
(* The copy a publisher counts from agrees with the row: no attempt is     *)
(* lost between two publishers (publish_outbox.py:115).                    *)
(***************************************************************************)
CopiesCurrent ==
    \A p \in Publishers : \A e \in Batch(p) : held[p][e] = retry_count[e]

(***************************************************************************)
(* A row costs at most MaxAttempts publishes, and one more for each fault: *)
(* only a fault publishes without counting an attempt.                     *)
(***************************************************************************)
PublishBudget == \A e \in Events : tries[e] <= MaxAttempts + faults

(***************************************************************************)
(* README.md:8-9 "relays unpublished outbox rows with confirms, then sets  *)
(* published_at": a row that carries published_at is not relayed again.    *)
(***************************************************************************)
OnlyUnpublishedRelayed ==
    [][\A e \in Events : tries'[e] > tries[e] => published_at[e] = None]_vars

(***************************************************************************)
(* A settled row stays settled: PROCESSED is left only by the purge,       *)
(* FAILED never, although mark_processed and release update whatever row   *)
(* has the id (outbox_queue.py:57-92).                                     *)
(***************************************************************************)
SettledIsFinal ==
    [][\A e \in Events :
         /\ status[e] = "PROCESSED" => status'[e] \in {"PROCESSED", "purged"}
         /\ status[e] = "FAILED" => status'[e] = "FAILED"]_vars

-------------------------------------------------------------------------------
(***************************************************************************)
(* Liveness.                                                               *)
(***************************************************************************)

(***************************************************************************)
(* Every row is settled in the end: relayed, or given up as FAILED. A row  *)
(* that cannot be published does not keep the others from it, and neither  *)
(* does a publisher that dies with a batch.                                *)
(***************************************************************************)
EventuallySettled ==
    \A e \in Events :
        status[e] = "NEW" ~> [](status[e] \in {"PROCESSED", "FAILED", "purged"})

\* Every published row is deleted in the end: an idle relay purges.
EventuallyPurged ==
    \A e \in Events : status[e] = "PROCESSED" ~> status[e] # "PROCESSED"
===============================================================================

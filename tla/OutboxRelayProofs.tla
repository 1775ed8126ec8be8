--------------------------- MODULE OutboxRelayProofs ---------------------------
(***************************************************************************)
(* What OutboxRelay promises for any number of publishers, rows, attempts  *)
(* and faults: first whatever times out and whichever replies are lost,    *)
(* then as long as no claim times out while it is worked on.               *)
(***************************************************************************)
EXTENDS OutboxRelay, WellFoundedInduction, TLAPS

Working == {"publish", "mark", "retry"}

\* A publisher has a batch from the SELECT of its claim to the last record.
BatchInv ==
    \A p \in Publishers : Batch(p) # {} <=> pc[p] \in Working \cup {"claimed"}

\* A locked row is in the batch of the claim that locks it, and still one that
\* may be claimed.
LockInv ==
    /\ \A e \in Events : \A p \in Publishers :
         locked[e] = p <=> pc[p] = "claimed" /\ e \in Batch(p)
    /\ \A e \in Events :
         locked[e] # None => status[e] \in {"NEW", "PROCESSING"}

\* What a row and every copy of it count was tried, the publish of the record
\* a publisher is at included.
CountInv ==
    /\ \A e \in Events :
         /\ status[e] \in {"none", "NEW", "PROCESSING"}
              => retry_count[e] < MaxAttempts
         /\ retry_count[e] <= tries[e]
    /\ \A p \in Publishers : \A e \in Batch(p) :
         /\ held[p][e] <= tries[e]
         /\ pc[p] \in {"mark", "retry"} /\ e = Current(p)
              => held[p][e] < tries[e]

\* The broker has the event that is about to be marked.
MarkInv == \A p \in Publishers : pc[p] = "mark" => Current(p) \in sent

\* What a purge is about to delete was written and the broker has it, whatever
\* the row says by now.
DoomedInv ==
    \A p \in Publishers : \A e \in doomed[p] : e \in sent /\ status[e] # "none"

RelayInv ==
    /\ TypeOK
    /\ BatchInv
    /\ LockInv
    /\ CountInv
    /\ MarkInv
    /\ DoomedInv
    /\ SettledWasSent
    /\ FailedWasTried
    /\ NothingStranded

\* With timely holders a row in a batch is as its claim left it, unless a lost
\* reply settled it behind the back of the publisher that is at it, or let a
\* purge delete it that had found it before.
HeldOK(p, e) ==
    /\ held[p][e] = retry_count[e]
    /\ pc[p] \in Working =>
         \/ status[e] = "PROCESSING" /\ claimed_at[e] = "fresh"
         \/ LostReplies /\ status[e] = "purged"
         \/ /\ LostReplies /\ pc[p] = "retry" /\ e = Current(p)
            /\ status[e] = "PROCESSED"

HeldInv == \A p \in Publishers : \A e \in Batch(p) : HeldOK(p, e)

\* Only a lost reply lets a row that is stamped published_at be released.
UnpublishedInv ==
    \A e \in Events :
        ~ LostReplies /\ status[e] \in {"none", "NEW", "PROCESSING", "FAILED"}
            => published_at[e] = None

\* Publisher p is between a publish of row e and what it makes of it.
At(p, e) == pc[p] \in {"mark", "retry"} /\ e \in Batch(p) /\ e = Current(p)
InFlight(e) == \E p \in Publishers : At(p, e)

\* Row e is in a batch and its publish is still to come.
Waiting(e) == \E p \in Publishers : e \in Batch(p) /\ ~ At(p, e)

\* A publish was counted, is about to be, was the last or cost a fault.
Budget(e) ==
    /\ status[e] = "purged" =>
         /\ tries[e] <= MaxAttempts + faults
         /\ Waiting(e) => tries[e] < MaxAttempts + faults
    /\ status[e] # "purged" =>
         IF status[e] = "PROCESSED" \/ InFlight(e)
           THEN /\ retry_count[e] < MaxAttempts
                /\ tries[e] <= retry_count[e] + 1 + faults
           ELSE tries[e] <= retry_count[e] + faults

BudgetInv == \A e \in Events : Budget(e)

\* Only a lost reply lets a row be released that a purge has found.
DoomedSettled ==
    ~ LostReplies => \A p \in Publishers : \A e \in doomed[p] :
                       status[e] \in {"PROCESSED", "purged"}

HoldersInv ==
    RelayInv /\ HeldInv /\ ClaimsExclusive /\ UnpublishedInv /\ BudgetInv

TimelyInv == HoldersInv /\ DoomedSettled

-------------------------------------------------------------------------------
(***************************************************************************)
(* Operators.                                                              *)
(***************************************************************************)

\* A set of natural numbers that is not empty has a least element.
LEMMA Least ==
    ASSUME NEW S \in SUBSET Nat, S # {}
    PROVE  \E m \in S : \A k \in S : m <= k
<1>1. PICK m \in S : \A k \in S : <<k, m>> \notin OpToRel(<, Nat)
  BY WFMin, NatLessThanWellFounded, Zenon
<1>2. \A k \in S : ~ (k < m)
  BY <1>1 DEF OpToRel
<1>3. \A k \in S : m <= k
  BY <1>2
<1> QED
  BY <1>3

\* The record a publisher is at is one of its batch.
LEMMA CurrentInBatch ==
    ASSUME NEW p \in Publishers, Batch(p) # {}
    PROVE  Current(p) \in Batch(p) /\ Current(p) \in Events
<1>1. Batch(p) \in SUBSET Nat
  BY RelayAssumption DEF Batch
<1>2. \E e \in Batch(p) : \A f \in Batch(p) : e <= f
  BY <1>1, Least
<1>3. Current(p) \in Batch(p)
  BY <1>2 DEF Current
<1> QED
  BY <1>3 DEF Batch

\* A claim returns only rows that may be claimed and that nobody has locked.
LEMMA SelectedClaimable ==
    \A e \in Selected : e \in Events /\ Claimable(e) /\ locked[e] = None
  BY DEF Selected, First

\* A publisher whose copies stay the same has the same batch and is at the
\* same record.
LEMMA SameBatch ==
    ASSUME NEW p \in Publishers, held'[p] = held[p]
    PROVE  Batch(p)' = Batch(p) /\ Current(p)' = Current(p)
<1>1. Batch(p)' = Batch(p)
  BY DEF Batch
<1> QED
  BY <1>1 DEF Current

-------------------------------------------------------------------------------
(***************************************************************************)
(* Every step keeps RelayInv.                                              *)
(***************************************************************************)

\* The migrated table and idle publishers satisfy RelayInv.
LEMMA InitRelayInv == ASSUME Init PROVE RelayInv
<1>1. \A p \in Publishers : Batch(p) = {}
  BY DEF Init, Batch
<1>2. TypeOK
  BY RelayAssumption DEF Init, TypeOK, OutboxStatus, Upgraded
<1>3. BatchInv
  BY <1>1 DEF Init, BatchInv, Working
<1>4. LockInv
  BY <1>1, RelayAssumption DEF Init, LockInv
<1>5. CountInv
  BY <1>1, RelayAssumption DEF Init, CountInv
<1>6. MarkInv /\ DoomedInv
  BY DEF Init, MarkInv, DoomedInv
<1>7. SettledWasSent /\ FailedWasTried /\ NothingStranded
  BY DEF Init, SettledWasSent, FailedWasTried, NothingStranded, Upgraded
<1> QED
  BY <1>2, <1>3, <1>4, <1>5, <1>6, <1>7 DEF RelayInv

\* A step that finds nothing more to delete keeps what is said of it.
LEMMA DoomedKept ==
    ASSUME RelayInv, sent' = sent \/ sent \subseteq sent',
           \A p \in Publishers : doomed'[p] = doomed[p] \/ doomed'[p] = {},
           \A e \in Events : status[e] # "none" => status'[e] # "none"
    PROVE  DoomedInv'
<1>1. \A p \in Publishers : doomed[p] \subseteq Events
  BY DEF RelayInv, TypeOK
<1> QED
  BY <1>1 DEF RelayInv, DoomedInv

\* A row is written or time passes: no publisher moves.
LEMMA RowStep ==
    ASSUME RelayInv, NEW e \in Events,
           \/ Add(e) \/ ClaimTimesOut(e) \/ BackoffElapses(e)
           \/ RetentionElapses(e)
    PROVE  RelayInv'
<1> USE DEF Add, ClaimTimesOut, BackoffElapses, RetentionElapses, history
<1>1. /\ UNCHANGED <<retry_count, locked, pc, held, doomed, sent, tries,
                   faults>>
      /\ \A f \in Events : status'[f] # status[f] =>
           status[f] = "none" /\ status'[f] = "NEW"
  BY DEF RelayInv, TypeOK
<1>2. \A p \in Publishers : Batch(p)' = Batch(p) /\ Current(p)' = Current(p)
  BY <1>1, SameBatch
<1>3. TypeOK'
  <2>1. /\ status' \in [Events -> OutboxStatus]
        /\ claimed_at' \in [Events -> {None, "fresh", "stale"}]
        /\ available_at' \in [Events -> {None, "later", "due"}]
        /\ published_at' \in [Events -> {None, "recent", "old"}]
    BY DEF RelayInv, TypeOK, OutboxStatus
  <2> HIDE DEF Add, ClaimTimesOut, BackoffElapses, RetentionElapses, history
  <2> QED
    BY <1>1, <2>1 DEF RelayInv, TypeOK
<1>4. BatchInv'
  BY <1>1, <1>2 DEF RelayInv, BatchInv
<1>5. LockInv'
  BY <1>1, <1>2 DEF RelayInv, LockInv
<1>6. CountInv'
  BY <1>1, <1>2 DEF RelayInv, CountInv
<1>7. MarkInv' /\ DoomedInv'
  BY <1>1, <1>2, DoomedKept DEF RelayInv, MarkInv
<1>8. SettledWasSent'
  <2>1. \A f \in Events : published_at'[f] # None => published_at[f] # None
    BY RelayAssumption DEF RelayInv, TypeOK
  <2> QED
    BY <1>1, <2>1 DEF RelayInv, SettledWasSent
<1>9. FailedWasTried'
  BY <1>1 DEF RelayInv, FailedWasTried
<1>10. NothingStranded'
  BY RelayAssumption DEF RelayInv, TypeOK, NothingStranded
<1> QED
  BY <1>3, <1>4, <1>5, <1>6, <1>7, <1>8, <1>9, <1>10 DEF RelayInv

\* A claim that selects rows, or finds none, keeps RelayInv.
LEMMA ClaimSelectInv ==
    ASSUME RelayInv, NEW p \in Publishers, ClaimSelect(p) PROVE RelayInv'
<1> USE DEF ClaimSelect, row, history
<1>1. \A q \in Publishers : q # p => held'[q] = held[q] /\ pc'[q] = pc[q]
  BY DEF RelayInv, TypeOK
<1>2. \A q \in Publishers : q # p => Batch(q)' = Batch(q) /\ Current(q)' = Current(q)
  BY <1>1, SameBatch
<1>3. Batch(p) = {}
  BY DEF RelayInv, BatchInv, Working
<1>4. CASE Selected = {}
  <2>1. held' = held /\ locked' = locked /\ pc'[p] = "purge" /\ Batch(p)' = {}
    BY <1>3, <1>4, SameBatch DEF RelayInv, TypeOK
  <2>2. TypeOK'
    BY <1>4 DEF RelayInv, TypeOK
  <2>3. BatchInv'
    BY <1>1, <1>2, <2>1 DEF RelayInv, BatchInv, Working
  <2>4. LockInv'
    BY <1>1, <1>2, <1>3, <2>1 DEF RelayInv, LockInv
  <2>5. CountInv'
    BY <1>1, <1>2, <2>1 DEF RelayInv, CountInv
  <2>6. MarkInv' /\ DoomedInv'
    BY <1>1, <1>2, <2>1 DEF RelayInv, MarkInv, DoomedInv
  <2> QED
    BY <2>2, <2>3, <2>4, <2>5, <2>6
    DEF RelayInv, SettledWasSent, FailedWasTried, NothingStranded
<1>5. CASE Selected # {}
  <2>1. /\ pc'[p] = "claimed"
        /\ \A e \in Events : held'[p][e] = IF e \in Selected THEN retry_count[e]
                                                             ELSE None
        /\ \A e \in Events : locked'[e] = IF e \in Selected THEN p ELSE locked[e]
    BY <1>5 DEF RelayInv, TypeOK
  <2>2. \A e \in Selected : /\ e \in Events
                            /\ status[e] \in {"NEW", "PROCESSING"}
                            /\ locked[e] = None
                            /\ retry_count[e] \in 0 .. MaxAttempts - 1
    <3>1. \A e \in Selected : /\ e \in Events
                              /\ status[e] \in {"NEW", "PROCESSING"}
                              /\ locked[e] = None
      BY SelectedClaimable DEF Claimable
    <3>2. \A e \in Selected : retry_count[e] < MaxAttempts
      BY <3>1 DEF RelayInv, CountInv
    <3>3. \A e \in Events : retry_count[e] \in 0 .. MaxAttempts
      BY DEF RelayInv, TypeOK
    <3>4. MaxAttempts \in Nat
      BY RelayAssumption
    <3> HIDE DEF ClaimSelect
    <3> QED
      BY <3>1, <3>2, <3>3, <3>4
  <2>3. Batch(p)' = Selected
    BY <2>1, <2>2, RelayAssumption DEF Batch
  <2>4. TypeOK'
    <3>1. held' \in [Publishers -> [Events -> (0 .. MaxAttempts - 1) \cup {None}]]
      BY <1>5, <2>2 DEF RelayInv, TypeOK
    <3>2. locked' \in [Events -> Publishers \cup {None}]
      BY <1>5 DEF RelayInv, TypeOK
    <3> QED
      BY <1>5, <3>1, <3>2 DEF RelayInv, TypeOK
  <2>5. BatchInv'
    BY <1>1, <1>2, <1>5, <2>1, <2>3 DEF RelayInv, BatchInv
  <2>6. LockInv'
    <3>1. \A e \in Events : \A q \in Publishers :
            locked'[e] = q <=> pc'[q] = "claimed" /\ e \in Batch(q)'
      <4> SUFFICES ASSUME NEW e \in Events, NEW q \in Publishers
                   PROVE  locked'[e] = q <=> pc'[q] = "claimed" /\ e \in Batch(q)'
        OBVIOUS
      <4>1. CASE q = p
        BY <4>1, <1>3, <2>1, <2>3 DEF RelayInv, LockInv
      <4>2. CASE q # p /\ e \in Selected
        BY <4>2, <1>1, <1>2, <2>1, <2>2, RelayAssumption DEF RelayInv, LockInv
      <4>3. CASE q # p /\ e \notin Selected
        BY <4>3, <1>1, <1>2, <2>1 DEF RelayInv, LockInv
      <4> QED
        BY <4>1, <4>2, <4>3
    <3>2. \A e \in Events :
            locked'[e] # None => status'[e] \in {"NEW", "PROCESSING"}
      BY <2>1, <2>2 DEF RelayInv, LockInv
    <3> QED
      BY <3>1, <3>2 DEF LockInv
  <2>7. CountInv'
    BY <1>1, <1>2, <2>1, <2>2, <2>3 DEF RelayInv, CountInv
  <2>8. MarkInv' /\ DoomedInv'
    BY <1>1, <1>2, <2>1 DEF RelayInv, MarkInv, DoomedInv
  <2> QED
    BY <2>4, <2>5, <2>6, <2>7, <2>8
    DEF RelayInv, SettledWasSent, FailedWasTried, NothingStranded
<1> QED
  BY <1>4, <1>5

\* What happens to the batch of a publisher that gives it up.
LEMMA DropFacts ==
    ASSUME TypeOK, NEW p \in Publishers, Drop(p)
    PROVE  /\ pc'[p] = "claim" /\ Batch(p)' = {}
           /\ \A q \in Publishers : q # p => pc'[q] = pc[q] /\ held'[q] = held[q]
           /\ pc' \in [Publishers -> {"claim", "claimed", "publish", "mark",
                                      "retry", "purge", "delete"}]
           /\ held' \in [Publishers ->
                          [Events -> (0 .. MaxAttempts - 1) \cup {None}]]
  BY DEF Drop, Nobody, TypeOK, Batch

\* What happens to it when a record is done.
LEMMA AdvanceFacts ==
    ASSUME TypeOK, NEW p \in Publishers, Batch(p) # {}, Advance(p)
    PROVE  /\ Batch(p)' = Batch(p) \ {Current(p)}
           /\ \A e \in Batch(p)' : held'[p][e] = held[p][e]
           /\ pc'[p] = IF Batch(p)' = {} THEN "claim" ELSE "publish"
           /\ \A q \in Publishers : q # p => pc'[q] = pc[q] /\ held'[q] = held[q]
           /\ pc' \in [Publishers -> {"claim", "claimed", "publish", "mark",
                                      "retry", "purge", "delete"}]
           /\ held' \in [Publishers ->
                          [Events -> (0 .. MaxAttempts - 1) \cup {None}]]
<1> DEFINE c == Current(p)
<1>1. c \in Batch(p) /\ c \in Events
  BY CurrentInBatch
<1>2. /\ held' = [held EXCEPT ![p][c] = None]
      /\ pc' = [pc EXCEPT ![p] = IF Batch(p) \ {c} = {} THEN "claim" ELSE "publish"]
  BY DEF Advance
<1> HIDE DEF c
<1>3. \A e \in Events : held'[p][e] = IF e = c THEN None ELSE held[p][e]
  BY <1>1, <1>2 DEF TypeOK
<1>4. Batch(p)' = Batch(p) \ {c}
  BY <1>1, <1>3 DEF Batch
<1>5. \A e \in Batch(p)' : held'[p][e] = held[p][e]
  BY <1>3, <1>4 DEF Batch
<1>6. held' \in [Publishers -> [Events -> (0 .. MaxAttempts - 1) \cup {None}]]
  BY <1>1, <1>2 DEF TypeOK
<1>7. \A q \in Publishers : q # p => pc'[q] = pc[q] /\ held'[q] = held[q]
  BY <1>2 DEF TypeOK
<1>8. pc'[p] = IF Batch(p)' = {} THEN "claim" ELSE "publish"
  BY <1>2, <1>4 DEF TypeOK
<1>9. pc' \in [Publishers -> {"claim", "claimed", "publish", "mark",
                              "retry", "purge", "delete"}]
  BY <1>2 DEF TypeOK
<1> QED
  BY <1>4, <1>5, <1>6, <1>7, <1>8, <1>9 DEF c

(***************************************************************************)
(* What a step of publisher p owes to the parts of RelayInv that are about *)
(* batches, when it publishes nothing: it keeps its batch or drops some of *)
(* it, and moves on accordingly.                                           *)
(***************************************************************************)
LEMMA MoveKeeps ==
    ASSUME RelayInv, NEW p \in Publishers,
           \A q \in Publishers : q # p => pc'[q] = pc[q] /\ held'[q] = held[q],
           UNCHANGED <<sent, tries>>,
           Batch(p)' \subseteq Batch(p),
           \A e \in Batch(p)' : held'[p][e] = held[p][e],
           pc'[p] \in {"claim", "publish", "retry"},
           Batch(p)' = {} <=> pc'[p] = "claim",
           pc'[p] = "retry" => pc[p] \in {"mark", "retry"} /\ held'[p] = held[p],
           \A e \in Events :
               /\ retry_count'[e] <= tries[e]
               /\ status'[e] \in {"none", "NEW", "PROCESSING"}
                    => retry_count'[e] < MaxAttempts
    PROVE  BatchInv' /\ CountInv' /\ MarkInv'
<1>1. \A q \in Publishers : q # p => Batch(q)' = Batch(q) /\ Current(q)' = Current(q)
  BY SameBatch
<1>2. BatchInv'
  BY <1>1 DEF RelayInv, BatchInv, Working
<1>3. MarkInv'
  BY <1>1 DEF RelayInv, MarkInv
<1>4. \A q \in Publishers : \A e \in Batch(q)' :
        /\ held'[q][e] <= tries'[e]
        /\ pc'[q] \in {"mark", "retry"} /\ e = Current(q)'
             => held'[q][e] < tries'[e]
  <2> SUFFICES ASSUME NEW q \in Publishers, NEW e \in Batch(q)'
               PROVE  /\ held'[q][e] <= tries'[e]
                      /\ pc'[q] \in {"mark", "retry"} /\ e = Current(q)'
                           => held'[q][e] < tries'[e]
    OBVIOUS
  <2>1. CASE q # p
    BY <2>1, <1>1 DEF RelayInv, CountInv
  <2>2. CASE q = p /\ pc'[p] # "retry"
    BY <2>2 DEF RelayInv, CountInv
  <2>3. CASE q = p /\ pc'[p] = "retry"
    <3>1. Current(p)' = Current(p)
      BY <2>3, SameBatch
    <3> QED
      BY <2>3, <3>1 DEF RelayInv, CountInv
  <2> QED
    BY <2>1, <2>2, <2>3
<1>5. CountInv'
  BY <1>4 DEF CountInv
<1> QED
  BY <1>2, <1>3, <1>5

\* The locks of a claim end with it.
LEMMA UnlockKeeps ==
    ASSUME RelayInv, NEW p \in Publishers, Unlock(p),
           \A q \in Publishers : q # p => pc'[q] = pc[q] /\ held'[q] = held[q],
           pc'[p] # "claimed",
           \A e \in Events : locked[e] # None /\ locked[e] # p
               => status'[e] = status[e]
    PROVE  LockInv' /\ locked' \in [Events -> Publishers \cup {None}]
<1>1. \A e \in Events : locked'[e] = IF locked[e] = p THEN None ELSE locked[e]
  BY DEF Unlock
<1>2. \A q \in Publishers : q # p => Batch(q)' = Batch(q)
  BY SameBatch
<1>3. \A e \in Events : \A q \in Publishers :
        locked'[e] = q <=> pc'[q] = "claimed" /\ e \in Batch(q)'
  BY <1>1, <1>2, RelayAssumption DEF RelayInv, LockInv
<1>4. \A e \in Events : locked'[e] # None => status'[e] \in {"NEW", "PROCESSING"}
  BY <1>1 DEF RelayInv, LockInv
<1>5. locked' \in [Events -> Publishers \cup {None}]
  BY DEF RelayInv, TypeOK, Unlock
<1> QED
  BY <1>3, <1>4, <1>5 DEF LockInv

\* The rows a claim is about to take are as it found them.
LEMMA ClaimedRows ==
    ASSUME RelayInv, NEW p \in Publishers, pc[p] = "claimed"
    PROVE  \A e \in Batch(p) : /\ e \in Events /\ locked[e] = p
                               /\ status[e] \in {"NEW", "PROCESSING"}
                               /\ retry_count[e] < MaxAttempts
<1>1. \A e \in Batch(p) : e \in Events /\ locked[e] = p
  BY DEF RelayInv, LockInv, Batch
<1>2. p # None
  BY RelayAssumption
<1>3. \A e \in Batch(p) : status[e] \in {"NEW", "PROCESSING"}
  BY <1>1, <1>2 DEF RelayInv, LockInv
<1> QED
  BY <1>1, <1>3 DEF RelayInv, CountInv

\* The commit of a claim keeps RelayInv, whether it succeeds, fails or only
\* seems to fail.
LEMMA ClaimCommitInv ==
    ASSUME RelayInv, NEW p \in Publishers, ClaimCommit(p) PROVE RelayInv'
<1>1. TypeOK
  BY DEF RelayInv
<1>2. /\ UNCHANGED <<retry_count, published_at, doomed, sent, tries>>
      /\ faults' \in 0 .. MaxFaults
      /\ \/ UNCHANGED row
         \/ MarkClaimed(p)
  BY <1>1, RelayAssumption DEF ClaimCommit, MarkClaimed, Fault, row, history, TypeOK
<1>3. /\ \A q \in Publishers : q # p => pc'[q] = pc[q] /\ held'[q] = held[q]
      /\ \/ pc'[p] = "claim" /\ Batch(p)' = {}
         \/ pc'[p] = "publish" /\ held' = held
      /\ pc' \in [Publishers -> {"claim", "claimed", "publish", "mark",
                                 "retry", "purge", "delete"}]
      /\ held' \in [Publishers -> [Events -> (0 .. MaxAttempts - 1) \cup {None}]]
  <2>1. CASE Drop(p)
    BY <2>1, <1>1, DropFacts
  <2>2. CASE pc' = [pc EXCEPT ![p] = "publish"] /\ held' = held
    BY <2>2, <1>1 DEF TypeOK
  <2> QED
    BY <2>1, <2>2 DEF ClaimCommit
<1>4. /\ pc[p] = "claimed" /\ Batch(p) # {} /\ Unlock(p)
  BY DEF ClaimCommit, RelayInv, BatchInv
<1>5. \A e \in Events :
        \/ /\ status'[e] = status[e]
           /\ claimed_at'[e] = claimed_at[e]
           /\ available_at'[e] = available_at[e]
        \/ /\ e \in Batch(p)
           /\ status'[e] = "PROCESSING"
           /\ claimed_at'[e] = "fresh"
           /\ available_at'[e] = None
  BY <1>2 DEF MarkClaimed, row
<1>6. \A e \in Batch(p) : /\ e \in Events /\ locked[e] = p
                          /\ status[e] \in {"NEW", "PROCESSING"}
                          /\ retry_count[e] < MaxAttempts
  BY <1>4, ClaimedRows
<1>7. LockInv' /\ locked' \in [Events -> Publishers \cup {None}]
  <2>1. \A e \in Events : locked[e] # None /\ locked[e] # p
          => status'[e] = status[e]
    BY <1>5, <1>6
  <2>2. pc'[p] # "claimed"
    BY <1>3
  <2> QED
    BY <1>3, <1>4, <2>1, <2>2, UnlockKeeps
<1>8. TypeOK'
  <2>1. CASE UNCHANGED row
    BY <2>1, <1>1, <1>2, <1>3, <1>7 DEF TypeOK, row
  <2>2. CASE MarkClaimed(p)
    BY <2>2, <1>1, <1>2, <1>3, <1>7 DEF TypeOK, MarkClaimed, OutboxStatus
  <2> QED
    BY <1>2, <2>1, <2>2
<1>9. BatchInv' /\ CountInv' /\ MarkInv'
  <2>1. /\ Batch(p)' \subseteq Batch(p)
        /\ \A e \in Batch(p)' : held'[p][e] = held[p][e]
        /\ Batch(p)' = {} <=> pc'[p] = "claim"
        /\ pc'[p] \in {"claim", "publish"}
    BY <1>3, <1>4, SameBatch
  <2>2. \A e \in Events :
          /\ retry_count'[e] <= tries[e]
          /\ status'[e] \in {"none", "NEW", "PROCESSING"}
               => retry_count'[e] < MaxAttempts
    BY <1>2, <1>5, <1>6 DEF RelayInv, CountInv
  <2> QED
    BY <1>2, <1>3, <2>1, <2>2, MoveKeeps
<1>10. SettledWasSent' /\ FailedWasTried'
  BY <1>2, <1>5 DEF RelayInv, SettledWasSent, FailedWasTried
<1>11. NothingStranded'
  BY <1>5, RelayAssumption DEF RelayInv, NothingStranded
<1>12. DoomedInv'
  BY <1>2, <1>5, DoomedKept
<1> QED
  BY <1>7, <1>8, <1>9, <1>10, <1>11, <1>12 DEF RelayInv

\* A publish keeps RelayInv, whether it succeeds, fails or only seems to fail.
LEMMA PublishInv ==
    ASSUME RelayInv, NEW p \in Publishers, Publish(p) PROVE RelayInv'
<1> DEFINE c == Current(p)
<1>1. TypeOK
  BY DEF RelayInv
<1>2. c \in Batch(p) /\ c \in Events
  BY CurrentInBatch DEF Publish, RelayInv, BatchInv, Working
<1>3. /\ UNCHANGED <<row, locked, held, doomed, faults>>
      /\ pc[p] = "publish"
      /\ tries' = [tries EXCEPT ![c] = @ + 1]
      /\ sent' = sent \cup {c} \/ sent' = sent
      /\ \/ pc' = [pc EXCEPT ![p] = "mark"] /\ c \in sent'
         \/ pc' = [pc EXCEPT ![p] = "retry"]
  BY DEF Publish
<1>4. \A q \in Publishers : Batch(q)' = Batch(q) /\ Current(q)' = Current(q)
  BY <1>3, SameBatch
<1> HIDE DEF c
<1>5. \A q \in Publishers : q # p => pc'[q] = pc[q]
  BY <1>1, <1>3 DEF TypeOK
<1>6. pc'[p] \in {"mark", "retry"} /\ (pc'[p] = "mark" => c \in sent')
  BY <1>1, <1>3 DEF TypeOK
<1>7. \A e \in Events : tries'[e] = IF e = c THEN tries[e] + 1 ELSE tries[e]
  BY <1>1, <1>2, <1>3 DEF TypeOK
<1>8. \A e \in Events : tries[e] \in Nat /\ retry_count[e] \in Nat
  BY <1>1, RelayAssumption DEF TypeOK
<1>9. TypeOK'
  BY <1>1, <1>2, <1>3 DEF TypeOK, row
<1>10. BatchInv'
  BY <1>2, <1>3, <1>4, <1>5, <1>6 DEF RelayInv, BatchInv, Working
<1>11. LockInv'
  BY <1>3, <1>4, <1>5, <1>6 DEF RelayInv, LockInv, row
<1>12. CountInv'
  <2>1. \A e \in Events :
          /\ status'[e] \in {"none", "NEW", "PROCESSING"}
               => retry_count'[e] < MaxAttempts
          /\ retry_count'[e] <= tries'[e]
    BY <1>3, <1>7, <1>8 DEF RelayInv, CountInv, row
  <2>2. \A q \in Publishers : \A e \in Batch(q) :
          /\ held[q][e] \in Nat
          /\ e \in Events
    BY <1>1, RelayAssumption DEF TypeOK, Batch
  <2>3. ASSUME NEW q \in Publishers, NEW e \in Batch(q)
        PROVE  /\ held[q][e] <= tries'[e]
               /\ pc'[q] \in {"mark", "retry"} /\ e = Current(q)
                    => held[q][e] < tries'[e]
    <3>1. held[q][e] \in Nat /\ e \in Events /\ tries[e] \in Nat
      BY <2>2, <1>8
    <3>2. held[q][e] <= tries[e]
      BY DEF RelayInv, CountInv
    <3>3. CASE q = p
      BY <3>1, <3>2, <3>3, <1>7 DEF c
    <3>4. CASE q # p
      BY <3>1, <3>2, <3>4, <1>5, <1>7 DEF RelayInv, CountInv
    <3> QED
      BY <3>3, <3>4
  <2> QED
    BY <1>3, <1>4, <2>1, <2>3 DEF CountInv
<1>13. MarkInv'
  BY <1>3, <1>4, <1>5, <1>6 DEF RelayInv, MarkInv, c
<1>14. SettledWasSent' /\ DoomedInv'
  BY <1>3 DEF RelayInv, SettledWasSent, DoomedInv, row
<1>15. FailedWasTried'
  BY <1>3, <1>7, <1>8, RelayAssumption DEF RelayInv, FailedWasTried, row
<1>16. NothingStranded'
  BY <1>3 DEF RelayInv, NothingStranded, row
<1> QED
  BY <1>9, <1>10, <1>11, <1>12, <1>13, <1>14, <1>15, <1>16 DEF RelayInv

\* A step that neither locks nor unlocks, of a publisher that has no locks,
\* and that leaves locked rows alone.
LEMMA LocksStay ==
    ASSUME RelayInv, NEW p \in Publishers, UNCHANGED locked,
           \A q \in Publishers : q # p => pc'[q] = pc[q] /\ held'[q] = held[q],
           pc[p] # "claimed", pc'[p] # "claimed",
           \A e \in Events : locked[e] # None => status'[e] = status[e]
    PROVE  LockInv'
<1>1. \A q \in Publishers : q # p => Batch(q)' = Batch(q)
  BY SameBatch
<1>2. \A e \in Events : \A q \in Publishers :
        locked'[e] = q <=> pc'[q] = "claimed" /\ e \in Batch(q)'
  BY <1>1 DEF RelayInv, LockInv
<1>3. \A e \in Events : locked'[e] # None => status'[e] \in {"NEW", "PROCESSING"}
  BY DEF RelayInv, LockInv
<1> QED
  BY <1>2, <1>3 DEF LockInv

\* How a publisher ends its step: with the next record, with a retry of the
\* same one, or without its batch.
LEMMA MoveFacts ==
    ASSUME RelayInv, NEW p \in Publishers, pc[p] \in {"mark", "retry"},
           \/ Advance(p)
           \/ Drop(p)
           \/ pc' = [pc EXCEPT ![p] = "retry"] /\ UNCHANGED held
    PROVE  /\ \A q \in Publishers : q # p => pc'[q] = pc[q] /\ held'[q] = held[q]
           /\ Batch(p)' \subseteq Batch(p)
           /\ \A e \in Batch(p)' : held'[p][e] = held[p][e]
           /\ pc'[p] \in {"claim", "publish", "retry"}
           /\ Batch(p)' = {} <=> pc'[p] = "claim"
           /\ pc'[p] = "retry" => held'[p] = held[p]
           /\ pc' \in [Publishers -> {"claim", "claimed", "publish", "mark",
                                      "retry", "purge", "delete"}]
           /\ held' \in [Publishers ->
                          [Events -> (0 .. MaxAttempts - 1) \cup {None}]]
<1>1. TypeOK /\ Batch(p) # {}
  BY DEF RelayInv, BatchInv, Working
<1>2. CASE Advance(p)
  BY <1>1, <1>2, AdvanceFacts
<1>3. CASE Drop(p)
  BY <1>1, <1>3, DropFacts
<1>4. CASE pc' = [pc EXCEPT ![p] = "retry"] /\ UNCHANGED held
  <2>1. Batch(p)' = Batch(p)
    BY <1>4, SameBatch
  <2> QED
    BY <1>1, <1>4, <2>1 DEF TypeOK
<1> QED
  BY <1>2, <1>3, <1>4

\* mark_processed settles one row that exists, or nothing.
LEMMA SetProcessedFacts ==
    ASSUME TypeOK, NEW c \in Events, SetProcessed(c) \/ UNCHANGED row
    PROVE  /\ status' \in [Events -> OutboxStatus]
           /\ claimed_at' \in [Events -> {None, "fresh", "stale"}]
           /\ available_at' \in [Events -> {None, "later", "due"}]
           /\ published_at' \in [Events -> {None, "recent", "old"}]
           /\ UNCHANGED retry_count
           /\ \A e \in Events :
                \/ /\ status'[e] = status[e]
                   /\ claimed_at'[e] = claimed_at[e]
                   /\ available_at'[e] = available_at[e]
                   /\ published_at'[e] = published_at[e]
                \/ /\ e = c /\ status'[e] = "PROCESSED"
                   /\ claimed_at'[e] = None /\ available_at'[e] = None
<1>1. CASE UNCHANGED row
  BY <1>1 DEF TypeOK, row
<1>2. CASE Exists(c) /\ SetProcessed(c)
  <2>1. /\ status' = [status EXCEPT ![c] = "PROCESSED"]
        /\ published_at' = [published_at EXCEPT ![c] = "recent"]
        /\ claimed_at' = [claimed_at EXCEPT ![c] = None]
        /\ available_at' = [available_at EXCEPT ![c] = None]
        /\ UNCHANGED retry_count
    BY <1>2 DEF SetProcessed
  <2> QED
    BY <2>1 DEF TypeOK, OutboxStatus
<1>3. CASE ~ Exists(c) /\ SetProcessed(c)
  BY <1>3, <1>1 DEF SetProcessed
<1> QED
  BY <1>1, <1>2, <1>3

\* mark_processed keeps RelayInv: what it settles is what the broker has.
LEMMA MarkProcessedInv ==
    ASSUME RelayInv, NEW p \in Publishers, MarkProcessed(p) PROVE RelayInv'
<1> DEFINE c == Current(p)
<1>1. TypeOK /\ pc[p] = "mark" /\ locked[c] = None /\ UNCHANGED locked
  BY DEF RelayInv, MarkProcessed
<1>2. c \in Batch(p) /\ c \in Events /\ c \in sent
  BY <1>1, CurrentInBatch DEF RelayInv, BatchInv, MarkInv, Working
<1>3. /\ SetProcessed(c) \/ UNCHANGED row
      /\ UNCHANGED <<doomed, sent, tries>>
      /\ faults' \in 0 .. MaxFaults
      /\ Advance(p) \/ (pc' = [pc EXCEPT ![p] = "retry"] /\ UNCHANGED held)
  BY <1>1, RelayAssumption DEF MarkProcessed, Fault, history, TypeOK
<1> HIDE DEF c
<1>4. /\ \A q \in Publishers : q # p => pc'[q] = pc[q] /\ held'[q] = held[q]
      /\ Batch(p)' \subseteq Batch(p)
      /\ \A e \in Batch(p)' : held'[p][e] = held[p][e]
      /\ pc'[p] \in {"claim", "publish", "retry"}
      /\ Batch(p)' = {} <=> pc'[p] = "claim"
      /\ pc'[p] = "retry" => held'[p] = held[p]
      /\ pc' \in [Publishers -> {"claim", "claimed", "publish", "mark",
                                 "retry", "purge", "delete"}]
      /\ held' \in [Publishers -> [Events -> (0 .. MaxAttempts - 1) \cup {None}]]
  BY <1>1, <1>3, MoveFacts
<1>5. /\ status' \in [Events -> OutboxStatus]
      /\ claimed_at' \in [Events -> {None, "fresh", "stale"}]
      /\ available_at' \in [Events -> {None, "later", "due"}]
      /\ published_at' \in [Events -> {None, "recent", "old"}]
      /\ UNCHANGED retry_count
      /\ \A e \in Events :
           \/ /\ status'[e] = status[e]
              /\ claimed_at'[e] = claimed_at[e]
              /\ available_at'[e] = available_at[e]
              /\ published_at'[e] = published_at[e]
           \/ /\ e = c /\ status'[e] = "PROCESSED"
              /\ claimed_at'[e] = None /\ available_at'[e] = None
  BY <1>1, <1>2, <1>3, SetProcessedFacts
<1>6. TypeOK'
  BY <1>1, <1>3, <1>4, <1>5 DEF TypeOK
<1>7. LockInv'
  <2>1. \A e \in Events : locked[e] # None => status'[e] = status[e]
    BY <1>1, <1>5
  <2> QED
    BY <1>1, <1>4, <2>1, LocksStay
<1>8. BatchInv' /\ CountInv' /\ MarkInv'
  <2>1. \A e \in Events :
          /\ retry_count'[e] <= tries[e]
          /\ status'[e] \in {"none", "NEW", "PROCESSING"}
               => retry_count'[e] < MaxAttempts
    BY <1>5 DEF RelayInv, CountInv
  <2> QED
    BY <1>1, <1>3, <1>4, <2>1, MoveKeeps
<1>9. SettledWasSent' /\ FailedWasTried' /\ NothingStranded'
  BY <1>2, <1>3, <1>5
  DEF RelayInv, SettledWasSent, FailedWasTried, NothingStranded
<1>10. DoomedInv'
  BY <1>3, <1>5, DoomedKept
<1> QED
  BY <1>6, <1>7, <1>8, <1>9, <1>10 DEF RelayInv

\* release gives a row that exists back or up, or does nothing.
LEMMA ReleaseFacts ==
    ASSUME TypeOK, NEW c \in Events, NEW n \in 1 .. MaxAttempts,
           Release(c, n) \/ UNCHANGED row
    PROVE  /\ status' \in [Events -> OutboxStatus]
           /\ retry_count' \in [Events -> 0 .. MaxAttempts]
           /\ claimed_at' \in [Events -> {None, "fresh", "stale"}]
           /\ available_at' \in [Events -> {None, "later", "due"}]
           /\ UNCHANGED published_at
           /\ \A e \in Events :
                \/ /\ status'[e] = status[e]
                   /\ claimed_at'[e] = claimed_at[e]
                   /\ available_at'[e] = available_at[e]
                   /\ retry_count'[e] = retry_count[e]
                \/ /\ e = c /\ claimed_at'[e] = None /\ retry_count'[e] = n
                   /\ \/ /\ n < MaxAttempts /\ status'[e] = "NEW"
                         /\ available_at'[e] = "later"
                      \/ /\ n = MaxAttempts /\ status'[e] = "FAILED"
                         /\ available_at'[e] = None
<1>1. n \in 0 .. MaxAttempts /\ (n < MaxAttempts \/ n = MaxAttempts)
      /\ ~ (MaxAttempts < MaxAttempts)
  BY RelayAssumption
<1>2. CASE UNCHANGED row
  BY <1>2 DEF TypeOK, row
<1>3. CASE Exists(c) /\ Release(c, n)
  <2>1. /\ status' = [status EXCEPT
               ![c] = IF n < MaxAttempts THEN "NEW" ELSE "FAILED"]
        /\ available_at' = [available_at EXCEPT
               ![c] = IF n < MaxAttempts THEN "later" ELSE None]
        /\ retry_count' = [retry_count EXCEPT ![c] = n]
        /\ claimed_at' = [claimed_at EXCEPT ![c] = None]
        /\ UNCHANGED published_at
    BY <1>3 DEF Release
  <2>2. /\ status' \in [Events -> OutboxStatus]
        /\ available_at' \in [Events -> {None, "later", "due"}]
    BY <2>1 DEF TypeOK, OutboxStatus
  <2>3. /\ retry_count' \in [Events -> 0 .. MaxAttempts]
        /\ claimed_at' \in [Events -> {None, "fresh", "stale"}]
    BY <1>1, <2>1 DEF TypeOK
  <2>4. \A e \in Events : e # c => /\ status'[e] = status[e]
                                  /\ claimed_at'[e] = claimed_at[e]
                                  /\ available_at'[e] = available_at[e]
                                  /\ retry_count'[e] = retry_count[e]
    BY <2>1 DEF TypeOK
  <2>5. /\ claimed_at'[c] = None /\ retry_count'[c] = n
        /\ status'[c] = IF n < MaxAttempts THEN "NEW" ELSE "FAILED"
        /\ available_at'[c] = IF n < MaxAttempts THEN "later" ELSE None
    BY <2>1 DEF TypeOK
  <2> QED
    BY <1>1, <2>1, <2>2, <2>3, <2>4, <2>5
<1>4. CASE ~ Exists(c) /\ Release(c, n)
  BY <1>4, <1>2 DEF Release
<1> QED
  BY <1>2, <1>3, <1>4

\* release keeps RelayInv: what it gives up was tried often enough.
LEMMA RetryOrFailInv ==
    ASSUME RelayInv, NEW p \in Publishers, RetryOrFail(p) PROVE RelayInv'
<1> DEFINE c == Current(p)
           n == held[p][c] + 1
<1>1. TypeOK /\ pc[p] = "retry" /\ locked[c] = None /\ UNCHANGED locked
  BY DEF RelayInv, RetryOrFail
<1>2. c \in Batch(p) /\ c \in Events
  BY <1>1, CurrentInBatch DEF RelayInv, BatchInv, Working
<1>3. /\ Release(c, n) \/ UNCHANGED row
      /\ UNCHANGED <<doomed, sent, tries>>
      /\ faults' \in 0 .. MaxFaults
      /\ Advance(p) \/ Drop(p)
  BY <1>1, RelayAssumption DEF RetryOrFail, Fault, history, TypeOK
<1>4. n \in 1 .. MaxAttempts /\ n <= tries[c]
  <2>1. held[p][c] \in 0 .. MaxAttempts - 1
    BY <1>1, <1>2 DEF TypeOK, Batch
  <2>2. held[p][c] < tries[c]
    BY <1>1, <1>2 DEF RelayInv, CountInv
  <2>3. tries[c] \in Nat
    BY <1>1, <1>2 DEF TypeOK
  <2> QED
    BY <2>1, <2>2, <2>3, RelayAssumption
<1> HIDE DEF c, n
<1>5. /\ \A q \in Publishers : q # p => pc'[q] = pc[q] /\ held'[q] = held[q]
      /\ Batch(p)' \subseteq Batch(p)
      /\ \A e \in Batch(p)' : held'[p][e] = held[p][e]
      /\ pc'[p] \in {"claim", "publish", "retry"}
      /\ Batch(p)' = {} <=> pc'[p] = "claim"
      /\ pc'[p] = "retry" => held'[p] = held[p]
      /\ pc' \in [Publishers -> {"claim", "claimed", "publish", "mark",
                                 "retry", "purge", "delete"}]
      /\ held' \in [Publishers -> [Events -> (0 .. MaxAttempts - 1) \cup {None}]]
  BY <1>1, <1>3, MoveFacts
<1>6. /\ status' \in [Events -> OutboxStatus]
      /\ retry_count' \in [Events -> 0 .. MaxAttempts]
      /\ claimed_at' \in [Events -> {None, "fresh", "stale"}]
      /\ available_at' \in [Events -> {None, "later", "due"}]
      /\ UNCHANGED published_at
      /\ \A e \in Events :
           \/ /\ status'[e] = status[e]
              /\ claimed_at'[e] = claimed_at[e]
              /\ available_at'[e] = available_at[e]
              /\ retry_count'[e] = retry_count[e]
           \/ /\ e = c /\ claimed_at'[e] = None /\ retry_count'[e] = n
              /\ \/ /\ n < MaxAttempts /\ status'[e] = "NEW"
                    /\ available_at'[e] = "later"
                 \/ /\ n = MaxAttempts /\ status'[e] = "FAILED"
                    /\ available_at'[e] = None
  BY <1>1, <1>2, <1>3, <1>4, ReleaseFacts
<1>7. TypeOK'
  BY <1>1, <1>3, <1>5, <1>6 DEF TypeOK
<1>8. LockInv'
  <2>1. \A e \in Events : locked[e] # None => status'[e] = status[e]
    BY <1>1, <1>6
  <2> QED
    BY <1>1, <1>5, <2>1, LocksStay
<1>9. BatchInv' /\ CountInv' /\ MarkInv'
  <2>1. \A e \in Events :
          /\ retry_count'[e] <= tries[e]
          /\ status'[e] \in {"none", "NEW", "PROCESSING"}
               => retry_count'[e] < MaxAttempts
    BY <1>4, <1>6 DEF RelayInv, CountInv
  <2> QED
    BY <1>1, <1>3, <1>5, <2>1, MoveKeeps
<1>10. SettledWasSent' /\ NothingStranded'
  BY <1>3, <1>6, RelayAssumption DEF RelayInv, SettledWasSent, NothingStranded
<1>11. FailedWasTried'
  BY <1>3, <1>4, <1>6 DEF RelayInv, FailedWasTried
<1>12. DoomedInv'
  BY <1>3, <1>6, DoomedKept
<1> QED
  BY <1>7, <1>8, <1>9, <1>10, <1>11, <1>12 DEF RelayInv

\* What a purge finds was written and sent.
LEMMA PurgeSelectInv ==
    ASSUME RelayInv, NEW p \in Publishers, PurgeSelect(p) PROVE RelayInv'
<1>1. TypeOK /\ pc[p] = "purge" /\ pc' = [pc EXCEPT ![p] = "delete"]
      /\ UNCHANGED <<status, retry_count, claimed_at, available_at,
                     published_at, locked, held, sent, tries, faults>>
  BY DEF RelayInv, PurgeSelect, row, history
<1>2. PICK S \in SUBSET Purgeable : doomed' = [doomed EXCEPT ![p] = S]
  BY DEF PurgeSelect
<1>3. \A e \in S : e \in Events /\ e \in sent /\ status[e] # "none"
  BY <1>2 DEF Purgeable, RelayInv, SettledWasSent
<1>4. \A q \in Publishers : Batch(q)' = Batch(q) /\ Current(q)' = Current(q)
  BY <1>1, SameBatch
<1>5. pc'[p] = "delete" /\ \A q \in Publishers : q # p => pc'[q] = pc[q]
  BY <1>1 DEF TypeOK
<1>6. TypeOK'
  BY <1>1, <1>2, <1>3 DEF TypeOK
<1>7. BatchInv' /\ MarkInv'
  BY <1>1, <1>4, <1>5 DEF RelayInv, BatchInv, MarkInv, Working
<1>8. LockInv'
  BY <1>1, <1>5, LocksStay
<1>9. CountInv'
  BY <1>1, <1>4, <1>5 DEF RelayInv, CountInv
<1>10. DoomedInv'
  BY <1>1, <1>2, <1>3 DEF RelayInv, TypeOK, DoomedInv
<1>11. SettledWasSent' /\ FailedWasTried' /\ NothingStranded'
  BY <1>1 DEF RelayInv, SettledWasSent, FailedWasTried, NothingStranded
<1> QED
  BY <1>6, <1>7, <1>8, <1>9, <1>10, <1>11 DEF RelayInv

\* What the DELETE of publisher p does to the table.
LEMMA PurgeDeleteFacts ==
    ASSUME TypeOK, NEW p \in Publishers, PurgeDelete(p)
    PROVE  /\ UNCHANGED <<retry_count, locked, held, sent, tries, faults>>
           /\ pc[p] = "delete" /\ pc'[p] = "claim"
           /\ \A q \in Publishers : q # p => pc'[q] = pc[q] /\ doomed'[q] = doomed[q]
           /\ doomed'[p] = {}
           /\ \A e \in doomed[p] :
                /\ e \in Events /\ locked[e] = None
                /\ status'[e] = "purged" /\ claimed_at'[e] = None
                /\ available_at'[e] = None /\ published_at'[e] = None
           /\ \A e \in Events : e \notin doomed[p] =>
                /\ status'[e] = status[e] /\ claimed_at'[e] = claimed_at[e]
                /\ available_at'[e] = available_at[e]
                /\ published_at'[e] = published_at[e]
           /\ TypeOK'
<1>1. /\ pc[p] = "delete" /\ pc' = [pc EXCEPT ![p] = "claim"]
      /\ doomed' = [doomed EXCEPT ![p] = {}]
      /\ \A e \in doomed[p] : locked[e] = None
      /\ UNCHANGED <<retry_count, locked, held, sent, tries, faults>>
  BY DEF PurgeDelete, history
<1>2. /\ status' = [e \in Events |->
                     IF e \in doomed[p] THEN "purged" ELSE status[e]]
      /\ claimed_at' = [e \in Events |->
                         IF e \in doomed[p] THEN None ELSE claimed_at[e]]
      /\ available_at' = [e \in Events |->
                           IF e \in doomed[p] THEN None ELSE available_at[e]]
      /\ published_at' = [e \in Events |->
                           IF e \in doomed[p] THEN None ELSE published_at[e]]
  BY DEF PurgeDelete
<1>3. doomed[p] \subseteq Events
  BY DEF TypeOK
<1>4. /\ pc'[p] = "claim" /\ doomed'[p] = {}
      /\ \A q \in Publishers : q # p => pc'[q] = pc[q] /\ doomed'[q] = doomed[q]
  BY <1>1 DEF TypeOK
<1>5. TypeOK'
  BY <1>1, <1>2 DEF TypeOK, OutboxStatus
<1> QED
  BY <1>1, <1>2, <1>3, <1>4, <1>5

\* What is deleted was sent, also when it was released since it was found.
LEMMA PurgeDeleteInv ==
    ASSUME RelayInv, NEW p \in Publishers, PurgeDelete(p) PROVE RelayInv'
<1>1. /\ UNCHANGED <<retry_count, locked, held, sent, tries, faults>>
      /\ pc[p] = "delete" /\ pc'[p] = "claim"
      /\ \A q \in Publishers : q # p => pc'[q] = pc[q] /\ doomed'[q] = doomed[q]
      /\ doomed'[p] = {}
  BY PurgeDeleteFacts DEF RelayInv
<1>2. \A e \in doomed[p] :
        /\ e \in Events /\ locked[e] = None
        /\ status'[e] = "purged" /\ claimed_at'[e] = None
        /\ available_at'[e] = None /\ published_at'[e] = None
  BY PurgeDeleteFacts DEF RelayInv
<1>3. \A e \in Events : e \notin doomed[p] =>
        /\ status'[e] = status[e] /\ claimed_at'[e] = claimed_at[e]
        /\ available_at'[e] = available_at[e]
        /\ published_at'[e] = published_at[e]
  BY PurgeDeleteFacts DEF RelayInv
<1>4. \A q \in Publishers : Batch(q)' = Batch(q) /\ Current(q)' = Current(q)
  BY <1>1, SameBatch
<1>5. TypeOK'
  BY PurgeDeleteFacts DEF RelayInv
<1>6. BatchInv' /\ MarkInv'
  BY <1>1, <1>4 DEF RelayInv, BatchInv, MarkInv, Working
<1>7. LockInv'
  BY <1>1, <1>2, <1>3, LocksStay
<1>8. CountInv'
  BY <1>1, <1>2, <1>3, <1>4 DEF RelayInv, CountInv
<1>9. DoomedInv'
  BY <1>1, <1>2, <1>3, DoomedKept
<1>10. SettledWasSent'
  BY <1>1, <1>2, <1>3 DEF RelayInv, DoomedInv, SettledWasSent
<1>11. FailedWasTried' /\ NothingStranded'
  BY <1>1, <1>2, <1>3 DEF RelayInv, FailedWasTried, NothingStranded
<1> QED
  BY <1>5, <1>6, <1>7, <1>8, <1>9, <1>10, <1>11 DEF RelayInv

\* A publisher that dies gives up its batch and its locks and writes nothing.
LEMMA CrashInv ==
    ASSUME RelayInv, NEW p \in Publishers, Crash(p) PROVE RelayInv'
<1>1. TypeOK /\ UNCHANGED row /\ UNCHANGED <<sent, tries>>
      /\ doomed' = [doomed EXCEPT ![p] = {}]
      /\ faults' \in 0 .. MaxFaults /\ Unlock(p) /\ Drop(p)
  BY RelayAssumption DEF RelayInv, Crash, Fault, TypeOK
<1>2. /\ pc'[p] = "claim" /\ Batch(p)' = {}
      /\ \A q \in Publishers : q # p => pc'[q] = pc[q] /\ held'[q] = held[q]
      /\ pc' \in [Publishers -> {"claim", "claimed", "publish", "mark",
                                 "retry", "purge", "delete"}]
      /\ held' \in [Publishers -> [Events -> (0 .. MaxAttempts - 1) \cup {None}]]
  BY <1>1, DropFacts
<1>3. LockInv' /\ locked' \in [Events -> Publishers \cup {None}]
  BY <1>1, <1>2, UnlockKeeps DEF row
<1>4. TypeOK'
  BY <1>1, <1>2, <1>3 DEF TypeOK, row
<1>5. BatchInv' /\ CountInv' /\ MarkInv'
  <2>1. \A e \in Events :
          /\ retry_count'[e] <= tries[e]
          /\ status'[e] \in {"none", "NEW", "PROCESSING"}
               => retry_count'[e] < MaxAttempts
    BY <1>1 DEF RelayInv, CountInv, row
  <2> QED
    BY <1>1, <1>2, <2>1, MoveKeeps
<1>6. SettledWasSent' /\ FailedWasTried' /\ NothingStranded'
  BY <1>1 DEF RelayInv, SettledWasSent, FailedWasTried, NothingStranded, row
<1>7. DoomedInv'
  BY <1>1, DoomedKept DEF TypeOK, row
<1> QED
  BY <1>3, <1>4, <1>5, <1>6, <1>7 DEF RelayInv

\* Every step, and every step that leaves the relay alone, keeps RelayInv.
LEMMA NextRelayInv == RelayInv /\ [Next]_vars => RelayInv'
<1> SUFFICES ASSUME RelayInv, [Next]_vars PROVE RelayInv'
  OBVIOUS
<1>1. CASE \E e \in Events : \/ Add(e) \/ ClaimTimesOut(e)
                             \/ BackoffElapses(e) \/ RetentionElapses(e)
  BY <1>1, RowStep
<1>2. ASSUME NEW p \in Publishers, Relay(p) PROVE RelayInv'
  BY <1>2, ClaimSelectInv, ClaimCommitInv, PublishInv, MarkProcessedInv,
     RetryOrFailInv, PurgeSelectInv, PurgeDeleteInv DEF Relay, Purge
<1>3. ASSUME NEW p \in Publishers, Crash(p) PROVE RelayInv'
  BY <1>3, CrashInv
<1>4. CASE UNCHANGED vars
  <2>1. /\ UNCHANGED <<status, retry_count, claimed_at, available_at,
                       published_at, locked, pc, held, doomed, sent, tries,
                       faults>>
    BY <1>4 DEF vars, row, history
  <2>2. \A q \in Publishers : Batch(q)' = Batch(q) /\ Current(q)' = Current(q)
    BY <2>1, SameBatch
  <2>3. TypeOK' /\ SettledWasSent' /\ FailedWasTried' /\ NothingStranded'
    BY <2>1 DEF RelayInv, TypeOK, SettledWasSent, FailedWasTried, NothingStranded
  <2>4. BatchInv' /\ LockInv' /\ CountInv' /\ MarkInv' /\ DoomedInv'
    BY <2>1, <2>2 DEF RelayInv, BatchInv, LockInv, CountInv, MarkInv, DoomedInv
  <2> QED
    BY <2>3, <2>4 DEF RelayInv
<1> QED
  BY <1>1, <1>2, <1>3, <1>4 DEF Next

-------------------------------------------------------------------------------
(***************************************************************************)
(* Whatever times out and whichever replies are lost.                      *)
(***************************************************************************)

\* RelayInv holds throughout.
LEMMA RelayInvariant == Spec => []RelayInv
<1>1. Init => RelayInv
  BY InitRelayInv
<1> QED
  BY <1>1, NextRelayInv, PTL DEF Spec

\* The variables keep their types: in particular no copy of a record a
\* publisher works on counts MaxAttempts attempts already.
THEOREM TypeCorrect == Spec => []TypeOK
<1>1. RelayInv => TypeOK
  BY DEF RelayInv
<1> QED
  BY <1>1, RelayInvariant, PTL

(***************************************************************************)
(* Nothing is marked PROCESSED, stamped published_at or deleted that the   *)
(* broker has not got, for any number of publishers that claim each        *)
(* other's rows, die and lose replies (publish_outbox.py:101-103).         *)
(***************************************************************************)
THEOREM SettledSent == Spec => []SettledWasSent
<1>1. RelayInv => SettledWasSent
  BY DEF RelayInv
<1> QED
  BY <1>1, RelayInvariant, PTL

(***************************************************************************)
(* A row is FAILED only after max_attempts publishes of it, although each  *)
(* publisher counts from its own copy (publish_outbox.py:114-135).         *)
(***************************************************************************)
THEOREM GivenUpTried == Spec => []FailedWasTried
<1>1. RelayInv => FailedWasTried
  BY DEF RelayInv
<1> QED
  BY <1>1, RelayInvariant, PTL

(***************************************************************************)
(* No row is out of the reach of the claim filter before it is settled     *)
(* (outbox_claim.py).                                                      *)
(***************************************************************************)
THEOREM NoneStranded == Spec => []NothingStranded
<1>1. RelayInv => NothingStranded
  BY DEF RelayInv
<1> QED
  BY <1>1, RelayInvariant, PTL

-------------------------------------------------------------------------------
(***************************************************************************)
(* As long as no claim times out while it is worked on.                    *)
(***************************************************************************)

\* The rows other publishers hold stay as they are and stay theirs, when a
\* step touches only rows of its own batch.
LEMMA OthersKeep ==
    ASSUME TimelyInv, NEW p \in Publishers,
           \A q \in Publishers : q # p => pc'[q] = pc[q] /\ held'[q] = held[q],
           Batch(p)' \subseteq Batch(p),
           \A e \in Events : e \notin Batch(p) =>
               /\ retry_count'[e] = retry_count[e]
               /\ claimed_at'[e] = claimed_at[e]
               /\ status'[e] = status[e]
    PROVE  /\ ClaimsExclusive'
           /\ \A q \in Publishers : q # p => \A e \in Batch(q)' : HeldOK(q, e)'
<1>1. \A q \in Publishers : q # p => Batch(q)' = Batch(q) /\ Current(q)' = Current(q)
  BY SameBatch
<1>2. ClaimsExclusive'
  BY <1>1 DEF TimelyInv, HoldersInv, ClaimsExclusive
<1>3. ASSUME NEW q \in Publishers, q # p, NEW e \in Batch(q)'
      PROVE  HeldOK(q, e)'
  <2>1. e \in Batch(q) /\ e \in Events /\ e \notin Batch(p) /\ HeldOK(q, e)
    BY <1>1, <1>3 DEF TimelyInv, HoldersInv, ClaimsExclusive, HeldInv, Batch
  <2> QED
    BY <1>1, <1>3, <2>1 DEF HeldOK
<1> QED
  BY <1>2, <1>3

\* A step of p leaves what the others have in flight alone.
LEMMA FlightStays ==
    ASSUME NEW p \in Publishers, NEW e \in Events,
           \A q \in Publishers : q # p => pc'[q] = pc[q] /\ held'[q] = held[q],
           ~ At(p, e), ~ At(p, e)'
    PROVE  InFlight(e)' <=> InFlight(e)
<1>1. \A q \in Publishers : q # p => (At(q, e)' <=> At(q, e))
  BY SameBatch DEF At
<1> QED
  BY <1>1 DEF InFlight

\* A row of p's batch is in flight if p is at it.
LEMMA FlightMine ==
    ASSUME ClaimsExclusive, NEW p \in Publishers, NEW e \in Batch(p),
           \A q \in Publishers : q # p => pc'[q] = pc[q] /\ held'[q] = held[q]
    PROVE  (InFlight(e) <=> At(p, e)) /\ (InFlight(e)' <=> At(p, e)')
<1>1. \A q \in Publishers : q # p => ~ At(q, e) /\ ~ At(q, e)'
  BY SameBatch DEF ClaimsExclusive, At
<1> QED
  BY <1>1 DEF InFlight

\* A step of p that adds e to no batch leaves none waiting for its publish that
\* was not.
LEMMA WaitingStays ==
    ASSUME NEW p \in Publishers, NEW e \in Events,
           \A q \in Publishers : q # p => pc'[q] = pc[q] /\ held'[q] = held[q],
           ~ At(p, e), e \in Batch(p)' => e \in Batch(p), Waiting(e)'
    PROVE  Waiting(e)
<1>1. PICK q \in Publishers : e \in Batch(q)' /\ ~ At(q, e)'
  BY DEF Waiting
<1>2. CASE q = p
  BY <1>1, <1>2 DEF Waiting
<1>3. CASE q # p
  <2>1. e \in Batch(q) /\ ~ At(q, e)
    BY <1>1, <1>3, SameBatch DEF At
  <2> QED
    BY <2>1 DEF Waiting
<1> QED
  BY <1>2, <1>3

\* A row of p's batch waits for no other publisher.
LEMMA WaitingMine ==
    ASSUME ClaimsExclusive, NEW p \in Publishers, NEW e \in Batch(p),
           \A q \in Publishers : q # p => pc'[q] = pc[q] /\ held'[q] = held[q]
    PROVE  /\ Waiting(e) <=> ~ At(p, e)
           /\ Waiting(e)' => e \in Batch(p)' /\ ~ At(p, e)'
<1>1. \A q \in Publishers : q # p => e \notin Batch(q) /\ e \notin Batch(q)'
  BY SameBatch DEF ClaimsExclusive
<1> QED
  BY <1>1 DEF Waiting

\* The types the arithmetic of the budget needs.
LEMMA BudgetTypes ==
    ASSUME TypeOK
    PROVE  /\ faults \in Nat /\ MaxAttempts \in Nat
           /\ \A e \in Events : tries[e] \in Nat /\ retry_count[e] \in Nat
  BY RelayAssumption DEF TypeOK

\* A row that p is not at costs it nothing.
LEMMA BudgetStays ==
    ASSUME TimelyInv, NEW p \in Publishers, NEW e \in Events,
           \A q \in Publishers : q # p => pc'[q] = pc[q] /\ held'[q] = held[q],
           ~ At(p, e), ~ At(p, e)', e \in Batch(p)' => e \in Batch(p),
           status'[e] = "PROCESSED" <=> status[e] = "PROCESSED",
           status'[e] = "purged" <=> status[e] = "purged",
           retry_count'[e] = retry_count[e], tries'[e] = tries[e],
           faults' = faults \/ faults' = faults + 1
    PROVE  Budget(e)'
<1>1. (InFlight(e)' <=> InFlight(e)) /\ (Waiting(e)' => Waiting(e))
  BY FlightStays, WaitingStays
<1>2. /\ faults \in Nat /\ MaxAttempts \in Nat
      /\ tries[e] \in Nat /\ retry_count[e] \in Nat
  BY BudgetTypes DEF TimelyInv, HoldersInv, RelayInv
<1>3. Budget(e)
  BY DEF TimelyInv, HoldersInv, BudgetInv
<1>4. CASE status[e] = "purged"
  BY <1>1, <1>2, <1>3, <1>4 DEF Budget
<1>5. CASE status[e] # "purged"
  BY <1>1, <1>2, <1>3, <1>5 DEF Budget
<1> QED
  BY <1>4, <1>5

\* The migrated table and idle publishers satisfy TimelyInv.
LEMMA InitTimelyInv == ASSUME Init PROVE TimelyInv
<1>1. \A p \in Publishers : Batch(p) = {}
  BY DEF Init, Batch
<1>2. HeldInv /\ ClaimsExclusive
  BY <1>1 DEF HeldInv, ClaimsExclusive
<1>3. UnpublishedInv
  BY DEF Init, UnpublishedInv, Upgraded
<1>4. BudgetInv
  BY <1>1, RelayAssumption DEF Init, BudgetInv, Budget
<1>5. DoomedSettled
  BY DEF Init, DoomedSettled
<1> QED
  BY <1>2, <1>3, <1>4, <1>5, InitRelayInv DEF TimelyInv, HoldersInv

\* A row is written or time passes: no row of a batch is touched.
LEMMA RowTimely ==
    ASSUME TimelyInv, ~ LateHolders, NEW e \in Events,
           \/ Add(e) \/ ClaimTimesOut(e) \/ BackoffElapses(e)
           \/ RetentionElapses(e)
    PROVE  HoldersInv'
<1> USE DEF Add, ClaimTimesOut, BackoffElapses, RetentionElapses, history
<1>1. /\ UNCHANGED <<retry_count, locked, pc, held, sent, tries, faults>>
      /\ \A f \in Events : status'[f] # status[f] =>
           status[f] = "none" /\ status'[f] = "NEW"
      /\ \A f \in Events : claimed_at'[f] # claimed_at[f] =>
           \A p \in Publishers : held[p][f] = None
  BY DEF TimelyInv, HoldersInv, RelayInv, TypeOK
<1>2. \A p \in Publishers : Batch(p)' = Batch(p) /\ Current(p)' = Current(p)
  BY <1>1, SameBatch
<1>3. RelayInv'
  BY RowStep DEF TimelyInv, HoldersInv
<1>4. UnpublishedInv'
  BY RelayAssumption DEF TimelyInv, HoldersInv, RelayInv, TypeOK, UnpublishedInv
<1> HIDE DEF Add, ClaimTimesOut, BackoffElapses, RetentionElapses, history
<1>5. HeldInv'
  BY <1>1, <1>2 DEF TimelyInv, HoldersInv, HeldInv, HeldOK, Batch
<1>6. ClaimsExclusive'
  BY <1>2 DEF TimelyInv, HoldersInv, ClaimsExclusive
<1>7. \A f \in Events :
         /\ InFlight(f)' <=> InFlight(f)
         /\ Waiting(f)' <=> Waiting(f)
         /\ status'[f] = "PROCESSED" <=> status[f] = "PROCESSED"
         /\ status'[f] = "purged" <=> status[f] = "purged"
  BY <1>1, <1>2 DEF InFlight, Waiting, At
<1>8. BudgetInv'
  BY <1>1, <1>7 DEF TimelyInv, HoldersInv, BudgetInv, Budget
<1> QED
  BY <1>3, <1>4, <1>5, <1>6, <1>8 DEF TimelyInv, HoldersInv

\* A claim selects nothing that is in another batch: such a row is locked, not
\* yet stale, or settled.
LEMMA ClaimSelectTimely ==
    ASSUME TimelyInv, NEW p \in Publishers, ClaimSelect(p) PROVE HoldersInv'
<1>1. /\ TypeOK /\ pc[p] = "claim" /\ Batch(p) = {}
      /\ UNCHANGED <<status, retry_count, claimed_at, available_at,
                     published_at, sent, tries, faults>>
  BY DEF TimelyInv, HoldersInv, RelayInv, BatchInv, Working, ClaimSelect, row, history
<1>2. \A q \in Publishers : q # p => held'[q] = held[q] /\ pc'[q] = pc[q]
  BY <1>1 DEF ClaimSelect, TypeOK
<1>3. \A q \in Publishers : q # p => Batch(q)' = Batch(q) /\ Current(q)' = Current(q)
  BY <1>2, SameBatch
<1>4. \A e \in Batch(p)' : e \in Selected /\ held'[p][e] = retry_count[e]
  <2>1. CASE Selected = {}
    BY <2>1, <1>1, SameBatch DEF ClaimSelect
  <2>2. CASE Selected # {}
    BY <2>2, <1>1 DEF ClaimSelect, TypeOK, Batch
  <2> QED
    BY <2>1, <2>2
<1>5. pc'[p] \notin Working
  BY <1>1 DEF ClaimSelect, TypeOK, Working
<1>6. RelayInv'
  BY ClaimSelectInv DEF TimelyInv, HoldersInv
<1>7. HeldInv'
  <2>1. \A e \in Batch(p)' : HeldOK(p, e)'
    BY <1>1, <1>4, <1>5 DEF HeldOK
  <2>2. \A q \in Publishers : q # p => \A e \in Batch(q)' : HeldOK(q, e)'
    BY <1>1, <1>2, <1>3 DEF TimelyInv, HoldersInv, HeldInv, HeldOK
  <2> QED
    BY <2>1, <2>2 DEF HeldInv
<1>8. ClaimsExclusive'
  <2>1. ASSUME NEW q \in Publishers, q # p, NEW e \in Batch(q), e \in Selected
        PROVE  FALSE
    <3>1. e \in Events /\ Claimable(e) /\ locked[e] = None
      BY <2>1, SelectedClaimable
    <3>2. q # None
      BY RelayAssumption
    <3>3. pc[q] # "claimed"
      BY <3>1, <3>2, <2>1 DEF TimelyInv, HoldersInv, RelayInv, LockInv
    <3>4. pc[q] \in Working
      BY <3>3, <2>1 DEF TimelyInv, HoldersInv, RelayInv, BatchInv
    <3> QED
      BY <3>1, <3>4, <2>1 DEF TimelyInv, HoldersInv, HeldInv, HeldOK, Claimable
  <2> QED
    BY <1>3, <1>4, <2>1 DEF TimelyInv, HoldersInv, ClaimsExclusive
<1>9. UnpublishedInv'
  BY <1>1 DEF TimelyInv, HoldersInv, UnpublishedInv
<1>10. BudgetInv'
  <2> SUFFICES ASSUME NEW e \in Events PROVE Budget(e)'
    BY DEF BudgetInv
  <2>1. ~ At(p, e) /\ ~ At(p, e)'
    BY <1>1, <1>5 DEF At, Working
  <2>2. Budget(e)
    BY DEF TimelyInv, HoldersInv, BudgetInv
  <2>3. CASE status[e] = "purged"
    <3>1. e \notin Batch(p)'
      BY <1>4, <2>3, SelectedClaimable DEF Claimable
    <3>2. Waiting(e)' => Waiting(e)
      BY <1>2, <2>1, <3>1, WaitingStays
    <3> QED
      BY <1>1, <2>2, <2>3, <3>2 DEF Budget
  <2>4. CASE status[e] # "purged"
    <3>1. InFlight(e)' <=> InFlight(e)
      BY <1>2, <2>1, FlightStays
    <3> QED
      BY <1>1, <2>2, <2>4, <3>1 DEF Budget
  <2> QED
    BY <2>3, <2>4
<1> QED
  BY <1>6, <1>7, <1>8, <1>9, <1>10 DEF TimelyInv, HoldersInv

\* The commit of a claim touches only the rows it locked.
LEMMA ClaimCommitTimely ==
    ASSUME TimelyInv, NEW p \in Publishers, ClaimCommit(p) PROVE HoldersInv'
<1>1. /\ TypeOK /\ RelayInv /\ pc[p] = "claimed"
      /\ UNCHANGED <<retry_count, published_at, sent, tries>>
      /\ faults' = faults \/ faults' = faults + 1
      /\ \/ Drop(p) /\ (UNCHANGED row \/ MarkClaimed(p))
         \/ pc' = [pc EXCEPT ![p] = "publish"] /\ held' = held /\ MarkClaimed(p)
  BY DEF TimelyInv, HoldersInv, RelayInv, ClaimCommit, MarkClaimed, Fault, row, history
<1>2. /\ \A q \in Publishers : q # p => pc'[q] = pc[q] /\ held'[q] = held[q]
      /\ \/ pc'[p] = "claim" /\ Batch(p)' = {}
         \/ pc'[p] = "publish" /\ held' = held /\ MarkClaimed(p)
  <2>1. CASE Drop(p)
    BY <2>1, <1>1, DropFacts
  <2>2. CASE pc' = [pc EXCEPT ![p] = "publish"] /\ held' = held /\ MarkClaimed(p)
    BY <2>2, <1>1 DEF TypeOK
  <2> QED
    BY <2>1, <2>2, <1>1
<1>3. \A e \in Events :
        \/ status'[e] = status[e] /\ claimed_at'[e] = claimed_at[e]
        \/ /\ e \in Batch(p) /\ status'[e] = "PROCESSING"
           /\ claimed_at'[e] = "fresh"
  BY <1>1 DEF MarkClaimed, row
<1>4. Batch(p)' \subseteq Batch(p)
  BY <1>2, SameBatch
<1>5. RelayInv'
  BY <1>1, ClaimCommitInv
<1>6. /\ ClaimsExclusive'
      /\ \A q \in Publishers : q # p => \A e \in Batch(q)' : HeldOK(q, e)'
  BY <1>1, <1>2, <1>3, <1>4, OthersKeep
<1>7. HeldInv'
  <2>1. ASSUME NEW e \in Batch(p)' PROVE HeldOK(p, e)'
    <3>1. /\ pc'[p] = "publish" /\ held' = held /\ MarkClaimed(p)
          /\ e \in Batch(p) /\ e \in Events
      BY <1>2, <1>4 DEF Batch
    <3>2. held[p][e] = retry_count[e]
      BY <3>1 DEF TimelyInv, HoldersInv, HeldInv, HeldOK
    <3> QED
      BY <3>1, <3>2 DEF HeldOK, MarkClaimed
  <2> QED
    BY <1>6, <2>1 DEF HeldInv
<1>8. \A e \in Batch(p) : e \in Events /\ status[e] \in {"NEW", "PROCESSING"}
  BY <1>1, ClaimedRows
<1>9. UnpublishedInv'
  BY <1>1, <1>3, <1>8 DEF TimelyInv, HoldersInv, UnpublishedInv
<1>10. BudgetInv'
  <2> SUFFICES ASSUME NEW e \in Events PROVE Budget(e)'
    BY DEF BudgetInv
  <2>1. ~ At(p, e) /\ ~ At(p, e)'
    BY <1>1, <1>2 DEF At
  <2>2. /\ status'[e] = "PROCESSED" <=> status[e] = "PROCESSED"
        /\ status'[e] = "purged" <=> status[e] = "purged"
    BY <1>3, <1>8
  <2> QED
    BY <1>1, <1>2, <1>4, <2>1, <2>2, BudgetStays
<1> QED
  BY <1>5, <1>6, <1>7, <1>9, <1>10 DEF TimelyInv, HoldersInv

\* A publish is on the budget of the row it publishes.
LEMMA PublishTimely ==
    ASSUME TimelyInv, NEW p \in Publishers, Publish(p) PROVE HoldersInv'
<1> DEFINE c == Current(p)
<1>1. /\ TypeOK /\ RelayInv /\ ClaimsExclusive /\ pc[p] = "publish"
      /\ UNCHANGED <<status, retry_count, claimed_at, available_at,
                     published_at, held, faults>>
      /\ tries' = [tries EXCEPT ![c] = @ + 1]
      /\ \/ pc' = [pc EXCEPT ![p] = "mark"]
         \/ pc' = [pc EXCEPT ![p] = "retry"]
  BY DEF TimelyInv, HoldersInv, RelayInv, Publish, row
<1>2. c \in Batch(p) /\ c \in Events
  BY <1>1, CurrentInBatch DEF RelayInv, BatchInv, Working
<1>3. \A q \in Publishers : Batch(q)' = Batch(q) /\ Current(q)' = Current(q)
  BY <1>1, SameBatch
<1>4. \A q \in Publishers : q # p => pc'[q] = pc[q] /\ held'[q] = held[q]
  BY <1>1 DEF TypeOK
<1>5. pc'[p] \in {"mark", "retry"}
  BY <1>1 DEF TypeOK
<1>6. RelayInv'
  BY <1>1, PublishInv
<1>7. /\ ClaimsExclusive'
      /\ \A q \in Publishers : q # p => \A e \in Batch(q)' : HeldOK(q, e)'
  BY <1>1, <1>3, <1>4, OthersKeep
<1>8. \A e \in Batch(p) : /\ held[p][e] = retry_count[e]
                          /\ \/ status[e] = "PROCESSING" /\ claimed_at[e] = "fresh"
                             \/ LostReplies /\ status[e] = "purged"
  BY <1>1 DEF TimelyInv, HoldersInv, HeldInv, HeldOK, Working
<1>9. HeldInv'
  BY <1>1, <1>3, <1>7, <1>8 DEF HeldInv, HeldOK
<1>10. UnpublishedInv'
  BY <1>1 DEF TimelyInv, HoldersInv, UnpublishedInv
<1>11. BudgetInv'
  <2> SUFFICES ASSUME NEW e \in Events PROVE Budget(e)'
    BY DEF BudgetInv
  <2>1. /\ faults \in Nat /\ MaxAttempts \in Nat
        /\ tries[e] \in Nat /\ retry_count[e] \in Nat
    BY <1>1, BudgetTypes
  <2>2. Budget(e)
    BY DEF TimelyInv, HoldersInv, BudgetInv
  <2>3. CASE e = c
    <3>1. ~ InFlight(e) /\ InFlight(e)'
      BY <1>1, <1>2, <1>3, <1>4, <1>5, <2>3, FlightMine DEF At
    <3>2. Waiting(e) /\ ~ Waiting(e)'
      BY <1>1, <1>2, <1>3, <1>4, <1>5, <2>3, WaitingMine DEF At
    <3>3. tries'[e] = tries[e] + 1
      BY <1>1, <1>2, <2>3 DEF TypeOK
    <3>4. CASE status[e] = "PROCESSING"
      <4>1. retry_count[e] < MaxAttempts
        BY <1>1, <3>4 DEF RelayInv, CountInv
      <4>2. tries[e] <= retry_count[e] + faults
        BY <2>2, <3>1, <3>4 DEF Budget
      <4> HIDE DEF c
      <4> QED
        BY <1>1, <2>1, <3>1, <3>3, <3>4, <4>1, <4>2 DEF Budget
    <3>5. CASE status[e] = "purged"
      <4>1. tries[e] < MaxAttempts + faults
        BY <2>2, <3>2, <3>5 DEF Budget
      <4> HIDE DEF c
      <4> QED
        BY <1>1, <2>1, <3>2, <3>3, <3>5, <4>1 DEF Budget
    <3> QED
      BY <1>2, <1>8, <2>3, <3>4, <3>5
  <2>4. CASE e # c
    <3>1. ~ At(p, e) /\ ~ At(p, e)'
      BY <1>3, <2>4 DEF At
    <3>2. tries'[e] = tries[e]
      BY <1>1, <1>2, <2>4 DEF TypeOK
    <3> QED
      BY <1>1, <1>3, <1>4, <3>1, <3>2, BudgetStays
  <2> QED
    BY <2>3, <2>4
<1> QED
  BY <1>6, <1>7, <1>9, <1>10, <1>11 DEF TimelyInv, HoldersInv

\* mark_processed settles the row its publisher is at, or leaves it in flight.
LEMMA MarkProcessedTimely ==
    ASSUME TimelyInv, NEW p \in Publishers, MarkProcessed(p) PROVE HoldersInv'
<1> DEFINE c == Current(p)
<1>1. /\ TypeOK /\ RelayInv /\ ClaimsExclusive /\ pc[p] = "mark" /\ Batch(p) # {}
  BY DEF TimelyInv, HoldersInv, RelayInv, BatchInv, Working, MarkProcessed
<1>2. c \in Batch(p) /\ c \in Events
  BY <1>1, CurrentInBatch
<1>3. /\ UNCHANGED tries
      /\ \/ /\ SetProcessed(c) /\ Advance(p) /\ faults' = faults
         \/ /\ UNCHANGED row \/ (LostReplies /\ SetProcessed(c))
            /\ pc' = [pc EXCEPT ![p] = "retry"] /\ UNCHANGED held
            /\ faults' = faults + 1
  BY DEF MarkProcessed, Fault, history
<1>4. /\ \A q \in Publishers : q # p => pc'[q] = pc[q] /\ held'[q] = held[q]
      /\ Batch(p)' \subseteq Batch(p)
      /\ \A e \in Batch(p)' : held'[p][e] = held[p][e]
      /\ pc'[p] \in {"claim", "publish", "retry"}
      /\ Batch(p)' = {} <=> pc'[p] = "claim"
      /\ pc'[p] = "retry" => held'[p] = held[p]
  BY <1>1, <1>3, MoveFacts
<1>5. /\ UNCHANGED retry_count
      /\ \A e \in Events :
           \/ /\ status'[e] = status[e]
              /\ claimed_at'[e] = claimed_at[e]
              /\ published_at'[e] = published_at[e]
           \/ e = c /\ status'[e] = "PROCESSED"
  BY <1>1, <1>2, <1>3, SetProcessedFacts
<1>6. \A e \in Batch(p) : /\ held[p][e] = retry_count[e] /\ e \in Events
                          /\ \/ status[e] = "PROCESSING" /\ claimed_at[e] = "fresh"
                             \/ LostReplies /\ status[e] = "purged"
  BY <1>1 DEF TimelyInv, HoldersInv, HeldInv, HeldOK, Working, Batch
<1>7. \/ pc'[p] = "retry" /\ Current(p)' = c /\ (LostReplies \/ UNCHANGED row)
      \/ /\ pc'[p] # "retry" /\ c \notin Batch(p)'
         /\ status[c] # "purged" => status'[c] = "PROCESSED"
  <2>1. CASE SetProcessed(c) /\ Advance(p)
    <3>1. pc'[p] # "retry" /\ c \notin Batch(p)'
      BY <1>1, <2>1, AdvanceFacts
    <3>2. status[c] # "purged" => Exists(c)
      BY <1>2, <1>6 DEF Exists
    <3>3. status[c] # "purged" => status'[c] = "PROCESSED"
      BY <1>1, <1>2, <2>1, <3>2 DEF SetProcessed, TypeOK
    <3> QED
      BY <3>1, <3>3
  <2>2. CASE /\ pc' = [pc EXCEPT ![p] = "retry"] /\ UNCHANGED held
             /\ UNCHANGED row \/ LostReplies
    BY <1>1, <2>2, SameBatch DEF TypeOK
  <2> QED
    BY <1>3, <2>1, <2>2
<1>13. status'[c] = "purged" <=> status[c] = "purged"
  <2>1. CASE SetProcessed(c)
    BY <1>1, <1>2, <2>1 DEF SetProcessed, Exists, TypeOK, row
  <2> QED
    BY <1>3, <2>1 DEF row
<1> HIDE DEF c
<1>8. RelayInv'
  BY <1>1, MarkProcessedInv
<1>9. /\ ClaimsExclusive'
      /\ \A q \in Publishers : q # p => \A e \in Batch(q)' : HeldOK(q, e)'
  BY <1>2, <1>4, <1>5, OthersKeep
<1>10. HeldInv'
  <2>1. ASSUME NEW e \in Batch(p)' PROVE HeldOK(p, e)'
    <3>1. e \in Batch(p) /\ e \in Events /\ held'[p][e] = retry_count'[e]
      BY <1>4, <1>5, <1>6
    <3>2. CASE e = c
      BY <1>5, <1>6, <1>7, <3>1, <3>2 DEF HeldOK, row
    <3>3. CASE e # c
      BY <1>5, <1>6, <3>1, <3>3 DEF HeldOK
    <3> QED
      BY <3>2, <3>3
  <2> QED
    BY <1>9, <2>1 DEF HeldInv
<1>11. UnpublishedInv'
  BY <1>5 DEF TimelyInv, HoldersInv, UnpublishedInv
<1>12. BudgetInv'
  <2> SUFFICES ASSUME NEW e \in Events PROVE Budget(e)'
    BY DEF BudgetInv
  <2>1. faults' = faults \/ faults' = faults + 1
    BY <1>3
  <2>2. CASE e # c
    <3>1. ~ At(p, e) /\ ~ At(p, e)'
      BY <1>4, <1>7, <2>2 DEF At, c
    <3>2. status'[e] = status[e]
      BY <1>5, <2>2
    <3> QED
      BY <1>3, <1>4, <1>5, <2>1, <3>1, <3>2, BudgetStays
  <2>3. CASE e = c
    <3>1. InFlight(e) /\ (InFlight(e)' <=> At(p, e)')
      BY <1>1, <1>2, <1>4, <2>3, FlightMine DEF At, c
    <3>2. /\ InFlight(e)' \/ status[c] = "purged" \/ status'[e] = "PROCESSED"
          /\ ~ Waiting(e)'
      <4>1. CASE pc'[p] = "retry"
        <5>1. Batch(p)' = Batch(p)
          BY <4>1, <1>4, SameBatch
        <5>2. At(p, e)'
          BY <1>2, <1>7, <2>3, <4>1, <5>1 DEF At
        <5> QED
          BY <1>1, <1>2, <1>4, <2>3, <3>1, <5>2, WaitingMine
      <4>2. CASE pc'[p] # "retry"
        BY <1>1, <1>2, <1>4, <1>7, <2>3, <4>2, WaitingMine
      <4> QED
        BY <4>1, <4>2
    <3>3. /\ faults \in Nat /\ MaxAttempts \in Nat
          /\ tries[e] \in Nat /\ retry_count[e] \in Nat
      BY <1>1, BudgetTypes
    <3>4. Budget(e)
      BY DEF TimelyInv, HoldersInv, BudgetInv
    <3>5. CASE status[e] = "purged"
      BY <1>3, <1>13, <2>1, <2>3, <3>2, <3>3, <3>4, <3>5 DEF Budget
    <3>6. CASE status[e] # "purged"
      BY <1>3, <1>5, <1>13, <2>1, <2>3, <3>1, <3>2, <3>3, <3>4, <3>6 DEF Budget
    <3> QED
      BY <3>5, <3>6
  <2> QED
    BY <2>2, <2>3
<1> QED
  BY <1>8, <1>9, <1>10, <1>11, <1>12 DEF TimelyInv, HoldersInv

\* release counts the publish its publisher was at, or a fault does.
LEMMA RetryOrFailTimely ==
    ASSUME TimelyInv, NEW p \in Publishers, RetryOrFail(p) PROVE HoldersInv'
<1> DEFINE c == Current(p)
           n == held[p][c] + 1
<1>1. /\ TypeOK /\ RelayInv /\ ClaimsExclusive /\ pc[p] = "retry" /\ Batch(p) # {}
  BY DEF TimelyInv, HoldersInv, RelayInv, BatchInv, Working, RetryOrFail
<1>2. c \in Batch(p) /\ c \in Events /\ held[p][c] = retry_count[c]
  BY <1>1, CurrentInBatch DEF TimelyInv, HoldersInv, HeldInv, HeldOK
<1>3. /\ UNCHANGED tries
      /\ \/ Release(c, n) /\ Advance(p) /\ faults' = faults
         \/ /\ UNCHANGED row \/ (LostReplies /\ Release(c, n))
            /\ Drop(p) /\ faults' = faults + 1
  BY DEF RetryOrFail, Fault, history
<1>4. /\ \A q \in Publishers : q # p => pc'[q] = pc[q] /\ held'[q] = held[q]
      /\ Batch(p)' \subseteq Batch(p)
      /\ \A e \in Batch(p)' : held'[p][e] = held[p][e]
  BY <1>1, <1>3, MoveFacts
<1>5. pc'[p] \in {"claim", "publish"} /\ c \notin Batch(p)'
  BY <1>1, <1>3, AdvanceFacts, DropFacts
<1>6. n \in 1 .. MaxAttempts /\ n = retry_count[c] + 1
  <2>1. held[p][c] \in 0 .. MaxAttempts - 1
    BY <1>1, <1>2 DEF TypeOK, Batch
  <2> QED
    BY <1>2, <2>1, RelayAssumption
<1>7. \/ /\ status[c] = "PROCESSING" /\ Exists(c)
      \/ LostReplies /\ status[c] \in {"PROCESSED", "purged"}
  BY <1>1, <1>2 DEF TimelyInv, HoldersInv, HeldInv, HeldOK, Working, Exists
<1>8. \A e \in Batch(p) : e # c =>
        /\ held[p][e] = retry_count[e] /\ e \in Events
        /\ \/ status[e] = "PROCESSING" /\ claimed_at[e] = "fresh"
           \/ LostReplies /\ status[e] = "purged"
  BY <1>1 DEF TimelyInv, HoldersInv, HeldInv, HeldOK, Working, Batch
<1>15. status[c] = "purged" => status'[c] = "purged"
  BY <1>3 DEF Release, Exists, row
<1> HIDE DEF c, n
<1>9. /\ UNCHANGED published_at
      /\ \A e \in Events :
           \/ /\ status'[e] = status[e]
              /\ claimed_at'[e] = claimed_at[e]
              /\ retry_count'[e] = retry_count[e]
           \/ /\ e = c /\ retry_count'[e] = n /\ status'[e] \in {"NEW", "FAILED"}
  BY <1>1, <1>2, <1>3, <1>6, ReleaseFacts
<1>10. RelayInv'
  BY <1>1, RetryOrFailInv
<1>11. /\ ClaimsExclusive'
       /\ \A q \in Publishers : q # p => \A e \in Batch(q)' : HeldOK(q, e)'
  BY <1>2, <1>4, <1>9, OthersKeep
<1>12. HeldInv'
  <2>1. ASSUME NEW e \in Batch(p)' PROVE HeldOK(p, e)'
    BY <1>4, <1>5, <1>8, <1>9 DEF HeldOK
  <2> QED
    BY <1>11, <2>1 DEF HeldInv
<1>13. UnpublishedInv'
  BY <1>2, <1>7, <1>9 DEF TimelyInv, HoldersInv, UnpublishedInv
<1>14. BudgetInv'
  <2> SUFFICES ASSUME NEW e \in Events PROVE Budget(e)'
    BY DEF BudgetInv
  <2>1. faults' = faults \/ faults' = faults + 1
    BY <1>3
  <2>2. CASE e # c
    <3>1. ~ At(p, e) /\ ~ At(p, e)'
      BY <1>5, <2>2 DEF At, c
    <3>2. status'[e] = status[e] /\ retry_count'[e] = retry_count[e]
      BY <1>9, <2>2
    <3> QED
      BY <1>3, <1>4, <2>1, <3>1, <3>2, BudgetStays
  <2>3. CASE e = c
    <3>1. InFlight(e) /\ ~ InFlight(e)'
      BY <1>1, <1>2, <1>4, <1>5, <2>3, FlightMine DEF At, c
    <3>2. /\ faults \in Nat /\ MaxAttempts \in Nat
          /\ tries[e] \in Nat /\ retry_count[e] \in Nat
      BY <1>1, BudgetTypes
    <3>3. Budget(e)
      BY DEF TimelyInv, HoldersInv, BudgetInv
    <3>6. CASE status[e] = "purged"
      <4>1. ~ Waiting(e)'
        BY <1>1, <1>2, <1>4, <1>5, <2>3, WaitingMine
      <4> QED
        BY <1>3, <1>15, <2>1, <2>3, <3>2, <3>3, <3>6, <4>1 DEF Budget
    <3>4. CASE retry_count'[e] = n /\ status'[e] \in {"NEW", "FAILED"}
      <4>1. status[e] # "purged" /\ retry_count'[e] = retry_count[e] + 1
        BY <1>6, <1>15, <2>3, <3>4
      <4> QED
        BY <1>3, <2>1, <3>1, <3>2, <3>3, <3>4, <4>1 DEF Budget
    <3>5. CASE /\ retry_count'[e] = retry_count[e] /\ status'[e] = status[e]
               /\ status[e] # "purged"
      <4>1. status'[e] = "PROCESSED" \/ faults' = faults + 1
        <5>1. ASSUME Release(c, n), Exists(c) PROVE status'[c] \in {"NEW", "FAILED"}
          BY <1>1, <1>2, <5>1 DEF Release, TypeOK
        <5> QED
          BY <1>3, <1>7, <2>3, <3>5, <5>1 DEF Exists
      <4> QED
        BY <1>3, <2>1, <3>1, <3>2, <3>3, <3>5, <4>1 DEF Budget
    <3> QED
      BY <1>9, <2>3, <3>4, <3>5, <3>6
  <2> QED
    BY <2>2, <2>3
<1> QED
  BY <1>10, <1>11, <1>12, <1>13, <1>14 DEF TimelyInv, HoldersInv

\* A purge that looks for rows touches none.
LEMMA PurgeSelectTimely ==
    ASSUME TimelyInv, NEW p \in Publishers, PurgeSelect(p) PROVE HoldersInv'
<1>1. TypeOK /\ RelayInv /\ pc[p] = "purge" /\ Batch(p) = {}
      /\ pc' = [pc EXCEPT ![p] = "delete"]
      /\ UNCHANGED <<status, retry_count, claimed_at, published_at, held, tries,
                     faults>>
  BY DEF TimelyInv, HoldersInv, RelayInv, BatchInv, Working, PurgeSelect, row,
         history
<1>2. /\ \A q \in Publishers : q # p => pc'[q] = pc[q] /\ held'[q] = held[q]
      /\ Batch(p)' = {}
  BY <1>1, SameBatch DEF TypeOK
<1>3. RelayInv'
  BY <1>1, PurgeSelectInv
<1>4. /\ ClaimsExclusive'
      /\ \A q \in Publishers : q # p => \A e \in Batch(q)' : HeldOK(q, e)'
  BY <1>1, <1>2, OthersKeep
<1>5. HeldInv' /\ UnpublishedInv'
  BY <1>1, <1>2, <1>4 DEF TimelyInv, HoldersInv, HeldInv, UnpublishedInv
<1>6. BudgetInv'
  <2> SUFFICES ASSUME NEW e \in Events PROVE Budget(e)'
    BY DEF BudgetInv
  <2>1. ~ At(p, e) /\ ~ At(p, e)'
    BY <1>1, <1>2 DEF At
  <2> QED
    BY <1>1, <1>2, <2>1, BudgetStays
<1> QED
  BY <1>3, <1>4, <1>5, <1>6 DEF HoldersInv

\* A purge deletes nothing a claim has locked, and of what is in a batch only
\* what a lost reply let the claim have.
LEMMA PurgeDeleteTimely ==
    ASSUME TimelyInv, NEW p \in Publishers, PurgeDelete(p) PROVE HoldersInv'
<1>1. TypeOK /\ RelayInv /\ ClaimsExclusive
  BY DEF TimelyInv, HoldersInv, RelayInv
<1>2. /\ UNCHANGED <<retry_count, locked, held, sent, tries, faults>>
      /\ pc[p] = "delete" /\ pc'[p] = "claim"
      /\ \A q \in Publishers : q # p => pc'[q] = pc[q]
  BY <1>1, PurgeDeleteFacts
<1>3. \A e \in doomed[p] : e \in Events /\ locked[e] = None /\ status'[e] = "purged"
  BY <1>1, PurgeDeleteFacts
<1>4. \A e \in Events : e \notin doomed[p] =>
        /\ status'[e] = status[e] /\ claimed_at'[e] = claimed_at[e]
        /\ published_at'[e] = published_at[e]
  BY <1>1, PurgeDeleteFacts
<1>5. \A q \in Publishers : Batch(q)' = Batch(q) /\ Current(q)' = Current(q)
  BY <1>2, SameBatch
<1>6. Batch(p) = {}
  BY <1>1, <1>2 DEF RelayInv, BatchInv, Working
<1>7. RelayInv'
  BY <1>1, PurgeDeleteInv
<1>8. ClaimsExclusive'
  BY <1>1, <1>5 DEF ClaimsExclusive
<1>9. \A q \in Publishers : \A e \in Batch(q) :
        e \in doomed[p] => pc[q] \in Working
  <2>1. \A q \in Publishers : q # None
    BY RelayAssumption
  <2> QED
    BY <1>1, <1>3, <2>1 DEF RelayInv, LockInv, BatchInv
<1>10. HeldInv'
  <2> SUFFICES ASSUME NEW q \in Publishers, NEW e \in Batch(q)
               PROVE  HeldOK(q, e)'
    BY <1>5 DEF HeldInv
  <2>1. HeldOK(q, e) /\ e \in Events /\ q # p
    BY <1>6 DEF TimelyInv, HoldersInv, HeldInv, Batch
  <2>2. CASE e \in doomed[p]
    <3>1. LostReplies
      BY <1>9, <2>1, <2>2 DEF TimelyInv, DoomedSettled, HeldOK
    <3> QED
      BY <1>2, <1>3, <2>1, <2>2, <3>1 DEF HeldOK
  <2>3. CASE e \notin doomed[p]
    BY <1>2, <1>4, <1>5, <2>1, <2>3 DEF HeldOK
  <2> QED
    BY <2>2, <2>3
<1>11. UnpublishedInv'
  BY <1>3, <1>4 DEF TimelyInv, HoldersInv, UnpublishedInv
<1>12. BudgetInv'
  <2> SUFFICES ASSUME NEW e \in Events PROVE Budget(e)'
    BY DEF BudgetInv
  <2>1. ~ At(p, e) /\ ~ At(p, e)'
    BY <1>2 DEF At
  <2>2. \A q \in Publishers : q # p => pc'[q] = pc[q] /\ held'[q] = held[q]
    BY <1>2
  <2>3. CASE e \notin doomed[p]
    BY <1>2, <1>4, <1>5, <2>1, <2>2, <2>3, BudgetStays
  <2>4. CASE e \in doomed[p]
    <3>1. /\ faults \in Nat /\ MaxAttempts \in Nat
          /\ tries[e] \in Nat /\ retry_count[e] \in Nat
      BY <1>1, BudgetTypes
    <3>2. retry_count[e] <= MaxAttempts
      BY <1>1, RelayAssumption DEF TypeOK
    <3>3. Budget(e)
      BY DEF TimelyInv, HoldersInv, BudgetInv
    <3>4. tries[e] <= MaxAttempts + faults
      BY <3>1, <3>2, <3>3 DEF Budget
    <3>5. ASSUME Waiting(e) PROVE tries[e] < MaxAttempts + faults
      <4>1. PICK q \in Publishers : e \in Batch(q) /\ ~ At(q, e)
        BY <3>5 DEF Waiting
      <4>2. ~ InFlight(e)
        BY <1>1, <4>1 DEF ClaimsExclusive, InFlight, At
      <4>3. CASE status[e] = "purged"
        BY <3>3, <3>5, <4>3 DEF Budget
      <4>4. CASE status[e] # "purged"
        <5>1. status[e] = "PROCESSING"
          BY <1>9, <2>4, <4>1, <4>4
          DEF TimelyInv, HoldersInv, HeldInv, HeldOK, At
        <5>2. retry_count[e] < MaxAttempts
          BY <1>1, <5>1 DEF RelayInv, CountInv
        <5>3. tries[e] <= retry_count[e] + faults
          BY <3>3, <4>2, <5>1 DEF Budget
        <5> QED
          BY <3>1, <5>2, <5>3
      <4> QED
        BY <4>3, <4>4
    <3>6. Waiting(e)' => Waiting(e)
      BY <1>5, <2>1, <2>2, WaitingStays
    <3> QED
      BY <1>2, <1>3, <2>4, <3>4, <3>5, <3>6 DEF Budget
  <2> QED
    BY <2>3, <2>4
<1> QED
  BY <1>7, <1>8, <1>10, <1>11, <1>12 DEF HoldersInv

\* A publisher that dies leaves at most one publish uncounted, and is a fault.
LEMMA CrashTimely ==
    ASSUME TimelyInv, NEW p \in Publishers, Crash(p) PROVE HoldersInv'
<1>1. TypeOK /\ RelayInv /\ ClaimsExclusive /\ Drop(p)
      /\ UNCHANGED <<status, retry_count, claimed_at, published_at, tries>>
      /\ faults' = faults + 1
  BY DEF TimelyInv, HoldersInv, RelayInv, Crash, Fault, row
<1>2. /\ pc'[p] = "claim" /\ Batch(p)' = {}
      /\ \A q \in Publishers : q # p => pc'[q] = pc[q] /\ held'[q] = held[q]
  BY <1>1, DropFacts
<1>3. RelayInv'
  BY <1>1, CrashInv
<1>4. /\ ClaimsExclusive'
      /\ \A q \in Publishers : q # p => \A e \in Batch(q)' : HeldOK(q, e)'
  BY <1>1, <1>2, OthersKeep
<1>5. HeldInv'
  BY <1>2, <1>4 DEF HeldInv
<1>6. UnpublishedInv'
  BY <1>1 DEF TimelyInv, HoldersInv, UnpublishedInv
<1>7. BudgetInv'
  <2> SUFFICES ASSUME NEW e \in Events PROVE Budget(e)'
    BY DEF BudgetInv
  <2>1. status'[e] = status[e] /\ retry_count'[e] = retry_count[e]
        /\ tries'[e] = tries[e]
    BY <1>1
  <2>2. ~ At(p, e)'
    BY <1>2 DEF At
  <2>3. CASE ~ At(p, e)
    BY <1>1, <1>2, <2>1, <2>2, <2>3, BudgetStays
  <2>4. CASE At(p, e)
    <3>1. e \in Batch(p)
      BY <2>4 DEF At
    <3>2. InFlight(e) /\ ~ InFlight(e)'
      BY <1>1, <1>2, <2>2, <2>4, <3>1, FlightMine
    <3>3. Budget(e)
      BY DEF TimelyInv, HoldersInv, BudgetInv
    <3>4. /\ faults \in Nat /\ MaxAttempts \in Nat
          /\ tries[e] \in Nat /\ retry_count[e] \in Nat
      BY <1>1, BudgetTypes
    <3> QED
      BY <1>1, <2>1, <3>2, <3>3, <3>4 DEF Budget
  <2> QED
    BY <2>3, <2>4
<1> QED
  BY <1>3, <1>4, <1>5, <1>6, <1>7 DEF TimelyInv, HoldersInv

\* A step changes the status of a settled row only to delete it: a claim only
\* has rows that are not settled locked, and a publisher is only at such rows.
LEMMA StatusChange ==
    ASSUME TimelyInv, ~ LateHolders, ~ LostReplies, [Next]_vars, NEW e \in Events
    PROVE  /\ status[e] = "PROCESSED" => status'[e] \in {"PROCESSED", "purged"}
           /\ status[e] = "FAILED" => status'[e] = "FAILED"
           /\ status[e] = "purged" => status'[e] = "purged"
<1> DEFINE Goal ==
      /\ status[e] = "PROCESSED" => status'[e] \in {"PROCESSED", "purged"}
      /\ status[e] = "FAILED" => status'[e] = "FAILED"
      /\ status[e] = "purged" => status'[e] = "purged"
<1>1. TypeOK /\ RelayInv
  BY DEF TimelyInv, HoldersInv, RelayInv
<1>2. ASSUME NEW f \in Events, \/ Add(f) \/ ClaimTimesOut(f)
                               \/ BackoffElapses(f) \/ RetentionElapses(f)
      PROVE  Goal
  BY <1>1, <1>2
  DEF Add, ClaimTimesOut, BackoffElapses, RetentionElapses, TypeOK
<1>3. ASSUME NEW p \in Publishers, Relay(p) PROVE Goal
  <2>1. CASE ClaimSelect(p) \/ Publish(p)
    BY <2>1 DEF ClaimSelect, Publish, row
  <2>2. CASE ClaimCommit(p)
    <3>1. \A f \in Batch(p) : status[f] \in {"NEW", "PROCESSING"}
      BY <1>1, <2>2, ClaimedRows DEF ClaimCommit
    <3>2. CASE UNCHANGED row
      BY <3>2 DEF row
    <3>3. CASE MarkClaimed(p)
      BY <3>1, <3>3 DEF MarkClaimed
    <3> QED
      BY <2>2, <3>2, <3>3 DEF ClaimCommit
  <2>3. ASSUME MarkProcessed(p) \/ RetryOrFail(p)
        PROVE  Current(p) \in Events /\ status[Current(p)] = "PROCESSING"
    <3>1. pc[p] \in {"mark", "retry"}
      BY <2>3 DEF MarkProcessed, RetryOrFail
    <3>2. Current(p) \in Batch(p) /\ Current(p) \in Events
      BY <1>1, <3>1, CurrentInBatch DEF RelayInv, BatchInv, Working
    <3> QED
      BY <3>1, <3>2 DEF TimelyInv, HoldersInv, HeldInv, HeldOK, Working
  <2>4. CASE MarkProcessed(p)
    <3>1. SetProcessed(Current(p)) \/ UNCHANGED row
      BY <2>4 DEF MarkProcessed
    <3> QED
      BY <1>1, <2>3, <2>4, <3>1, SetProcessedFacts
  <2>5. CASE RetryOrFail(p)
    <3>1. \A f \in Events : f # Current(p) => status'[f] = status[f]
      <4>1. CASE UNCHANGED row
        BY <4>1 DEF row
      <4>2. CASE Release(Current(p), held[p][Current(p)] + 1)
        BY <1>1, <4>2 DEF Release, TypeOK, row
      <4> QED
        BY <2>5, <4>1, <4>2 DEF RetryOrFail
    <3> QED
      BY <2>3, <2>5, <3>1
  <2>6. CASE PurgeSelect(p)
    BY <2>6 DEF PurgeSelect, row
  <2>7. CASE PurgeDelete(p)
    BY <1>1, <2>7, PurgeDeleteFacts DEF TimelyInv, DoomedSettled
  <2> QED
    BY <1>3, <2>1, <2>2, <2>4, <2>5, <2>6, <2>7 DEF Relay, Purge
<1>4. ASSUME NEW p \in Publishers, Crash(p) PROVE Goal
  BY <1>4 DEF Crash, row
<1>5. CASE UNCHANGED vars
  BY <1>5 DEF vars, row
<1> QED
  BY <1>2, <1>3, <1>4, <1>5 DEF Next

\* What a purge has found stays settled until it is deleted.
LEMMA DoomedStays ==
    ASSUME TimelyInv, ~ LateHolders, [Next]_vars PROVE DoomedSettled'
<1> SUFFICES ASSUME ~ LostReplies, NEW q \in Publishers, NEW e \in doomed'[q]
             PROVE  status'[e] \in {"PROCESSED", "purged"}
  BY DEF DoomedSettled
<1>1. TypeOK
  BY DEF TimelyInv, HoldersInv, RelayInv
<1>2. e \in doomed[q] \/ e \in Purgeable
  <2>1. CASE UNCHANGED doomed
    BY <2>1
  <2>2. ASSUME NEW p \in Publishers, doomed' = [doomed EXCEPT ![p] = {}]
        PROVE  e \in doomed[q]
    BY <1>1, <2>2 DEF TypeOK
  <2>3. ASSUME NEW p \in Publishers, PurgeSelect(p)
        PROVE  e \in doomed[q] \/ e \in Purgeable
    BY <1>1, <2>3 DEF PurgeSelect, TypeOK
  <2> QED
    BY <2>1, <2>2, <2>3
    DEF Next, Add, ClaimTimesOut, BackoffElapses, RetentionElapses, Relay,
        ClaimSelect, ClaimCommit, Publish, MarkProcessed, RetryOrFail, Purge,
        PurgeDelete, Crash, vars
<1>3. e \in Events /\ status[e] \in {"PROCESSED", "purged"}
  BY <1>1, <1>2 DEF TimelyInv, DoomedSettled, Purgeable, TypeOK
<1> QED
  BY <1>3, StatusChange

\* With timely holders every step keeps TimelyInv.
LEMMA NextTimelyInv ==
    ASSUME ~ LateHolders PROVE TimelyInv /\ [Next]_vars => TimelyInv'
<1> SUFFICES ASSUME TimelyInv, [Next]_vars PROVE HoldersInv'
  BY DoomedStays DEF TimelyInv
<1>1. CASE \E e \in Events : \/ Add(e) \/ ClaimTimesOut(e)
                             \/ BackoffElapses(e) \/ RetentionElapses(e)
  BY <1>1, RowTimely
<1>2. ASSUME NEW p \in Publishers, Relay(p) PROVE HoldersInv'
  BY <1>2, ClaimSelectTimely, ClaimCommitTimely, PublishTimely,
     MarkProcessedTimely, RetryOrFailTimely, PurgeSelectTimely, PurgeDeleteTimely
  DEF Relay, Purge
<1>3. ASSUME NEW p \in Publishers, Crash(p) PROVE HoldersInv'
  BY <1>3, CrashTimely
<1>4. CASE UNCHANGED vars
  <2>1. UNCHANGED <<status, retry_count, claimed_at, published_at, pc, held,
                    tries, faults>>
    BY <1>4 DEF vars, row, history
  <2>2. \A q \in Publishers : Batch(q)' = Batch(q) /\ Current(q)' = Current(q)
    BY <2>1, SameBatch
  <2>3. RelayInv'
    BY <1>4, NextRelayInv DEF TimelyInv, HoldersInv
  <2>4. HeldInv' /\ ClaimsExclusive' /\ UnpublishedInv'
    BY <2>1, <2>2
    DEF TimelyInv, HoldersInv, HeldInv, HeldOK, ClaimsExclusive, UnpublishedInv
  <2>5. BudgetInv'
    BY <2>1, <2>2 DEF TimelyInv, HoldersInv, BudgetInv, Budget, InFlight, Waiting, At
  <2> QED
    BY <2>3, <2>4, <2>5 DEF TimelyInv, HoldersInv
<1> QED
  BY <1>1, <1>2, <1>3, <1>4 DEF Next

\* With timely holders TimelyInv holds throughout.
LEMMA TimelyInvariant == ASSUME ~ LateHolders PROVE Spec => []TimelyInv
<1>1. Init => TimelyInv
  BY InitTimelyInv
<1>2. TimelyInv /\ [Next]_vars => TimelyInv'
  BY NextTimelyInv
<1> QED
  BY <1>1, <1>2, PTL DEF Spec

(***************************************************************************)
(* Two publishers never have one row in their batches, for any number of   *)
(* publishers that claim concurrently, die and lose replies, provided no   *)
(* claim times out while it is worked on (outbox_queue.py:27-55).          *)
(***************************************************************************)
THEOREM ExclusiveClaims == ASSUME ~ LateHolders PROVE Spec => []ClaimsExclusive
<1>1. TimelyInv => ClaimsExclusive
  BY DEF TimelyInv, HoldersInv
<1> QED
  BY <1>1, TimelyInvariant, PTL

(***************************************************************************)
(* The copy of a record that a publisher counts attempts from is current   *)
(* under the same proviso (publish_outbox.py:115).                         *)
(***************************************************************************)
THEOREM CurrentCopies == ASSUME ~ LateHolders PROVE Spec => []CopiesCurrent
<1>1. TimelyInv => CopiesCurrent
  BY DEF TimelyInv, HoldersInv, HeldInv, HeldOK, CopiesCurrent
<1> QED
  BY <1>1, TimelyInvariant, PTL

(***************************************************************************)
(* A row costs at most max_attempts publishes and one more for each crash, *)
(* failed transaction or lost reply, under the same proviso.               *)
(***************************************************************************)
THEOREM BudgetKept == ASSUME ~ LateHolders PROVE Spec => []PublishBudget
<1>1. TimelyInv => PublishBudget
  <2> SUFFICES ASSUME TimelyInv, NEW e \in Events
               PROVE  tries[e] <= MaxAttempts + faults
    BY DEF PublishBudget
  <2>1. /\ faults \in Nat /\ MaxAttempts \in Nat
        /\ tries[e] \in Nat /\ retry_count[e] \in Nat
    BY BudgetTypes DEF TimelyInv, HoldersInv, RelayInv
  <2>2. retry_count[e] <= MaxAttempts
    BY RelayAssumption DEF TimelyInv, HoldersInv, RelayInv, TypeOK
  <2>3. Budget(e)
    BY DEF TimelyInv, HoldersInv, BudgetInv
  <2> QED
    BY <2>1, <2>2, <2>3 DEF Budget
<1> QED
  BY <1>1, TimelyInvariant, PTL

(***************************************************************************)
(* PROCESSED is left only by the purge and FAILED never, although          *)
(* mark_processed and release update whatever row has the id: provided no  *)
(* claim times out while it is worked on and no reply is lost              *)
(* (outbox_queue.py:57-92).                                                *)
(***************************************************************************)
THEOREM SettledFinal ==
    ASSUME ~ LateHolders, ~ LostReplies PROVE Spec => SettledIsFinal
<1>1. TimelyInv /\ [Next]_vars =>
        [\A e \in Events :
           /\ status[e] = "PROCESSED" => status'[e] \in {"PROCESSED", "purged"}
           /\ status[e] = "FAILED" => status'[e] = "FAILED"]_vars
  BY StatusChange
<1>2. Spec => []TimelyInv
  BY TimelyInvariant
<1> QED
  BY <1>1, <1>2, PTL DEF Spec, SettledIsFinal

(***************************************************************************)
(* A row that carries published_at is not relayed again, under the same    *)
(* provisos (README.md:8-9, publish_outbox.py:101-103).                    *)
(***************************************************************************)
THEOREM OnlyUnpublished ==
    ASSUME ~ LateHolders, ~ LostReplies PROVE Spec => OnlyUnpublishedRelayed
<1>1. ASSUME TimelyInv, [Next]_vars, NEW e \in Events, tries'[e] > tries[e]
      PROVE  published_at[e] = None
  <2>1. TypeOK /\ RelayInv /\ tries[e] \in Nat
    BY <1>1 DEF TimelyInv, HoldersInv, RelayInv, TypeOK
  <2>2. tries' # tries
    BY <1>1, <2>1
  <2>3. PICK p \in Publishers : Publish(p)
    BY <1>1, <2>2
    DEF Next, Add, ClaimTimesOut, BackoffElapses, RetentionElapses, Relay,
        ClaimSelect, ClaimCommit, MarkProcessed, RetryOrFail, Purge,
        PurgeSelect, PurgeDelete, Crash,
        Fault, history, vars
  <2>4. pc[p] = "publish" /\ tries' = [tries EXCEPT ![Current(p)] = @ + 1]
    BY <2>3 DEF Publish
  <2>5. Current(p) \in Batch(p) /\ Current(p) \in Events
    BY <2>1, <2>4, CurrentInBatch DEF RelayInv, BatchInv, Working
  <2>6. e = Current(p)
    <3>1. e # Current(p) => tries'[e] = tries[e]
      BY <2>1, <2>4, <2>5 DEF TypeOK
    <3> QED
      BY <1>1, <2>1, <3>1
  <2>7. status[e] = "PROCESSING"
    BY <1>1, <2>4, <2>5, <2>6 DEF TimelyInv, HoldersInv, HeldInv, HeldOK, Working
  <2> QED
    BY <1>1, <2>7 DEF TimelyInv, HoldersInv, UnpublishedInv
<1>2. TimelyInv /\ [Next]_vars =>
        [\A e \in Events : tries'[e] > tries[e] => published_at[e] = None]_vars
  BY <1>1
<1>3. Spec => []TimelyInv
  BY TimelyInvariant
<1> QED
  BY <1>2, <1>3, PTL DEF Spec, OnlyUnpublishedRelayed

-------------------------------------------------------------------------------
(***************************************************************************)
(* For a specification whose writer is another component, as in            *)
(* PaymentService.                                                         *)
(***************************************************************************)

\* Rows come from the writer alone: no step of a publisher and no timeout
\* makes one, and what a purge deletes was written all the same.
LEMMA WrittenStays ==
    ASSUME RelayInv,
           \/ \E e \in Events : \/ ClaimTimesOut(e) \/ BackoffElapses(e)
                                \/ RetentionElapses(e)
           \/ \E p \in Publishers : Relay(p) \/ Crash(p)
           \/ UNCHANGED vars
    PROVE  \A e \in Events : status'[e] = "none" <=> status[e] = "none"
<1> DEFINE Goal == \A e \in Events : status'[e] = "none" <=> status[e] = "none"
<1>1. TypeOK
  BY DEF RelayInv
<1>2. ASSUME status' = status PROVE Goal
  BY <1>2
<1>3. ASSUME NEW p \in Publishers, ClaimCommit(p) PROVE Goal
  <2>1. \A f \in Batch(p) : status[f] \in {"NEW", "PROCESSING"}
    BY <1>3, ClaimedRows DEF ClaimCommit
  <2>2. CASE MarkClaimed(p)
    BY <2>1, <2>2 DEF MarkClaimed
  <2> QED
    BY <1>2, <1>3, <2>2 DEF ClaimCommit, row
<1>4. ASSUME NEW p \in Publishers, MarkProcessed(p) PROVE Goal
  <2>1. CASE SetProcessed(Current(p))
    BY <1>1, <2>1 DEF SetProcessed, Exists, TypeOK, row
  <2> QED
    BY <1>2, <1>4, <2>1 DEF MarkProcessed, row
<1>5. ASSUME NEW p \in Publishers, RetryOrFail(p) PROVE Goal
  <2>1. CASE Release(Current(p), held[p][Current(p)] + 1)
    BY <1>1, <2>1 DEF Release, Exists, TypeOK, row
  <2> QED
    BY <1>2, <1>5, <2>1 DEF RetryOrFail, row
<1>6. ASSUME NEW p \in Publishers, Purge(p) PROVE Goal
  <2>1. CASE PurgeSelect(p)
    BY <1>2, <2>1 DEF PurgeSelect, row
  <2>2. CASE PurgeDelete(p)
    <3>1. \A e \in doomed[p] : status[e] # "none"
      BY DEF RelayInv, DoomedInv
    <3> QED
      BY <1>1, <2>2, <3>1, PurgeDeleteFacts
  <2> QED
    BY <1>6, <2>1, <2>2 DEF Purge
<1>7. ASSUME NEW p \in Publishers, ClaimSelect(p) \/ Publish(p) \/ Crash(p)
      PROVE  Goal
  BY <1>2, <1>7 DEF ClaimSelect, Publish, Crash, row
<1>8. ASSUME NEW e \in Events, \/ ClaimTimesOut(e) \/ BackoffElapses(e)
                               \/ RetentionElapses(e)
      PROVE  Goal
  BY <1>2, <1>8 DEF ClaimTimesOut, BackoffElapses, RetentionElapses
<1>9. ASSUME UNCHANGED vars PROVE Goal
  BY <1>2, <1>9 DEF vars, row
<1>10. ASSUME NEW p \in Publishers, Relay(p) PROVE Goal
  BY <1>10, <1>3, <1>4, <1>5, <1>6, <1>7 DEF Relay
<1> HIDE DEF Goal
<1>11. Goal
  BY <1>7, <1>8, <1>9, <1>10
<1> QED
  BY <1>11 DEF Goal

\* The broker gets an event only from the publisher that is at it.
LEMMA SentByPublish ==
    ASSUME \/ \E e \in Events : \/ Add(e) \/ ClaimTimesOut(e)
                                \/ BackoffElapses(e) \/ RetentionElapses(e)
           \/ \E p \in Publishers :
                \/ ClaimSelect(p) \/ ClaimCommit(p) \/ MarkProcessed(p)
                \/ RetryOrFail(p) \/ Purge(p) \/ Crash(p)
           \/ UNCHANGED vars
    PROVE  sent' = sent
  BY DEF Add, ClaimTimesOut, BackoffElapses, RetentionElapses, ClaimSelect,
         ClaimCommit, MarkProcessed, RetryOrFail, Purge, PurgeSelect,
         PurgeDelete, Crash, Fault, history, vars
===============================================================================

----------------------------- MODULE CreatePayment -----------------------------
(***************************************************************************)
(* POST /api/v1/payments: the use case CreatePayment behind the HTTP       *)
(* boundary, over the tables payments and outbox. Requests overlap; their  *)
(* steps are what they await: the flush of the payment's row, the commit,  *)
(* the rollback, the SELECT of a replay.                                   *)
(*                                                                         *)
(* A request is named after the payment its uuid4() would create.          *)
(***************************************************************************)
EXTENDS Integers

CONSTANTS
    Requests,       \* POSTs, hence the ids of payments
    Keys,           \* values of the header Idempotency-Key
    Orders,         \* amount, currency, description and webhook_url
    Metadata,
    Stored,         \* Stored[m]: what column metadata, a JSONB, returns for m
    None,           \* no row, no value
    MaxFaults       \* bound: lost processes, transactions that raise

ASSUME CreateAssumption ==
    /\ Stored \in [Metadata -> Metadata]
    /\ \A m \in Metadata : Stored[Stored[m]] = Stored[m]
    /\ None \notin Requests
    /\ MaxFaults \in Nat
    /\ None \notin [key : Keys, body : [order : Orders, metadata : Metadata]]

VARIABLES
    payments,       \* payments[p]: the status column, "absent": no row
    columns,        \* columns[p]: the row's columns a request determines
    outbox,         \* the payments with an outbox row
    pc,             \* pc[r]: what the handling of request r does next
    request,        \* request[r]: what r asks for
    answer,         \* answer[r]: the response
    \* What happened so far: no code reads these.
    faults

tables == <<payments, columns, outbox>>
handling == <<pc, request, answer>>
vars == <<tables, handling, faults>>

Terminal == {"succeeded", "failed"}
Statuses == {"absent", "pending"} \cup Terminal

Body == [order : Orders, metadata : Metadata]
Command == [key : Keys, body : Body]

\* A mutant: the mapper leaves out the key.
RowWithoutKey(command) == [command EXCEPT !.key = None]

\* A row holds what PaymentMapper writes, as PostgreSQL gives it back.
Row(command) ==
    [command EXCEPT !.body.metadata = Stored[command.body.metadata]]

\* PaymentOutput.from_payment, as the response to a POST.
Accepted(payment) ==
    [code |-> "202", payment |-> payment.id, status |-> payment.status]

\* The responses of HttpErrorBoundary and of FastAPI's own checks.
Codes == {"401", "409", "422", "500"}
Refused(code) == [code |-> code, payment |-> None, status |-> None]

Answers ==
    [code : {"202"}, payment : Requests, status : Statuses \ {"absent"}]
        \cup {Refused(code) : code \in Codes}

ASSUME AnswerAssumption == None \notin Answers

Flight == {"insert", "commit", "rollback", "replay"}

TypeOK ==
    /\ payments \in [Requests -> Statuses]
    /\ columns \in [Requests -> Command \cup {None}]
    /\ outbox \in SUBSET Requests
    /\ pc \in [Requests -> Flight \cup {"idle", "answered", "lost"}]
    /\ request \in [Requests -> Command \cup {None}]
    /\ answer \in [Requests -> Answers \cup {None}]
    /\ faults \in 0 .. MaxFaults

Init ==
    /\ payments = [p \in Requests |-> "absent"]
    /\ columns = [p \in Requests |-> None]
    /\ outbox = {}
    /\ pc = [r \in Requests |-> "idle"]
    /\ request = [r \in Requests |-> None]
    /\ answer = [r \in Requests |-> None]
    /\ faults = 0

Exists(p) == payments[p] # "absent"

\* get_by_idempotency_key: the committed rows with a key, at most one.
RowsOf(key) == {p \in Requests : Exists(p) /\ columns[p].key = key}

\* The payment of a request, and the one of a row.
Create(r) == [id |-> r, status |-> "pending", input |-> request[r]]
Reconstitute(p) == [id |-> p, status |-> payments[p], input |-> columns[p]]

\* GET /api/v1/payments/{payment_id}
Found(payment) == [code |-> "200", body |-> payment]
GetPayment(p) == IF Exists(p) THEN Found(Reconstitute(p)) ELSE [code |-> "404"]

-------------------------------------------------------------------------------
(***************************************************************************)
(* The boundary.                                                           *)
(***************************************************************************)

Reply(r, response) ==
    /\ pc' = [pc EXCEPT ![r] = "answered"]
    /\ answer' = [answer EXCEPT ![r] = response]

Goto(r, step) == pc' = [pc EXCEPT ![r] = step] /\ UNCHANGED answer

\* What a request may get wrong, and the responses to that. The body is read
\* first; compare_digest raises on an API key that is not ASCII.
Flaws == {"json", "api_key", "schema", "blank_key"}

Verdicts(flaws) ==
    IF "api_key" \in flaws /\ "json" \notin flaws
      THEN {"401", "500"} ELSE {"422"}

\* Nothing of a request with a flaw reaches a table.
Refuse(r) ==
    /\ pc[r] = "idle"
    /\ \E flaws \in SUBSET Flaws \ {{}} :
         \E code \in Verdicts(flaws) : Reply(r, Refused(code))
    /\ UNCHANGED <<tables, request, faults>>

Accept(r) ==
    /\ pc[r] = "idle"
    /\ \E command \in Command : request' = [request EXCEPT ![r] = command]
    /\ Goto(r, "insert")
    /\ UNCHANGED <<tables, faults>>

-------------------------------------------------------------------------------
(***************************************************************************)
(* CreatePayment.                                                          *)
(***************************************************************************)

\* A mutant: __aexit__ does not roll back, the session keeps its row.
UncommittedNotRolledBack ==
    {r \in Requests : \/ pc[r] = "commit"
                      \/ answer[r] = Refused("500") /\ request[r] # None}

\* Requests whose flushed row is in a transaction that is still open.
Uncommitted == {r \in Requests : pc[r] = "commit"}

\* IdempotencyConstraint: the key is the only column a new row can collide on.
IsIdempotencyConflict(r) == RowsOf(request[r].key) # {}

\* A mutant: the key is looked up instead of being constrained.
InsertLooksUp(r) ==
    /\ pc[r] = "insert"
    /\ Goto(r, IF IsIdempotencyConflict(r) THEN "rollback" ELSE "commit")
    /\ UNCHANGED <<tables, request, faults>>

(***************************************************************************)
(* payments.add: the unique index makes it wait for an open transaction    *)
(* with its key; over a committed row it raises DuplicateIdempotencyKey.   *)
(***************************************************************************)
Insert(r) ==
    /\ pc[r] = "insert"
    /\ \A q \in Uncommitted : request[q].key # request[r].key
    /\ Goto(r, IF IsIdempotencyConflict(r) THEN "rollback" ELSE "commit")
    /\ UNCHANGED <<tables, request, faults>>

\* A mutant: the outbox row is written after the commit, in its own.
WriteOutboxLater(r) ==
    /\ payments' = [payments EXCEPT ![r] = "pending"]
    /\ columns' = [columns EXCEPT ![r] = Row(request[r])]
    /\ outbox' = outbox \/ outbox' = outbox \cup {r}

\* What the transaction writes: the payment and its event, together.
Write(r) ==
    /\ payments' = [payments EXCEPT ![r] = "pending"]
    /\ columns' = [columns EXCEPT ![r] = Row(request[r])]
    /\ outbox' = outbox \cup {r}

Fault == faults < MaxFaults /\ faults' = faults + 1

(***************************************************************************)
(* uow.commit, which also flushes the outbox row. It may commit and raise. *)
(* The response is made from the payment in memory.                        *)
(***************************************************************************)
Commit(r) ==
    /\ pc[r] = "commit"
    /\ \/ Write(r) /\ Reply(r, Accepted(Create(r))) /\ UNCHANGED faults
       \/ Write(r) /\ Reply(r, Refused("500")) /\ Fault
    /\ UNCHANGED request

\* __aexit__ after DuplicateIdempotencyKey, before _replay_existing.
Rollback(r) ==
    /\ pc[r] = "rollback"
    /\ Goto(r, "replay")
    /\ UNCHANGED <<tables, request, faults>>

\* A mutant: amount, currency, description and webhook_url are not compared.
HasMatchingMetadata(payment, command) ==
    payment.input.body.metadata = command.body.metadata

\* A mutant: the whole payment is compared with the one just built.
HasMatchingPayment(payment, command) ==
    payment.input.body = command.body /\ payment.status = "pending"

\* has_matching_create_input compares the row with what was sent.
HasMatchingCreateInput(payment, command) == payment.input.body = command.body

\* _replay_existing.
Replay(r) ==
    LET existing == {Reconstitute(p) : p \in RowsOf(request[r].key)}
        matching == {payment \in existing :
                       HasMatchingCreateInput(payment, request[r])} IN
    /\ pc[r] = "replay"
    /\ IF matching = {} THEN Reply(r, Refused("409"))
         ELSE \E payment \in matching : Reply(r, Accepted(payment))
    /\ UNCHANGED <<tables, request, faults>>

\* A statement or a commit raises and nothing was committed.
DatabaseFails(r) ==
    /\ pc[r] \in Flight
    /\ Fault
    /\ Reply(r, Refused("500"))
    /\ UNCHANGED <<tables, request>>

\* The process is gone: an open transaction ends either way, nobody answers.
Lose(r) ==
    /\ pc[r] \in Flight
    /\ Fault
    /\ \/ UNCHANGED tables
       \/ pc[r] = "commit" /\ Write(r)
    /\ Goto(r, "lost")
    /\ UNCHANGED request

Handle(r) ==
    \/ Insert(r) \/ Commit(r) \/ Rollback(r) \/ Replay(r)
    \/ DatabaseFails(r)

-------------------------------------------------------------------------------

\* The consumer settles a payment.
Settle(p) ==
    /\ payments[p] = "pending"
    /\ \E status \in Terminal : payments' = [payments EXCEPT ![p] = status]
    /\ UNCHANGED <<columns, outbox, handling, faults>>

Next ==
    \E r \in Requests :
        \/ Refuse(r) \/ Accept(r) \/ Handle(r) \/ Lose(r)
        \/ Settle(r)

Spec == Init /\ [][Next]_vars

\* PostgreSQL answers or the connection breaks; a transaction that waits for
\* a row with its key goes on when the other one ends.
FairSpec == Spec /\ \A r \in Requests : WF_vars(Handle(r))

-------------------------------------------------------------------------------

(***************************************************************************)
(* At most one payment per Idempotency-Key, however requests overlap and   *)
(* whichever commits raise (create_payment.py:51-61).                      *)
(***************************************************************************)
OnePaymentPerKey ==
    \A p, q \in Requests :
        Exists(p) /\ Exists(q) /\ columns[p].key = columns[q].key => p = q

(***************************************************************************)
(* A payment never exists without the event that gets it processed, nor an *)
(* event without its payment: after a lost process, a failed commit or one *)
(* that committed and raised as well (create_payment.py:52-59).            *)
(***************************************************************************)
EventPerPayment == outbox = {p \in Requests : Exists(p)}

(***************************************************************************)
(* Who is told 202 of a payment finds it by a GET from then on: with his   *)
(* key, with what he asked for, and with the outcome he was told, if he    *)
(* was told one (create_payment.py:63-77, get_payment.py:15-20).           *)
(***************************************************************************)
AnswersAgree ==
    \A r \in Requests :
        answer[r] # None /\ answer[r].code = "202" =>
            LET got == GetPayment(answer[r].payment) IN
            /\ got.code = "200"
            /\ got.body.input.key = request[r].key
            /\ got.body.input.body \in {request[r].body, Row(request[r]).body}
            /\ answer[r].status \in {"pending", got.body.status}

(***************************************************************************)
(* A request is answered 409 only when its key is taken by another body,   *)
(* or when its metadata is not what JSONB makes of it: never because the   *)
(* payment it repeats is still being written or was settled meanwhile      *)
(* (create_payment.py:71-76).                                              *)
(***************************************************************************)
ConflictIsReal ==
    \A r \in Requests :
        answer[r] = Refused("409") =>
            \E p \in RowsOf(request[r].key) :
                \/ request[p].body # request[r].body
                \/ Row(request[r]) # request[r]

(***************************************************************************)
(* Every request that got past the checks is answered unless its process   *)
(* is lost: one that waits for another's key is not left waiting, whatever *)
(* becomes of the other (uow.py:40-50).                                    *)
(***************************************************************************)
RequestsAnswered ==
    \A r \in Requests : pc[r] \in Flight ~> pc[r] \in {"answered", "lost"}

(***************************************************************************)
(* README.md:86-87 "Execute POST again with the same `Idempotency-Key` and *)
(* the same body. You still get **202** and the **same** `payment_id`": no *)
(* request is answered 409 that repeats the one that created the payment.  *)
(***************************************************************************)
SameRequestTwice ==
    \A r \in Requests :
        answer[r] = Refused("409") =>
            \A p \in RowsOf(request[r].key) : request[p].body # request[r].body
===============================================================================

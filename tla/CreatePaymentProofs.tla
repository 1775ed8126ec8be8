-------------------------- MODULE CreatePaymentProofs --------------------------
(***************************************************************************)
(* What CreatePayment promises for any number of overlapping requests, any *)
(* keys and bodies, whatever JSONB makes of metadata and however many      *)
(* processes and commits are lost.                                         *)
(***************************************************************************)
EXTENDS CreatePayment, TLAPS

\* A request that is being handled has no answer yet; one that is rolled back
\* or replayed met a row with its key.
HandlingInv ==
    \A r \in Requests :
        /\ pc[r] \in Flight => request[r] \in Command
        /\ pc[r] \in Flight \cup {"idle"} => answer[r] = None
        /\ pc[r] \in {"rollback", "replay"} => RowsOf(request[r].key) # {}

\* A row is what JSONB makes of its request, and its request is over.
RowsInv ==
    \A p \in Requests :
        IF Exists(p)
          THEN /\ request[p] \in Command
               /\ columns[p] = Row(request[p])
               /\ pc[p] \in {"answered", "lost"}
          ELSE columns[p] = None

\* The unique index: a flushed row shares its key with no other, flushed or
\* committed.
KeysInv ==
    \A r \in Uncommitted :
        /\ RowsOf(request[r].key) = {}
        /\ \A q \in Uncommitted : request[q].key = request[r].key => q = r

ApiInv ==
    /\ TypeOK
    /\ HandlingInv
    /\ RowsInv
    /\ KeysInv
    /\ OnePaymentPerKey
    /\ EventPerPayment
    /\ AnswersAgree
    /\ ConflictIsReal

-------------------------------------------------------------------------------
(***************************************************************************)
(* Operators.                                                              *)
(***************************************************************************)

\* A row has the key and the order of its request, and its stored metadata.
LEMMA RowFields ==
    ASSUME NEW c \in Command
    PROVE  /\ Row(c) \in Command
           /\ Row(c).key = c.key
           /\ Row(c).body = [order |-> c.body.order,
                             metadata |-> Stored[c.body.metadata]]
  BY CreateAssumption DEF Row, Command, Body

\* A column that is a command is no NULL.
LEMMA CommandNotNone == None \notin Command
  BY CreateAssumption DEF Command, Body

\* What a response says.
LEMMA AnswerFields ==
    /\ \A code \in Codes : /\ Refused(code) \in Answers
                           /\ Refused(code).code = code
                           /\ Refused(code).code # "202"
                           /\ Refused(code).payment = None
    /\ \A payment : /\ Accepted(payment).code = "202"
                    /\ Accepted(payment).payment = payment.id
                    /\ Accepted(payment).status = payment.status
                    /\ Accepted(payment) # Refused("409")
<1>1. \A code \in Codes : /\ Refused(code) \in Answers
                          /\ Refused(code).code = code
                          /\ Refused(code).code # "202"
                          /\ Refused(code).payment = None
  BY DEF Refused, Answers, Codes
<1>2. \A payment : /\ Accepted(payment).code = "202"
                   /\ Accepted(payment).payment = payment.id
                   /\ Accepted(payment).status = payment.status
  BY DEF Accepted
<1>3. Refused("409").code = "409"
  BY DEF Refused
<1>4. \A payment : Accepted(payment) # Refused("409")
  BY <1>2, <1>3
<1> QED
  BY <1>1, <1>2, <1>4

\* A GET finds a payment that exists with its columns.
LEMMA GetFields ==
    ASSUME NEW p
    PROVE  /\ GetPayment(p).code = "200" <=> Exists(p)
           /\ Exists(p) => /\ GetPayment(p).body.input = columns[p]
                           /\ GetPayment(p).body.status = payments[p]
  BY DEF GetPayment, Found, Reconstitute

\* AnswersAgree in terms of the tables.
Agrees(r) ==
    answer[r] # None /\ answer[r].code = "202" =>
        /\ Exists(answer[r].payment)
        /\ columns[answer[r].payment].key = request[r].key
        /\ columns[answer[r].payment].body \in {request[r].body, Row(request[r]).body}
        /\ answer[r].status \in {"pending", payments[answer[r].payment]}

\* The two statements of AnswersAgree are one.
LEMMA AgreesIff == AnswersAgree <=> \A r \in Requests : Agrees(r)
  BY GetFields DEF AnswersAgree, Agrees

\* So are they in the next state.
LEMMA AgreesIffNext == AnswersAgree' <=> \A r \in Requests : Agrees(r)'
<1>1. (AnswersAgree <=> \A r \in Requests : Agrees(r))'
  BY AgreesIff, PTL
<1> QED
  BY <1>1

-------------------------------------------------------------------------------
(***************************************************************************)
(* Every step keeps ApiInv.                                                *)
(***************************************************************************)

\* An empty database satisfies ApiInv.
LEMMA InitApiInv == ASSUME Init PROVE ApiInv
<1>1. TypeOK
  BY CreateAssumption DEF Init, TypeOK, Statuses
<1>2. HandlingInv /\ RowsInv /\ KeysInv
  BY DEF Init, HandlingInv, RowsInv, KeysInv, Flight, Uncommitted, Exists
<1>3. OnePaymentPerKey /\ EventPerPayment
  BY DEF Init, OnePaymentPerKey, EventPerPayment, Exists
<1>4. AnswersAgree
  BY DEF Init, AnswersAgree
<1>5. ConflictIsReal
  <2>1. Refused("409") # None
    BY AnswerFields, AnswerAssumption DEF Codes
  <2> QED
    BY <2>1 DEF Init, ConflictIsReal
<1> QED
  BY <1>1, <1>2, <1>3, <1>4, <1>5 DEF ApiInv

\* Rows by key, when the tables do not change.
LEMMA SameRows ==
    ASSUME UNCHANGED <<payments, columns>>
    PROVE  /\ \A key : RowsOf(key)' = RowsOf(key)
           /\ \A p : Exists(p)' <=> Exists(p)
  BY DEF RowsOf, Exists

\* A step of request r that leaves the tables, its command and the others
\* alone, and ends or goes on without a 202 or a 409.
LEMMA QuietStep ==
    ASSUME ApiInv, NEW r \in Requests, UNCHANGED <<tables, request>>,
           faults' \in 0 .. MaxFaults, ~ Exists(r),
           NEW step, pc' = [pc EXCEPT ![r] = step],
           \/ /\ step = "replay" /\ pc[r] = "rollback" /\ UNCHANGED answer
           \/ /\ step = "lost" /\ UNCHANGED answer
           \/ /\ step = "answered"
              /\ \E code \in {"401", "422", "500"} :
                   answer' = [answer EXCEPT ![r] = Refused(code)]
    PROVE  ApiInv'
<1>1. /\ TypeOK
      /\ UNCHANGED <<payments, columns, outbox, request>>
  BY DEF ApiInv, tables
<1>2. \A q \in Requests : q # r => pc'[q] = pc[q] /\ answer'[q] = answer[q]
  BY <1>1 DEF TypeOK
<1>3. \/ /\ pc'[r] = "replay" /\ pc[r] = "rollback" /\ UNCHANGED answer
      \/ /\ pc'[r] = "lost" /\ UNCHANGED answer
      \/ /\ pc'[r] = "answered"
         /\ \E code \in {"401", "422", "500"} : answer'[r] = Refused(code)
  BY <1>1 DEF TypeOK
<1>4. /\ \A key : RowsOf(key)' = RowsOf(key)
      /\ \A p : Exists(p)' <=> Exists(p)
  BY <1>1, SameRows
<1>5. TypeOK'
  <2>1. \A code \in {"401", "422", "500"} : Refused(code) \in Answers
    BY AnswerFields DEF Codes
  <2>2. step \in Flight \cup {"idle", "answered", "lost"}
    BY DEF Flight
  <2> QED
    BY <1>1, <2>1, <2>2 DEF TypeOK
<1>6. HandlingInv'
  BY <1>1, <1>2, <1>3, <1>4 DEF ApiInv, HandlingInv, Flight
<1>7. RowsInv'
  BY <1>1, <1>2, <1>4 DEF ApiInv, RowsInv
<1>8. KeysInv'
  BY <1>1, <1>2, <1>3, <1>4 DEF ApiInv, KeysInv, Uncommitted
<1>9. OnePaymentPerKey' /\ EventPerPayment'
  BY <1>1, <1>4 DEF ApiInv, OnePaymentPerKey, EventPerPayment
<1>10. \A code \in {"401", "422", "500"} :
         Refused(code).code # "202" /\ Refused(code) # Refused("409")
  BY AnswerFields DEF Codes
<1>11. AnswersAgree'
  <2>1. \A q \in Requests : Agrees(q)'
    BY <1>1, <1>2, <1>3, <1>4, <1>10, AgreesIff DEF ApiInv, Agrees
  <2> QED
    BY <2>1, AgreesIffNext
<1>12. ConflictIsReal'
  BY <1>1, <1>2, <1>3, <1>4, <1>10 DEF ApiInv, ConflictIsReal
<1> QED
  BY <1>5, <1>6, <1>7, <1>8, <1>9, <1>11, <1>12 DEF ApiInv

\* A request that is not over has no row.
LEMMA NoRowYet ==
    ASSUME ApiInv, NEW r \in Requests, pc[r] \in Flight \cup {"idle"}
    PROVE  ~ Exists(r)
  BY DEF ApiInv, RowsInv, Flight

\* A request that passes the checks starts without a row and without an answer.
LEMMA AcceptInv ==
    ASSUME ApiInv, NEW r \in Requests, Accept(r) PROVE ApiInv'
<1>1. /\ TypeOK /\ pc[r] = "idle"
      /\ UNCHANGED <<payments, columns, outbox, answer, faults>>
      /\ pc' = [pc EXCEPT ![r] = "insert"]
  BY DEF ApiInv, Accept, Goto, tables
<1>2. PICK command \in Command : request' = [request EXCEPT ![r] = command]
  BY DEF Accept
<1>3. \A q \in Requests : q # r => pc'[q] = pc[q] /\ request'[q] = request[q]
  BY <1>1, <1>2 DEF TypeOK
<1>4. pc'[r] = "insert" /\ request'[r] \in Command /\ answer[r] = None
  BY <1>1, <1>2 DEF TypeOK, ApiInv, HandlingInv
<1>5. /\ \A key : RowsOf(key)' = RowsOf(key)
      /\ \A p : Exists(p)' <=> Exists(p)
  BY <1>1, SameRows
<1>6. ~ Exists(r)
  BY <1>1, NoRowYet
<1>7. TypeOK'
  BY <1>1, <1>2 DEF TypeOK, Flight
<1>8. HandlingInv'
  BY <1>1, <1>3, <1>4, <1>5 DEF ApiInv, HandlingInv, Flight
<1>9. RowsInv'
  BY <1>1, <1>3, <1>5, <1>6 DEF ApiInv, RowsInv
<1>10. KeysInv'
  BY <1>3, <1>4, <1>5 DEF ApiInv, KeysInv, Uncommitted
<1>11. OnePaymentPerKey' /\ EventPerPayment'
  BY <1>1, <1>5 DEF ApiInv, OnePaymentPerKey, EventPerPayment
<1>12. AnswersAgree'
  <2>1. \A q \in Requests : Agrees(q)'
    BY <1>1, <1>3, <1>4, <1>5, AgreesIff DEF ApiInv, Agrees
  <2> QED
    BY <2>1, AgreesIffNext
<1>13. ConflictIsReal'
  <2>1. Refused("409") # None
    BY AnswerFields, AnswerAssumption DEF Codes
  <2>2. \A key : \A p \in RowsOf(key) : p \in Requests /\ p # r
    BY <1>6 DEF RowsOf
  <2> QED
    BY <1>1, <1>3, <1>4, <1>5, <2>1, <2>2 DEF ApiInv, ConflictIsReal
<1> QED
  BY <1>7, <1>8, <1>9, <1>10, <1>11, <1>12, <1>13 DEF ApiInv

\* The index lets a row in when its key is free, and reports it otherwise.
LEMMA InsertInv ==
    ASSUME ApiInv, NEW r \in Requests, Insert(r) PROVE ApiInv'
<1>1. /\ TypeOK /\ pc[r] = "insert"
      /\ UNCHANGED <<payments, columns, outbox, request, answer, faults>>
      /\ \A q \in Uncommitted : request[q].key # request[r].key
      /\ \/ pc' = [pc EXCEPT ![r] = "rollback"] /\ RowsOf(request[r].key) # {}
         \/ pc' = [pc EXCEPT ![r] = "commit"] /\ RowsOf(request[r].key) = {}
  BY DEF ApiInv, Insert, Goto, IsIdempotencyConflict, tables
<1>2. /\ \A q \in Requests : q # r => pc'[q] = pc[q]
      /\ \/ pc'[r] = "rollback" /\ RowsOf(request[r].key) # {}
         \/ pc'[r] = "commit" /\ RowsOf(request[r].key) = {}
  BY <1>1 DEF TypeOK
<1>3. /\ \A key : RowsOf(key)' = RowsOf(key)
      /\ \A p : Exists(p)' <=> Exists(p)
  BY <1>1, SameRows
<1>4. ~ Exists(r)
  BY <1>1, NoRowYet DEF Flight
<1>5. TypeOK'
  BY <1>1 DEF TypeOK, Flight
<1>6. HandlingInv'
  BY <1>1, <1>2, <1>3 DEF ApiInv, HandlingInv, Flight
<1>7. RowsInv'
  BY <1>1, <1>2, <1>3, <1>4 DEF ApiInv, RowsInv
<1>8. KeysInv'
  <2>1. \A q \in Uncommitted' : q # r => q \in Uncommitted
    BY <1>2 DEF Uncommitted
  <2>2. \A q \in Uncommitted' : RowsOf(request[q].key) = {}
    BY <1>2, <2>1 DEF ApiInv, KeysInv, Uncommitted
  <2> QED
    BY <1>1, <1>3, <2>1, <2>2 DEF ApiInv, KeysInv
<1>9. OnePaymentPerKey' /\ EventPerPayment'
  BY <1>1, <1>3 DEF ApiInv, OnePaymentPerKey, EventPerPayment
<1>10. AnswersAgree'
  <2>1. \A q \in Requests : Agrees(q)'
    BY <1>1, <1>3, AgreesIff DEF ApiInv, Agrees
  <2> QED
    BY <2>1, AgreesIffNext
<1>11. ConflictIsReal'
  BY <1>1, <1>3 DEF ApiInv, ConflictIsReal
<1> QED
  BY <1>5, <1>6, <1>7, <1>8, <1>9, <1>10, <1>11 DEF ApiInv

\* A commit takes effect, and the request is told 202, told 500 or lost.
LEMMA WriteInv ==
    ASSUME ApiInv, NEW r \in Requests, pc[r] = "commit", Write(r),
           UNCHANGED request, faults' \in 0 .. MaxFaults,
           NEW step \in {"answered", "lost"}, pc' = [pc EXCEPT ![r] = step],
           \/ answer' = [answer EXCEPT ![r] = Accepted(Create(r))]
           \/ answer' = [answer EXCEPT ![r] = Refused("500")]
           \/ UNCHANGED answer
    PROVE  ApiInv'
<1>1. /\ TypeOK /\ request[r] \in Command /\ answer[r] = None
      /\ r \in Uncommitted
  BY DEF ApiInv, HandlingInv, Flight, Uncommitted
<1>2. /\ payments' = [payments EXCEPT ![r] = "pending"]
      /\ columns' = [columns EXCEPT ![r] = Row(request[r])]
      /\ outbox' = outbox \cup {r}
  BY DEF Write
<1>3. /\ Row(request[r]) \in Command
      /\ Row(request[r]).key = request[r].key
  BY <1>1, RowFields
<1>4. /\ payments'[r] = "pending" /\ columns'[r] = Row(request[r])
      /\ pc'[r] \in {"answered", "lost"}
      /\ \A q \in Requests : q # r => /\ payments'[q] = payments[q]
                                      /\ columns'[q] = columns[q]
                                      /\ pc'[q] = pc[q]
                                      /\ answer'[q] = answer[q]
      /\ answer'[r] \in {Accepted(Create(r)), Refused("500"), None}
  BY <1>1, <1>2 DEF TypeOK
<1>5. ~ Exists(r)
  BY <1>1, NoRowYet DEF Flight
<1>6. /\ Exists(r)'
      /\ \A q \in Requests : q # r => (Exists(q)' <=> Exists(q))
  BY <1>4 DEF Exists
<1>7. \A key : RowsOf(key)' =
        IF key = request[r].key THEN RowsOf(key) \cup {r} ELSE RowsOf(key)
  BY <1>3, <1>4, <1>5, <1>6 DEF RowsOf
<1>8. TypeOK'
  <2>1. Refused("500") \in Answers
    BY AnswerFields DEF Codes
  <2>2. Accepted(Create(r)) \in Answers
    BY DEF Accepted, Create, Answers, Statuses
  <2>3. answer' \in [Requests -> Answers \cup {None}]
    BY <1>1, <2>1, <2>2 DEF TypeOK
  <2>4. payments' \in [Requests -> Statuses]
    BY <1>1, <1>2 DEF TypeOK, Statuses
  <2> QED
    BY <1>1, <1>2, <1>3, <2>3, <2>4 DEF TypeOK
<1>9. HandlingInv'
  BY <1>1, <1>4, <1>7 DEF ApiInv, HandlingInv, Flight
<1>10. RowsInv'
  BY <1>1, <1>4, <1>6 DEF ApiInv, RowsInv
<1>11. KeysInv'
  <2>1. \A q \in Uncommitted' : q # r /\ q \in Uncommitted
    BY <1>4 DEF Uncommitted
  <2> QED
    BY <1>1, <1>7, <2>1 DEF ApiInv, KeysInv
<1>12. OnePaymentPerKey'
  <2>1. \A q \in Requests : Exists(q) => columns[q].key # request[r].key
    BY <1>1 DEF ApiInv, KeysInv, RowsOf
  <2> QED
    BY <1>3, <1>4, <1>6, <2>1 DEF ApiInv, OnePaymentPerKey
<1>13. EventPerPayment'
  BY <1>2, <1>6 DEF ApiInv, EventPerPayment
<1>14. Agrees(r)'
  <2>1. /\ Refused("500").code # "202"
        /\ Accepted(Create(r)).payment = r
        /\ Accepted(Create(r)).status = "pending"
    BY AnswerFields DEF Codes, Create
  <2> QED
    BY <1>3, <1>4, <1>6, <2>1 DEF Agrees
<1>15. AnswersAgree'
  <2>1. ASSUME NEW q \in Requests, q # r PROVE Agrees(q)'
    <3>1. Agrees(q)
      BY AgreesIff DEF ApiInv
    <3>2. ASSUME answer[q] # None, answer[q].code = "202"
          PROVE  answer[q].payment \in Requests /\ answer[q].payment # r
      <4>1. answer[q] \in Answers
        BY <1>1, <3>2 DEF TypeOK
      <4>2. answer[q].payment \in Requests
        BY <3>2, <4>1, AnswerFields DEF Answers
      <4> QED
        BY <1>5, <3>1, <3>2, <4>2 DEF Agrees
    <3> QED
      BY <1>4, <1>6, <2>1, <3>1, <3>2 DEF Agrees
  <2> QED
    BY <1>14, <2>1, AgreesIffNext
<1>16. ConflictIsReal'
  <2>1. /\ Refused("409") # None /\ Refused("409") # Refused("500")
        /\ Accepted(Create(r)) # Refused("409")
    BY AnswerFields, AnswerAssumption DEF Codes
  <2> QED
    BY <1>4, <1>7, <2>1 DEF ApiInv, ConflictIsReal
<1> QED
  BY <1>8, <1>9, <1>10, <1>11, <1>12, <1>13, <1>15, <1>16 DEF ApiInv

\* A replay answers with the payment that has the key, if it was asked for
\* the same, and tells of a real conflict otherwise.
LEMMA ReplayInv ==
    ASSUME ApiInv, NEW r \in Requests, Replay(r) PROVE ApiInv'
<1>1. /\ TypeOK /\ pc[r] = "replay" /\ request[r] \in Command
      /\ UNCHANGED <<payments, columns, outbox, request, faults>>
      /\ pc' = [pc EXCEPT ![r] = "answered"]
      /\ RowsOf(request[r].key) # {}
  BY DEF ApiInv, HandlingInv, Flight, Replay, Reply, tables
<1>2. /\ \A q \in Requests : q # r => pc'[q] = pc[q]
      /\ pc'[r] = "answered"
  BY <1>1 DEF TypeOK
<1>3. \A p \in RowsOf(request[r].key) :
        /\ p \in Requests /\ Exists(p) /\ columns[p].key = request[r].key
        /\ request[p] \in Command /\ columns[p] = Row(request[p])
  BY DEF RowsOf, ApiInv, RowsInv
<1>4. \/ /\ answer' = [answer EXCEPT ![r] = Refused("409")]
         /\ \A p \in RowsOf(request[r].key) : columns[p].body # request[r].body
      \/ \E p \in RowsOf(request[r].key) :
           /\ columns[p].body = request[r].body
           /\ answer' = [answer EXCEPT ![r] = Accepted(Reconstitute(p))]
  BY DEF Replay, Reply, HasMatchingCreateInput, Reconstitute
<1>5. /\ \A key : RowsOf(key)' = RowsOf(key)
      /\ \A p : Exists(p)' <=> Exists(p)
  BY <1>1, SameRows
<1>6. \A q \in Requests : q # r => answer'[q] = answer[q]
  BY <1>1, <1>4 DEF TypeOK
<1>7. TypeOK'
  <2>1. Refused("409") \in Answers
    BY AnswerFields DEF Codes
  <2>2. \A p \in RowsOf(request[r].key) : Accepted(Reconstitute(p)) \in Answers
    BY <1>1, <1>3 DEF Accepted, Reconstitute, Answers, Exists, TypeOK
  <2>3. answer' \in [Requests -> Answers \cup {None}]
    BY <1>1, <1>4, <2>1, <2>2 DEF TypeOK
  <2> QED
    BY <1>1, <2>3 DEF TypeOK
<1>8. HandlingInv'
  BY <1>1, <1>2, <1>5, <1>6 DEF ApiInv, HandlingInv, Flight
<1>9. RowsInv'
  BY <1>1, <1>2, <1>5 DEF ApiInv, RowsInv
<1>10. KeysInv'
  BY <1>1, <1>2, <1>5 DEF ApiInv, KeysInv, Uncommitted
<1>11. OnePaymentPerKey' /\ EventPerPayment'
  BY <1>1, <1>5 DEF ApiInv, OnePaymentPerKey, EventPerPayment
<1>12. \/ /\ answer'[r] = Refused("409")
          /\ \A p \in RowsOf(request[r].key) : columns[p].body # request[r].body
       \/ \E p \in RowsOf(request[r].key) :
            /\ columns[p].body = request[r].body
            /\ answer'[r] = Accepted(Reconstitute(p))
  BY <1>1, <1>4 DEF TypeOK
<1>13. AnswersAgree'
  <2>1. \A q \in Requests : q # r => Agrees(q)'
    BY <1>1, <1>5, <1>6, AgreesIff DEF ApiInv, Agrees
  <2>2. Agrees(r)'
    <3>1. CASE answer'[r] = Refused("409")
      BY <3>1, AnswerFields DEF Agrees, Codes
    <3>2. ASSUME NEW p \in RowsOf(request[r].key),
                 columns[p].body = request[r].body,
                 answer'[r] = Accepted(Reconstitute(p))
          PROVE  Agrees(r)'
      <4>1. answer'[r].payment = p /\ answer'[r].status = payments[p]
        BY <3>2, AnswerFields DEF Reconstitute
      <4> QED
        BY <1>1, <1>3, <1>5, <3>2, <4>1 DEF Agrees
    <3> QED
      BY <1>12, <3>1, <3>2
  <2> QED
    BY <2>1, <2>2, AgreesIffNext
<1>14. ConflictIsReal'
  <2>1. ASSUME answer'[r] = Refused("409")
        PROVE  \E p \in RowsOf(request[r].key) :
                 \/ request[p].body # request[r].body
                 \/ Row(request[r]) # request[r]
    <3>1. PICK p \in RowsOf(request[r].key) : columns[p].body # request[r].body
      BY <1>1, <1>12, <2>1, AnswerFields
    <3>2. /\ Row(request[p]).body = [order |-> request[p].body.order,
                                     metadata |-> Stored[request[p].body.metadata]]
          /\ Row(request[r]).body = [order |-> request[r].body.order,
                                     metadata |-> Stored[request[r].body.metadata]]
      BY <1>1, <1>3, RowFields
    <3> QED
      BY <1>3, <3>1, <3>2
  <2> QED
    BY <1>1, <1>5, <1>6, <2>1 DEF ApiInv, ConflictIsReal
<1> QED
  BY <1>7, <1>8, <1>9, <1>10, <1>11, <1>13, <1>14 DEF ApiInv

\* A payment is settled once: whoever was told an outcome was told this one.
LEMMA SettleInv ==
    ASSUME ApiInv, NEW p \in Requests, Settle(p) PROVE ApiInv'
<1>1. /\ TypeOK /\ payments[p] = "pending"
      /\ UNCHANGED <<columns, outbox, pc, request, answer, faults>>
  BY DEF ApiInv, Settle, handling
<1>2. PICK status \in Terminal : payments' = [payments EXCEPT ![p] = status]
  BY DEF Settle
<1>3. /\ payments'[p] \in Terminal
      /\ \A q \in Requests : q # p => payments'[q] = payments[q]
  BY <1>1, <1>2 DEF TypeOK
<1>4. \A q \in Requests : Exists(q)' <=> Exists(q)
  BY <1>1, <1>3 DEF Exists, Terminal
<1>5. \A key : RowsOf(key)' = RowsOf(key)
  BY <1>1, <1>4 DEF RowsOf
<1>6. TypeOK'
  BY <1>1, <1>2 DEF TypeOK, Statuses
<1>7. HandlingInv' /\ RowsInv' /\ KeysInv'
  BY <1>1, <1>4, <1>5 DEF ApiInv, HandlingInv, RowsInv, KeysInv, Uncommitted
<1>8. OnePaymentPerKey' /\ EventPerPayment'
  BY <1>1, <1>4 DEF ApiInv, OnePaymentPerKey, EventPerPayment
<1>9. AnswersAgree'
  <2>1. ASSUME NEW q \in Requests PROVE Agrees(q)'
    <3>1. Agrees(q)
      BY AgreesIff DEF ApiInv
    <3>2. ASSUME answer[q] # None, answer[q].code = "202"
          PROVE  answer[q].payment \in Requests
      BY <1>1, <3>2, AnswerFields DEF TypeOK, Answers
    <3> QED
      BY <1>1, <1>3, <1>4, <3>1, <3>2 DEF Agrees
  <2> QED
    BY <2>1, AgreesIffNext
<1>10. ConflictIsReal'
  BY <1>1, <1>5 DEF ApiInv, ConflictIsReal
<1> QED
  BY <1>6, <1>7, <1>8, <1>9, <1>10 DEF ApiInv

\* Every step, and every step that leaves the API alone, keeps ApiInv.
LEMMA NextApiInv == ApiInv /\ [Next]_vars => ApiInv'
<1> SUFFICES ASSUME ApiInv, [Next]_vars PROVE ApiInv'
  OBVIOUS
<1>1. TypeOK
  BY DEF ApiInv
<1>2. ASSUME Fault PROVE faults' \in 0 .. MaxFaults
  BY <1>1, <1>2, CreateAssumption DEF Fault, TypeOK
<1>3. ASSUME NEW r \in Requests, Refuse(r) PROVE ApiInv'
  <2>1. \E code \in {"401", "422", "500"} :
          answer' = [answer EXCEPT ![r] = Refused(code)]
    BY <1>3 DEF Refuse, Verdicts, Reply
  <2>2. /\ pc' = [pc EXCEPT ![r] = "answered"]
        /\ UNCHANGED <<tables, request, faults>> /\ pc[r] = "idle"
    BY <1>3 DEF Refuse, Reply
  <2>3. ~ Exists(r) /\ faults' \in 0 .. MaxFaults
    BY <1>1, <2>2, NoRowYet DEF TypeOK
  <2> QED
    BY <2>1, <2>2, <2>3, QuietStep
<1>4. ASSUME NEW r \in Requests, Rollback(r) PROVE ApiInv'
  <2>1. /\ pc' = [pc EXCEPT ![r] = "replay"] /\ pc[r] = "rollback"
        /\ UNCHANGED <<tables, request, faults, answer>>
    BY <1>4 DEF Rollback, Goto
  <2>2. ~ Exists(r) /\ faults' \in 0 .. MaxFaults
    BY <1>1, <2>1, NoRowYet DEF TypeOK, Flight
  <2> QED
    BY <2>1, <2>2, QuietStep
<1>5. ASSUME NEW r \in Requests, DatabaseFails(r) PROVE ApiInv'
  <2>1. /\ pc' = [pc EXCEPT ![r] = "answered"]
        /\ answer' = [answer EXCEPT ![r] = Refused("500")]
        /\ UNCHANGED <<tables, request>> /\ pc[r] \in Flight
    BY <1>5 DEF DatabaseFails, Reply
  <2>2. ~ Exists(r) /\ faults' \in 0 .. MaxFaults
    BY <1>2, <1>5, <2>1, NoRowYet DEF DatabaseFails
  <2> QED
    BY <2>1, <2>2, QuietStep
<1>6. ASSUME NEW r \in Requests, Lose(r) PROVE ApiInv'
  <2>1. /\ pc' = [pc EXCEPT ![r] = "lost"] /\ UNCHANGED <<request, answer>>
        /\ pc[r] \in Flight /\ faults' \in 0 .. MaxFaults
    BY <1>2, <1>6 DEF Lose, Goto
  <2>2. CASE UNCHANGED tables
    BY <2>1, <2>2, NoRowYet, QuietStep
  <2>3. CASE pc[r] = "commit" /\ Write(r)
    BY <2>1, <2>3, WriteInv
  <2> QED
    BY <1>6, <2>2, <2>3 DEF Lose
<1>7. ASSUME NEW r \in Requests, Commit(r) PROVE ApiInv'
  <2>1. /\ pc' = [pc EXCEPT ![r] = "answered"] /\ UNCHANGED request
        /\ pc[r] = "commit" /\ Write(r)
        /\ \/ answer' = [answer EXCEPT ![r] = Accepted(Create(r))]
           \/ answer' = [answer EXCEPT ![r] = Refused("500")]
    BY <1>7 DEF Commit, Reply
  <2>2. faults' \in 0 .. MaxFaults
    BY <1>1, <1>2, <1>7 DEF Commit, TypeOK
  <2> QED
    BY <2>1, <2>2, WriteInv
<1>8. CASE UNCHANGED vars
  <2>1. UNCHANGED <<payments, columns, outbox, pc, request, answer, faults>>
    BY <1>8 DEF vars, tables, handling
  <2>2. /\ \A key : RowsOf(key)' = RowsOf(key)
        /\ \A p : Exists(p)' <=> Exists(p)
    BY <2>1, SameRows
  <2>3. TypeOK' /\ HandlingInv' /\ RowsInv' /\ KeysInv'
    BY <2>1, <2>2
    DEF ApiInv, TypeOK, HandlingInv, RowsInv, KeysInv, Uncommitted
  <2>4. OnePaymentPerKey' /\ EventPerPayment' /\ ConflictIsReal'
    BY <2>1, <2>2 DEF ApiInv, OnePaymentPerKey, EventPerPayment, ConflictIsReal
  <2>5. AnswersAgree'
    <3>1. \A r \in Requests : Agrees(r)'
      BY <2>1, <2>2, AgreesIff DEF ApiInv, Agrees
    <3> QED
      BY <3>1, AgreesIffNext
  <2> QED
    BY <2>3, <2>4, <2>5 DEF ApiInv
<1> QED
  BY <1>3, <1>4, <1>5, <1>6, <1>7, <1>8, AcceptInv, InsertInv, ReplayInv,
     SettleInv DEF Next, Handle

-------------------------------------------------------------------------------
(***************************************************************************)
(* What follows.                                                           *)
(***************************************************************************)

\* ApiInv holds throughout.
LEMMA ApiInvariant == Spec => []ApiInv
<1>1. Init => ApiInv
  BY InitApiInv
<1> QED
  BY <1>1, NextApiInv, PTL DEF Spec

\* The variables keep their types.
THEOREM TypeCorrect == Spec => []TypeOK
<1>1. ApiInv => TypeOK
  BY DEF ApiInv
<1> QED
  BY <1>1, ApiInvariant, PTL

(***************************************************************************)
(* At most one payment per Idempotency-Key, for any number of overlapping  *)
(* requests with it, although the code never looks the key up before it    *)
(* inserts (create_payment.py:51-61).                                      *)
(***************************************************************************)
THEOREM OnePayment == Spec => []OnePaymentPerKey
<1>1. ApiInv => OnePaymentPerKey
  BY DEF ApiInv
<1> QED
  BY <1>1, ApiInvariant, PTL

(***************************************************************************)
(* A payment and its event are there together or not at all, whatever      *)
(* becomes of the process and of the reply to the commit                   *)
(* (create_payment.py:52-59).                                              *)
(***************************************************************************)
THEOREM EventWithPayment == Spec => []EventPerPayment
<1>1. ApiInv => EventPerPayment
  BY DEF ApiInv
<1> QED
  BY <1>1, ApiInvariant, PTL

(***************************************************************************)
(* Whoever is told 202 of a payment finds it from then on, with his key,   *)
(* what he asked for and the outcome he was told, whatever JSONB makes of  *)
(* metadata (create_payment.py:63-77, get_payment.py:15-20).               *)
(***************************************************************************)
THEOREM AnswersHold == Spec => []AnswersAgree
<1>1. ApiInv => AnswersAgree
  BY DEF ApiInv
<1> QED
  BY <1>1, ApiInvariant, PTL

(***************************************************************************)
(* A 409 tells of a key that is taken by another body, or of metadata that *)
(* JSONB does not keep, and of nothing else (create_payment.py:71-76).     *)
(***************************************************************************)
THEOREM ConflictsReal == Spec => []ConflictIsReal
<1>1. ApiInv => ConflictIsReal
  BY DEF ApiInv
<1> QED
  BY <1>1, ApiInvariant, PTL
===============================================================================

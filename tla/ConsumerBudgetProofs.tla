------------------------- MODULE ConsumerBudgetProofs -------------------------
(***************************************************************************)
(* The two budgets of PaymentConsumer: how many copies of an event there   *)
(* are, and how many POSTs a merchant gets. Both are sums over messages    *)
(* and over handlers: what a step adds to one it takes from another, or a  *)
(* publication or a fault pays for it.                                     *)
(***************************************************************************)
EXTENDS PaymentConsumerProofs, SumProofs

Stock == [m \in Message |-> new_queue[m] + retry_queue[m] + dlq[m]]

CopiesOf(e) == {m \in Message : m.event = e}

\* A handler stands for a copy while the broker holds its delivery, and while
\* it may still forward one.
Holds(c) ==
    \/ owned[c] /\ pc[c] # "ack"
    \/ pc[c] \notin {"idle", "ack", "reject"}

Held(e) ==
    [c \in Consumers |-> IF Holds(c) /\ delivery[c].event = e THEN 1 ELSE 0]

CopiesKept(e) ==
    SumFunctionOnSet(Stock, CopiesOf(e)) + SumFunctionOnSet(Held(e), Consumers)
      <= published[e] + faults

\* CopiesBounded with the copies that handlers may yet forward.
CopiesInv == \A e \in Events : CopiesKept(e)

-------------------------------------------------------------------------------

\* There are finitely many messages: an event and a number of retries each.
LEMMA MessageFinite == IsFiniteSet(Message)
<1> DEFINE f == [m \in Message |-> <<m.event, m.retries>>]
<1>1. IsFiniteSet(Events \X (0 .. MaxAttempts))
  <2>1. IsFiniteSet(0 .. MaxAttempts)
    BY FS_Interval, MaxAttemptsAssumption
  <2> QED
    BY <2>1, FS_Product, ConsumerAssumption
<1>2. f \in Injection(Message, Events \X (0 .. MaxAttempts))
  <2>1. f \in [Message -> Events \X (0 .. MaxAttempts)]
    BY DEF Message
  <2>2. ASSUME NEW a \in Message, NEW b \in Message, f[a] = f[b] PROVE a = b
    <3>1. a.event = b.event /\ a.retries = b.retries
      BY <2>2
    <3> QED
      BY <3>1 DEF Message
  <2> QED
    BY <2>1, <2>2 DEF Injection, IsInjective
<1> QED
  BY <1>1, <1>2, FS_Injection

\* What the sums are over is finite, what they add up is natural.
LEMMA CopiesTypes ==
    ASSUME IInv, NEW e \in Events
    PROVE  /\ IsFiniteSet(CopiesOf(e)) /\ CopiesOf(e) \subseteq Message
           /\ \A m \in Message : Stock[m] \in Nat
           /\ \A c \in Consumers : Held(e)[c] \in {0, 1}
           /\ SumFunctionOnSet(Stock, CopiesOf(e)) \in Nat
           /\ SumFunctionOnSet(Held(e), Consumers) \in Nat
           /\ published[e] \in Nat /\ faults \in Nat
<1>1. IsFiniteSet(CopiesOf(e)) /\ CopiesOf(e) \subseteq Message
  BY MessageFinite, FS_Subset DEF CopiesOf
<1>2. \A m \in Message : Stock[m] \in Nat
  BY DEF IInv, TypeOK, Stock
<1>3. \A c \in Consumers : Held(e)[c] \in {0, 1}
  BY DEF Held
<1>4. SumFunctionOnSet(Stock, CopiesOf(e)) \in Nat
  BY <1>1, <1>2, SumType
<1>5. SumFunctionOnSet(Held(e), Consumers) \in Nat
  BY <1>3, SumType, ConsumerAssumption
<1>6. published[e] \in Nat /\ faults \in Nat
  BY ConsumerAssumption DEF IInv, TypeOK
<1> QED
  BY <1>1, <1>2, <1>3, <1>4, <1>5, <1>6

\* A queue that gets or loses a copy of m: the stock of its event changes so.
LEMMA StockChange ==
    ASSUME IInv, IInv', NEW e \in Events, NEW m \in Message, NEW k \in Int,
           \A n \in Message \ {m} : Stock'[n] = Stock[n],
           Stock'[m] = Stock[m] + k
    PROVE  SumFunctionOnSet(Stock', CopiesOf(e)) =
             SumFunctionOnSet(Stock, CopiesOf(e))
               + (IF m.event = e THEN k ELSE 0)
<1>1. \A n \in Message : Stock[n] \in Nat /\ Stock'[n] \in Nat
  BY DEF IInv, TypeOK, Stock
<1>2. IsFiniteSet(CopiesOf(e)) /\ CopiesOf(e) \subseteq Message
  BY CopiesTypes
<1>3. m \in CopiesOf(e) <=> m.event = e
  BY DEF CopiesOf
<1> HIDE DEF Stock
<1> QED
  BY <1>1, <1>2, <1>3, SumChange

\* The other handlers hold what they held.
OthersIdle(c) ==
    \A d \in Consumers \ {c} :
        pc'[d] = pc[d] /\ delivery'[d] = delivery[d] /\ owned'[d] = owned[d]

\* A step of handler c changes what handlers hold by what it does to c.
LEMMA HeldChange ==
    ASSUME IInv, IInv', NEW e \in Events, NEW c \in Consumers, OthersIdle(c)
    PROVE  SumFunctionOnSet(Held(e)', Consumers) =
             SumFunctionOnSet(Held(e), Consumers) + (Held(e)'[c] - Held(e)[c])
<1>1. \A d \in Consumers : Held(e)[d] \in {0, 1} /\ Held(e)'[d] \in {0, 1}
  BY DEF Held
<1>2. \A d \in Consumers \ {c} : Held(e)'[d] = Held(e)[d]
  BY DEF Held, Holds, OthersIdle
<1>3. Held(e)'[c] = Held(e)[c] + (Held(e)'[c] - Held(e)[c])
      /\ Held(e)'[c] - Held(e)[c] \in Int
  BY <1>1
<1> DEFINE f == Held(e)
           h == Held(e)'
           k == h[c] - f[c]
<1>4. IsFiniteSet(Consumers)
  BY ConsumerAssumption
<1>5. /\ \A d \in Consumers : f[d] \in Nat /\ h[d] \in Nat
      /\ \A d \in Consumers \ {c} : h[d] = f[d]
      /\ h[c] = f[c] + k /\ k \in Int
  BY <1>1, <1>2, <1>3
<1> HIDE DEF f, h, k
<1>6. SumFunctionOnSet(h, Consumers) =
        SumFunctionOnSet(f, Consumers) + (IF c \in Consumers THEN k ELSE 0)
  BY <1>4, <1>5, SumChange
<1> QED
  BY <1>6 DEF f, h, k

(***************************************************************************)
(* What a step of handler c may do to the copies of an event: with the i   *)
(* copies it adds to the queues and what c holds afterwards it pays for no *)
(* more than c held before and the faults it counts.                       *)
(***************************************************************************)
LEMMA CopiesStep ==
    ASSUME IInv, IInv', NEW e \in Events, CopiesKept(e),
           NEW c \in Consumers, OthersIdle(c), published' = published,
           NEW i \in Int,
           SumFunctionOnSet(Stock', CopiesOf(e)) =
             SumFunctionOnSet(Stock, CopiesOf(e)) + i,
           i + Held(e)'[c] <= Held(e)[c] + (faults' - faults)
    PROVE  CopiesKept(e)'
<1> DEFINE S == SumFunctionOnSet(Stock, CopiesOf(e))
           T == SumFunctionOnSet(Stock', CopiesOf(e))
           H == SumFunctionOnSet(Held(e), Consumers)
           G == SumFunctionOnSet(Held(e)', Consumers)
           a == Held(e)[c]
           b == Held(e)'[c]
<1>1. T = S + i /\ i + b <= a + (faults' - faults)
  OBVIOUS
<1>2. G = H + (b - a)
  BY HeldChange
<1>3. S \in Nat /\ H \in Nat /\ published[e] \in Nat /\ faults \in Nat
  BY CopiesTypes
<1>4. faults' \in Int /\ a \in Int /\ b \in Int
  BY ConsumerAssumption DEF IInv, TypeOK, Held
<1>5. S + H <= published[e] + faults
  BY DEF CopiesKept
<1> HIDE DEF S, T, H, G, a, b
<1>6. T + G <= published[e] + faults'
  <2> DEFINE x == i + (b - a)
             q == published[e]
             z == faults'
  <2>1. T + G = (S + H) + x /\ x \in Int
    BY <1>1, <1>2, <1>3, <1>4
  <2>2. x <= z - faults
    BY <1>1, <1>3, <1>4
  <2>3. q \in Nat /\ z \in Int /\ S + H <= q + faults
    BY <1>3, <1>4, <1>5
  <2> HIDE DEF x, q, z
  <2>4. T + G <= q + z
    BY <1>3, <2>1, <2>2, <2>3
  <2> QED
    BY <2>4 DEF q, z
<1> QED
  BY <1>6 DEF CopiesKept, S, T, H, G, CopiesOf

\* One copy of m more in one of the queues, new_queue having lost one or none.
Added(m) ==
    /\ \A n \in Message \ {m} : Stock'[n] = Stock[n]
    /\ Stock'[m] = Stock[m] + 1

\* A copy put into a queue is one more in stock.
LEMMA PutAdds ==
    ASSUME IInv, NEW m \in Message,
           \/ new_queue' = Put(new_queue, m) /\ UNCHANGED <<retry_queue, dlq>>
           \/ retry_queue' = Put(retry_queue, m) /\ UNCHANGED <<new_queue, dlq>>
           \/ dlq' = Put(dlq, m) /\ UNCHANGED <<new_queue, retry_queue>>
    PROVE  Added(m)
<1>1. \A n \in Message :
        new_queue[n] \in Nat /\ retry_queue[n] \in Nat /\ dlq[n] \in Nat
  BY DEF IInv, TypeOK
<1>2. CASE new_queue' = Put(new_queue, m) /\ UNCHANGED <<retry_queue, dlq>>
  BY <1>1, <1>2 DEF IInv, TypeOK, Added, Stock, Put
<1>3. CASE retry_queue' = Put(retry_queue, m) /\ UNCHANGED <<new_queue, dlq>>
  BY <1>1, <1>3 DEF IInv, TypeOK, Added, Stock, Put
<1>4. CASE dlq' = Put(dlq, m) /\ UNCHANGED <<new_queue, retry_queue>>
  BY <1>1, <1>4 DEF IInv, TypeOK, Added, Stock, Put
<1> QED
  BY <1>2, <1>3, <1>4

\* The router forwards one copy: the same event, with one retry more counted
\* if it is to be retried.
LEMMA ForwardsOne ==
    ASSUME IInv, NEW c \in Consumers, pc[c] = "route", Forward(c)
    PROVE  \E n \in Message :
             /\ n.event = delivery[c].event
             /\ \/ /\ retry_queue' = Put(retry_queue, n) /\ dlq' = dlq
                   /\ n.retries = delivery[c].retries + 1
                \/ dlq' = Put(dlq, n) /\ retry_queue' = retry_queue
<1> DEFINE m == delivery[c]
<1>1. m \in Message /\ m.event \in Events /\ m.retries \in 0 .. MaxAttempts
  BY DEF IInv, HandlerKnows, Message
<1>2. CASE DecideAction(m.retries, local[c]) = "retry"
  <2> DEFINE n == [m EXCEPT !.retries = @ + 1]
  <2>1. m.retries + 1 < MaxAttempts
    BY <1>2 DEF DecideAction
  <2>2. n \in Message /\ n.event = m.event /\ n.retries = m.retries + 1
    BY <1>1, <2>1, MaxAttemptsAssumption DEF Message
  <2>3. retry_queue' = Put(retry_queue, n) /\ dlq' = dlq
    BY <1>2 DEF Forward
  <2> HIDE DEF n
  <2> QED
    BY <2>2, <2>3
<1>3. CASE DecideAction(m.retries, local[c]) # "retry"
  BY <1>1, <1>3 DEF Forward
<1> QED
  BY <1>2, <1>3

-------------------------------------------------------------------------------

\* A step of c that leaves the queues alone.
LEMMA SameCopies ==
    ASSUME IInv, IInv', CopiesInv, NEW c \in Consumers, OthersIdle(c),
           UNCHANGED <<queues, published>>,
           \A e \in Events : Held(e)'[c] <= Held(e)[c] + (faults' - faults)
    PROVE  CopiesInv'
<1> SUFFICES ASSUME NEW e \in Events PROVE CopiesKept(e)'
  BY DEF CopiesInv
<1>1. SumFunctionOnSet(Stock', CopiesOf(e)) =
        SumFunctionOnSet(Stock, CopiesOf(e)) + 0
  <2>1. Stock' = Stock
    BY DEF Stock, queues
  <2> QED
    BY <2>1, CopiesTypes
<1>2. 0 + Held(e)'[c] <= Held(e)[c] + (faults' - faults)
  <2>1. Held(e)'[c] \in {0, 1}
    BY DEF Held
  <2> QED
    BY <2>1
<1> QED
  BY <1>1, <1>2, CopiesStep DEF CopiesInv

\* A step of c that adds a copy of m.
LEMMA AddedCopies ==
    ASSUME IInv, IInv', CopiesInv, NEW c \in Consumers, OthersIdle(c),
           published' = published, NEW m \in Message, Added(m),
           \A e \in Events :
             /\ m.event = e => 1 + Held(e)'[c] <= Held(e)[c] + (faults' - faults)
             /\ m.event # e => Held(e)'[c] <= Held(e)[c] + (faults' - faults)
    PROVE  CopiesInv'
<1> SUFFICES ASSUME NEW e \in Events PROVE CopiesKept(e)'
  BY DEF CopiesInv
<1> DEFINE i == IF m.event = e THEN 1 ELSE 0
<1>1. SumFunctionOnSet(Stock', CopiesOf(e)) =
        SumFunctionOnSet(Stock, CopiesOf(e)) + i
  BY StockChange DEF Added
<1>2. i + Held(e)'[c] <= Held(e)[c] + (faults' - faults)
  <2>1. Held(e)'[c] \in {0, 1}
    BY DEF Held
  <2> QED
    BY <2>1
<1>3. i \in Int
  OBVIOUS
<1> HIDE DEF i
<1> QED
  BY <1>1, <1>2, <1>3, CopiesStep DEF CopiesInv

\* A handler that goes on without touching a queue.
LEMMA MovesCopies ==
    ASSUME IInv, IInv', CopiesInv, NEW c \in Consumers,
           pc[c] \notin {"idle", "ack", "reject"},
           NEW step, NEW value, Continue(c, step, value),
           UNCHANGED <<queues, environment>>
    PROVE  CopiesInv'
<1>1. OthersIdle(c) /\ delivery'[c] = delivery[c]
  BY DEF Continue, OthersIdle, IInv, TypeOK
<1>2. faults' - faults = 0
  BY ConsumerAssumption DEF IInv, TypeOK, environment
<1>3. \A e \in Events : Held(e)'[c] <= Held(e)[c] + (faults' - faults)
  BY <1>1, <1>2 DEF Held, Holds
<1> QED
  BY <1>1, <1>3, SameCopies DEF environment

\* The copy that the router forwards stands for the delivery it acknowledges,
\* or for a fault.
LEMMA RouteCopies ==
    ASSUME IInv, IInv', CopiesInv, NEW c \in Consumers, Route(c)
    PROVE  CopiesInv'
<1>1. CASE UNCHANGED <<retry_queue, dlq, faults>> /\ Continue(c, "reject", None)
  <2>1. UNCHANGED <<queues, environment>> /\ pc[c] = "route"
    BY <1>1 DEF Route, queues, environment
  <2> QED
    BY <1>1, <2>1, MovesCopies
<1>2. ASSUME Forward(c),
             \/ Continue(c, "ack", None) /\ UNCHANGED faults
             \/ Continue(c, "reject", None) /\ faults' = faults + 1
      PROVE  CopiesInv'
  <2>1. pc[c] = "route" /\ UNCHANGED <<new_queue, published>>
    BY DEF Route
  <2>2. PICK n \in Message : n.event = delivery[c].event /\ Added(n)
    BY <1>2, <2>1, ForwardsOne, PutAdds
  <2>3. OthersIdle(c) /\ delivery'[c] = delivery[c]
    BY <1>2 DEF Continue, OthersIdle, IInv, TypeOK
  <2>4. faults \in Int
    BY ConsumerAssumption DEF IInv, TypeOK
  <2>5. (pc'[c] = "ack" /\ faults' - faults = 0) \/ faults' - faults = 1
    <3>1. (pc'[c] = "ack" /\ faults' = faults) \/ faults' = faults + 1
      BY <1>2 DEF Continue, IInv, TypeOK
    <3> QED
      BY <2>4, <3>1
  <2>6. \A e \in Events :
          /\ n.event = e => 1 + Held(e)'[c] <= Held(e)[c] + (faults' - faults)
          /\ n.event # e => Held(e)'[c] <= Held(e)[c] + (faults' - faults)
    <3> SUFFICES ASSUME NEW e \in Events
                 PROVE  /\ n.event = e => 1 + Held(e)'[c]
                                            <= Held(e)[c] + (faults' - faults)
                        /\ n.event # e => Held(e)'[c]
                                            <= Held(e)[c] + (faults' - faults)
      OBVIOUS
    <3>1. Held(e)[c] = IF n.event = e THEN 1 ELSE 0
      BY <2>1, <2>2 DEF Held, Holds
    <3>2. /\ n.event # e => Held(e)'[c] = 0
          /\ pc'[c] = "ack" => Held(e)'[c] = 0
          /\ Held(e)'[c] \in {0, 1}
      BY <2>2, <2>3 DEF Held, Holds
    <3> QED
      BY <2>5, <3>1, <3>2
  <2> QED
    BY <2>1, <2>2, <2>3, <2>6, AddedCopies
<1> QED
  BY <1>1, <1>2 DEF Route

\* A handler that is done holds nothing.
LEMMA FinishHeld ==
    ASSUME IInv, NEW c \in Consumers, Finish(c)
    PROVE  OthersIdle(c) /\ \A e \in Events : Held(e)'[c] = 0
<1>1. OthersIdle(c)
  BY DEF Finish, OthersIdle, IInv, TypeOK
<1>2. pc'[c] = "idle" /\ owned'[c] = FALSE
  BY DEF Finish, IInv, TypeOK
<1> QED
  BY <1>1, <1>2 DEF Held, Holds

\* A rejected delivery goes to the DLQ, if the broker still waits for it.
LEMMA RejectCopies ==
    ASSUME IInv, IInv', CopiesInv, NEW c \in Consumers, Reject(c)
    PROVE  CopiesInv'
<1>1. /\ delivery[c] \in Message /\ pc[c] = "reject"
      /\ OthersIdle(c) /\ \A e \in Events : Held(e)'[c] = 0
      /\ UNCHANGED <<new_queue, retry_queue, published>>
  BY FinishHeld DEF Reject, IInv, HandlerKnows, environment
<1>2. faults' - faults = 0
  BY ConsumerAssumption DEF IInv, TypeOK, Reject, environment
<1>3. CASE owned[c]
  <2>1. Added(delivery[c])
    BY <1>1, <1>3, PutAdds DEF Reject
  <2>2. \A e \in Events : Held(e)[c] = IF delivery[c].event = e THEN 1 ELSE 0
    BY <1>1, <1>3 DEF Held, Holds
  <2> QED
    BY <1>1, <1>2, <2>1, <2>2, AddedCopies
<1>4. CASE ~ owned[c]
  <2>1. UNCHANGED queues
    BY <1>1, <1>4 DEF Reject, queues
  <2>2. \A e \in Events : Held(e)[c] \in {0, 1}
    BY DEF Held
  <2> QED
    BY <1>1, <1>2, <2>1, <2>2, SameCopies
<1> QED
  BY <1>3, <1>4

\* What the broker puts back, a fault pays for.
LEMMA FaultCopies ==
    ASSUME IInv, IInv', CopiesInv, NEW c \in Consumers,
           Crash(c) \/ ChannelLost(c)
    PROVE  CopiesInv'
<1>1. OthersIdle(c) /\ \A e \in Events : Held(e)'[c] <= Held(e)[c]
  <2>1. CASE Crash(c)
    <3>1. OthersIdle(c) /\ \A e \in Events : Held(e)'[c] = 0
      BY <2>1, FinishHeld DEF Crash
    <3>2. \A e \in Events : Held(e)[c] \in {0, 1}
      BY DEF Held
    <3> QED
      BY <3>1, <3>2
  <2>2. CASE ChannelLost(c)
    <3>1. OthersIdle(c) /\ UNCHANGED <<pc, delivery>> /\ owned[c]
      BY <2>2 DEF ChannelLost, OthersIdle, IInv, TypeOK
    <3> QED
      BY <3>1 DEF Held, Holds
  <2> QED
    BY <2>1, <2>2
<1>2. faults' - faults = 1
  <2>1. faults \in Int /\ faults' = faults + 1
    BY ConsumerAssumption DEF IInv, TypeOK, Crash, ChannelLost
  <2> QED
    BY <2>1
<1>3. \A e \in Events : Held(e)[c] \in {0, 1} /\ Held(e)'[c] \in {0, 1}
  BY DEF Held
<1>4. Requeue(c) /\ UNCHANGED <<retry_queue, dlq, published>>
  BY DEF Crash, ChannelLost
<1>5. CASE owned[c]
  <2>1. delivery[c] \in Message
    BY <1>5 DEF IInv, HandlerKnows
  <2>2. Added(delivery[c])
    BY <1>4, <1>5, <2>1, PutAdds DEF Requeue
  <2> QED
    BY <1>1, <1>2, <1>3, <1>4, <2>1, <2>2, AddedCopies
<1>6. CASE ~ owned[c]
  <2>1. UNCHANGED queues
    BY <1>4, <1>6 DEF Requeue, queues
  <2> QED
    BY <1>1, <1>2, <1>3, <1>4, <2>1, SameCopies
<1> QED
  BY <1>5, <1>6

\* A delivery takes the copy it gives.
LEMMA DeliverCopies ==
    ASSUME IInv, IInv', CopiesInv,
           NEW c \in Consumers, NEW m \in Message, Deliver(c, m)
    PROVE  CopiesInv'
<1> SUFFICES ASSUME NEW e \in Events PROVE CopiesKept(e)'
  BY DEF CopiesInv
<1> DEFINE i == IF m.event = e THEN -1 ELSE 0
<1>1. /\ \A n \in Message \ {m} : Stock'[n] = Stock[n]
      /\ Stock'[m] = Stock[m] + (-1)
  BY DEF Stock, Deliver, Take, IInv, TypeOK
<1>2. SumFunctionOnSet(Stock', CopiesOf(e)) =
        SumFunctionOnSet(Stock, CopiesOf(e)) + i
  BY <1>1, StockChange
<1>3. OthersIdle(c) /\ published' = published
  BY DEF Deliver, OthersIdle, IInv, TypeOK, environment
<1>4. faults' - faults = 0
  BY ConsumerAssumption DEF Deliver, IInv, TypeOK, environment
<1>5. Held(e)[c] = 0
  BY DEF Deliver, Held, Holds, IInv, HandlerKnows
<1>6. delivery'[c] = m
  BY DEF Deliver, IInv, TypeOK
<1>7. Held(e)'[c] \in {0, 1} /\ (m.event # e => Held(e)'[c] = 0)
  BY <1>6 DEF Held
<1>8. i + Held(e)'[c] <= Held(e)[c] + (faults' - faults) /\ i \in Int
  BY <1>4, <1>5, <1>7
<1> HIDE DEF i
<1> QED
  BY <1>2, <1>3, <1>8, CopiesStep DEF CopiesInv

\* The steps of a handler multiply no copies.
LEMMA HandleCopies ==
    ASSUME IInv, IInv', CopiesInv, NEW c \in Consumers, Handle(c)
    PROVE  CopiesInv'
<1>1. CASE HasSeen(c) \/ Load(c) \/ CacheGet(c) \/ CachePut(c) \/ Complete(c)
           \/ Webhook(c) \/ Remember(c) \/ DatabaseFails(c)
  <2>1. /\ UNCHANGED <<queues, environment>>
        /\ \E step, value : Continue(c, step, value)
        /\ pc[c] \notin {"idle", "ack", "reject"}
    <3>1. CASE HasSeen(c) \/ Load(c) \/ CacheGet(c)
      BY <3>1 DEF HasSeen, Load, CacheGet, Raise
    <3>2. CASE CachePut(c) \/ Complete(c)
      BY <3>2 DEF CachePut, Complete, Raise
    <3>3. CASE Webhook(c) \/ Remember(c) \/ DatabaseFails(c)
      BY <3>3 DEF Webhook, Remember, DatabaseFails, Raise
    <3> QED
      BY <1>1, <3>1, <3>2, <3>3
  <2> QED
    BY <2>1, MovesCopies
<1>2. CASE Ack(c)
  <2>1. /\ OthersIdle(c) /\ \A e \in Events : Held(e)'[c] = 0
        /\ UNCHANGED <<queues, published>>
    BY <1>2, FinishHeld DEF Ack, environment
  <2>2. faults' - faults = 0
    BY <1>2, ConsumerAssumption DEF Ack, environment, IInv, TypeOK
  <2>3. \A e \in Events : Held(e)[c] \in {0, 1}
    BY DEF Held
  <2> QED
    BY <2>1, <2>2, <2>3, SameCopies
<1> QED
  BY <1>1, <1>2, RouteCopies, RejectCopies DEF Handle

\* A publication pays for the copy it makes, and a retry that is due is moved.
LEMMA QueueCopies ==
    ASSUME IInv, IInv', CopiesInv,
           \/ \E e \in Events : Publish(e)
           \/ \E m \in Message : Expire(m)
    PROVE  CopiesInv'
<1> SUFFICES ASSUME NEW e \in Events PROVE CopiesKept(e)'
  BY DEF CopiesInv
<1>1. UNCHANGED <<handler, faults>>
  BY DEF Publish, Expire, environment
<1>2. Held(e)' = Held(e)
  BY <1>1 DEF Held, Holds, handler
<1> DEFINE S == SumFunctionOnSet(Stock, CopiesOf(e))
           T == SumFunctionOnSet(Stock', CopiesOf(e))
           H == SumFunctionOnSet(Held(e), Consumers)
           q == published[e]
           r == published'[e]
<1>3. S \in Nat /\ H \in Nat /\ q \in Nat /\ faults \in Nat
      /\ S + H <= q + faults
  BY CopiesTypes DEF CopiesInv, CopiesKept
<1>4. ASSUME T + H <= r + faults PROVE CopiesKept(e)'
  BY <1>1, <1>2, <1>4 DEF CopiesKept, CopiesOf
<1>5. ASSUME NEW d \in Events, Publish(d) PROVE CopiesKept(e)'
  <2> DEFINE m == [event |-> d, retries |-> 0]
  <2>1. m \in Message /\ m.event = d
    BY MaxAttemptsAssumption DEF Message
  <2>2. Added(m)
    BY <1>5, <2>1, PutAdds DEF Publish
  <2>3. T = S + (IF m.event = e THEN 1 ELSE 0)
    BY <2>1, <2>2, StockChange DEF Added
  <2>4. r = q + (IF d = e THEN 1 ELSE 0)
    BY <1>3, <1>5 DEF Publish, IInv, TypeOK
  <2> HIDE DEF S, T, H, q, r, m
  <2>5. T + H <= r + faults
    BY <1>3, <2>1, <2>3, <2>4
  <2> QED
    BY <1>4, <2>5
<1>6. ASSUME NEW m \in Message, Expire(m) PROVE CopiesKept(e)'
  <2>1. Stock' = Stock
    <3>1. \A n \in Message :
            /\ new_queue[n] \in Nat /\ retry_queue[n] \in Nat /\ dlq[n] \in Nat
            /\ new_queue'[n] = IF n = m THEN new_queue[n] + 1 ELSE new_queue[n]
            /\ retry_queue'[n] = IF n = m THEN retry_queue[n] - 1
                                          ELSE retry_queue[n]
            /\ dlq'[n] = dlq[n]
      BY <1>6 DEF Expire, Put, Take, IInv, TypeOK
    <3>2. \A n \in Message : new_queue'[n] + retry_queue'[n] + dlq'[n]
                               = new_queue[n] + retry_queue[n] + dlq[n]
      BY <3>1
    <3> QED
      BY <3>2 DEF Stock
  <2>2. r = q
    BY <1>6 DEF Expire, environment
  <2>3. T = S
    BY <2>1
  <2> HIDE DEF S, T, H, q, r
  <2>4. T + H <= r + faults
    BY <1>3, <2>2, <2>3
  <2> QED
    BY <1>4, <2>4
<1> QED
  BY <1>5, <1>6

\* CopiesInv is inductive, given what handlers know.
LEMMA NextCopies == IInv /\ CopiesInv /\ [Next]_vars => CopiesInv'
<1> SUFFICES ASSUME IInv, CopiesInv, [Next]_vars PROVE CopiesInv'
  OBVIOUS
<1>1. IInv'
  BY NextIInv
<1>2. CASE UNCHANGED vars
  BY <1>2 DEF vars, queues, handler, environment, CopiesInv, CopiesKept, Stock,
              CopiesOf, Held, Holds
<1>3. ASSUME NEW c \in Consumers, Receive(c) PROVE CopiesInv'
  BY <1>1, <1>3, DeliverCopies DEF Receive
<1> QED
  BY <1>1, <1>2, <1>3, HandleCopies, FaultCopies, QueueCopies DEF Next

(***************************************************************************)
(* Retrying, redelivering and dead-lettering never multiply messages: the  *)
(* broker has at most one copy of an event for each publication and each   *)
(* fault, whichever consumers work on it (dispatcher.py:36-62).            *)
(***************************************************************************)
THEOREM CopiesConserved == Spec => []CopiesBounded
<1>1. Init => CopiesInv
  <2> SUFFICES ASSUME Init, NEW e \in Events PROVE CopiesKept(e)
    BY DEF CopiesInv
  <2>1. \A m \in CopiesOf(e) : Stock[m] = 0
    BY DEF Init, Stock, CopiesOf
  <2>2. \A c \in Consumers : Held(e)[c] = 0
    BY DEF Init, Held, Holds
  <2>3. IsFiniteSet(CopiesOf(e))
    BY InitIInv, CopiesTypes
  <2>4. SumFunctionOnSet(Stock, CopiesOf(e)) = 0
    BY <2>1, <2>3, SumZero
  <2>5. SumFunctionOnSet(Held(e), Consumers) = 0
    BY <2>2, SumZero, ConsumerAssumption
  <2>6. published[e] = 0 /\ faults = 0
    BY DEF Init
  <2> QED
    BY <2>4, <2>5, <2>6 DEF CopiesKept
<1>2. IInv /\ CopiesInv => CopiesBounded
  <2> SUFFICES ASSUME IInv, CopiesInv, NEW e \in Events
               PROVE  Copies(e) <= published[e] + faults
    BY DEF CopiesBounded
  <2> DEFINE A == {c \in Consumers :
                     owned[c] /\ pc[c] # "ack" /\ delivery[c].event = e}
             S == SumFunctionOnSet(Stock, CopiesOf(e))
             H == SumFunctionOnSet(Held(e), Consumers)
  <2>1. Cardinality(A) <= H
    <3>1. \A c \in Consumers : Held(e)[c] \in Nat
      BY DEF Held
    <3>2. \A c \in A : Held(e)[c] >= 1
      BY DEF Held, Holds
    <3>3. A \in SUBSET Consumers
      OBVIOUS
    <3> HIDE DEF A
    <3> QED
      BY <3>1, <3>2, <3>3, CardinalityBelowSum, ConsumerAssumption
  <2>2. IsFiniteSet(A) /\ Cardinality(A) \in Nat
    BY FS_Subset, FS_CardinalityType, ConsumerAssumption
  <2>3. Copies(e) = S + Cardinality(A)
    BY DEF Copies, Stock, CopiesOf
  <2>4. S + H <= published[e] + faults
    BY DEF CopiesInv, CopiesKept
  <2>5. S \in Nat /\ H \in Nat /\ published[e] \in Nat /\ faults \in Nat
    BY CopiesTypes
  <2> HIDE DEF S, H, A
  <2> QED
    BY <2>1, <2>2, <2>3, <2>4, <2>5
<1> QED
  BY <1>1, <1>2, NextCopies, Invariant, PTL DEF Spec

-------------------------------------------------------------------------------
(***************************************************************************)
(* The POSTs a merchant gets. A copy that counts r retries is good for     *)
(* MaxAttempts - r POSTs, a handler for one and those of the copy it may   *)
(* forward.                                                                *)
(***************************************************************************)

Left ==
    [m \in Message |->
       (MaxAttempts - m.retries) * (new_queue[m] + retry_queue[m])]

About(p) == {m \in Message : Subject(m) = p}

Before == {"has_seen", "load", "cache_get", "cache_put", "complete", "webhook"}

\* What the handler of c may still lead to: after its POST, or once it raised,
\* only what the copy it forwards may.
Allowance(c) ==
    IF pc[c] \in Before THEN MaxAttempts - delivery[c].retries
    ELSE IF pc[c] \in {"remember", "route"}
      THEN MaxAttempts - delivery[c].retries - 1
    ELSE 0

Allowed(p) ==
    [c \in Consumers |->
       IF pc[c] # "idle" /\ Subject(delivery[c]) = p THEN Allowance(c) ELSE 0]

Publications(p) ==
    SumFunctionOnSet(published, {e \in Events : PaymentOf[e] = p})

PostsKept(p) ==
    posts[p] + SumFunctionOnSet(Left, About(p))
             + SumFunctionOnSet(Allowed(p), Consumers)
      <= MaxAttempts * (Publications(p) + faults)

\* AttemptsBudget with the POSTs that copies and handlers are good for.
PostsInv == \A p \in Payments : PostsKept(p)

\* A handler has an allowance that is natural, and positive before its POST.
LEMMA AllowanceType ==
    ASSUME IInv, RetryInv, NEW c \in Consumers
    PROVE  /\ Allowance(c) \in Nat
           /\ pc[c] # "idle" => /\ delivery[c].retries \in Nat
                                /\ delivery[c].retries < MaxAttempts
<1>1. CASE pc[c] = "idle"
  BY <1>1 DEF Allowance, Before
<1>2. CASE pc[c] # "idle"
  <2>1. delivery[c].retries \in Nat /\ delivery[c].retries < MaxAttempts
    BY <1>2, MaxAttemptsAssumption DEF IInv, HandlerKnows, RetryInv, Message
  <2> QED
    BY <2>1, MaxAttemptsAssumption DEF Allowance
<1> QED
  BY <1>1, <1>2

\* What a queue holds is good for a natural number of POSTs.
LEMMA LeftType == ASSUME IInv, NEW m \in Message PROVE Left[m] \in Nat
<1>1. MaxAttempts - m.retries \in Nat
  BY MaxAttemptsAssumption DEF Message
<1>2. new_queue[m] + retry_queue[m] \in Nat
  BY DEF IInv, TypeOK
<1>3. \A a, b \in Nat : a * b \in Nat
  OBVIOUS
<1> QED
  BY <1>1, <1>2, <1>3 DEF Left

\* What the sums are over is finite, what they add up is natural.
LEMMA PostsTypes ==
    ASSUME IInv, RetryInv, NEW p \in Payments
    PROVE  /\ IsFiniteSet(About(p)) /\ About(p) \subseteq Message
           /\ SumFunctionOnSet(Left, About(p)) \in Nat
           /\ \A c \in Consumers : Allowed(p)[c] \in Nat
           /\ SumFunctionOnSet(Allowed(p), Consumers) \in Nat
           /\ Publications(p) \in Nat /\ faults \in Nat /\ posts[p] \in Nat
<1>1. IsFiniteSet(About(p)) /\ About(p) \subseteq Message
  BY MessageFinite, FS_Subset DEF About
<1>2. SumFunctionOnSet(Left, About(p)) \in Nat
  BY <1>1, LeftType, SumType
<1>3. \A c \in Consumers : Allowed(p)[c] \in Nat
  BY AllowanceType DEF Allowed
<1>4. SumFunctionOnSet(Allowed(p), Consumers) \in Nat
  BY <1>3, SumType, ConsumerAssumption
<1>5. Publications(p) \in Nat
  <2> DEFINE E == {e \in Events : PaymentOf[e] = p}
  <2>1. IsFiniteSet(E) /\ \A e \in E : published[e] \in Nat
    BY FS_Subset, ConsumerAssumption DEF IInv, TypeOK
  <2> HIDE DEF E
  <2>2. SumFunctionOnSet(published, E) \in Nat
    BY <2>1, SumType
  <2> QED
    BY <2>2 DEF Publications, E
<1>6. faults \in Nat /\ posts[p] \in Nat
  BY ConsumerAssumption DEF IInv, TypeOK
<1> QED
  BY <1>1, <1>2, <1>3, <1>4, <1>5, <1>6

\* A change of what one message is good for.
LEMMA LeftChange ==
    ASSUME IInv, IInv', NEW p \in Payments, NEW m \in Message, NEW k \in Int,
           \A n \in Message \ {m} : Left'[n] = Left[n],
           Left'[m] = Left[m] + k
    PROVE  SumFunctionOnSet(Left', About(p)) =
             SumFunctionOnSet(Left, About(p))
               + (IF Subject(m) = p THEN k ELSE 0)
<1>1. \A n \in Message : Left[n] \in Nat
  BY LeftType
<1>2. \A n \in Message : Left'[n] \in Nat
  <2>1. ASSUME NEW n \in Message PROVE Left'[n] \in Nat
    <3>1. MaxAttempts - n.retries \in Nat
      BY MaxAttemptsAssumption DEF Message
    <3>2. new_queue'[n] + retry_queue'[n] \in Nat
      BY DEF IInv, TypeOK
    <3>3. \A a, b \in Nat : a * b \in Nat
      OBVIOUS
    <3> QED
      BY <3>1, <3>2, <3>3 DEF Left
  <2> QED
    BY <2>1
<1>3. m \in About(p) <=> Subject(m) = p
  BY DEF About
<1>4. IsFiniteSet(About(p)) /\ About(p) \subseteq Message
  BY MessageFinite, FS_Subset DEF About
<1> HIDE DEF Left
<1> QED
  BY <1>1, <1>2, <1>3, <1>4, SumChange

\* A step of handler c changes the allowances by what it does to that of c.
LEMMA AllowedChange ==
    ASSUME IInv, RetryInv, IInv', RetryInv', NEW p \in Payments,
           NEW c \in Consumers, OthersIdle(c)
    PROVE  /\ SumFunctionOnSet(Allowed(p)', Consumers) =
                SumFunctionOnSet(Allowed(p), Consumers)
                  + (Allowed(p)'[c] - Allowed(p)[c])
           /\ Allowed(p)'[c] \in Nat
<1> DEFINE f == Allowed(p)
           h == Allowed(p)'
           k == h[c] - f[c]
<1>1. \A d \in Consumers : f[d] \in Nat
  BY PostsTypes
<1>2. \A d \in Consumers : h[d] \in Nat
  <2>1. ASSUME NEW d \in Consumers PROVE (Allowance(d) \in Nat)'
    <3>1. CASE pc'[d] = "idle"
      BY <3>1 DEF Allowance, Before
    <3>2. CASE pc'[d] # "idle"
      <4>1. delivery'[d].retries \in Nat /\ delivery'[d].retries < MaxAttempts
        BY <3>2, MaxAttemptsAssumption DEF IInv, HandlerKnows, RetryInv, Message
      <4> QED
        BY <4>1, MaxAttemptsAssumption DEF Allowance
    <3> QED
      BY <3>1, <3>2
  <2> QED
    BY <2>1 DEF Allowed
<1>3. \A d \in Consumers \ {c} : h[d] = f[d]
  BY DEF Allowed, Allowance, OthersIdle, Subject
<1>4. IsFiniteSet(Consumers)
  BY ConsumerAssumption
<1>5. /\ \A d \in Consumers : f[d] \in Nat /\ h[d] \in Nat
      /\ \A d \in Consumers \ {c} : h[d] = f[d]
      /\ h[c] = f[c] + k /\ k \in Int
  BY <1>1, <1>2, <1>3
<1> HIDE DEF f, h, k
<1>6. SumFunctionOnSet(h, Consumers) =
        SumFunctionOnSet(f, Consumers) + (IF c \in Consumers THEN k ELSE 0)
  BY <1>4, <1>5, SumChange
<1> QED
  BY <1>2, <1>6 DEF f, h, k

\* What a fault grants.
Grant == IF faults' = faults THEN 0 ELSE MaxAttempts

(***************************************************************************)
(* What a step of handler c may do to the POSTs about a payment: with the  *)
(* POSTs made, the i that the queues become good for and what c is still   *)
(* allowed it spends no more than c was allowed and a fault grants.        *)
(***************************************************************************)
LEMMA PostsStep ==
    ASSUME IInv, RetryInv, IInv', RetryInv', NEW p \in Payments, PostsKept(p),
           NEW c \in Consumers, OthersIdle(c), published' = published,
           faults' = faults \/ faults' = faults + 1,
           NEW i \in Int,
           SumFunctionOnSet(Left', About(p)) =
             SumFunctionOnSet(Left, About(p)) + i,
           posts'[p] + i + Allowed(p)'[c] <= posts[p] + Allowed(p)[c] + Grant
    PROVE  PostsKept(p)'
<1> DEFINE S == SumFunctionOnSet(Left, About(p))
           T == SumFunctionOnSet(Left', About(p))
           H == SumFunctionOnSet(Allowed(p), Consumers)
           G == SumFunctionOnSet(Allowed(p)', Consumers)
           P == Publications(p)
           a == Allowed(p)[c]
           b == Allowed(p)'[c]
           u == posts[p]
           v == posts'[p]
           y == faults
           z == faults'
           M == MaxAttempts
           W == M * (P + y)
           V == M * (P + z)
<1>1. /\ S \in Nat /\ H \in Nat /\ P \in Nat /\ y \in Nat /\ u \in Nat
      /\ a \in Nat /\ M \in Nat
  BY PostsTypes, MaxAttemptsAssumption
<1>2. G = H + (b - a) /\ b \in Nat
  BY AllowedChange
<1>3. T = S + i /\ v \in Nat
  BY DEF IInv, TypeOK
<1>4. u + S + H <= W
  BY DEF PostsKept
<1>5. v + i + b <= u + a + Grant
  OBVIOUS
<1>6. z = y \/ z = y + 1
  OBVIOUS
<1>7. Grant = IF z = y THEN 0 ELSE M
  BY DEF Grant
<1> HIDE DEF S, T, H, G, P, a, b, u, v, y, z, M
<1>8. V = W + Grant /\ W \in Int /\ Grant \in Int
  <2>1. M * (P + (y + 1)) = M * (P + y) + M /\ M * (P + y) \in Int
    BY <1>1
  <2>2. CASE z = y
    BY <1>1, <1>7, <2>1, <2>2
  <2>3. CASE z = y + 1
    BY <1>1, <1>7, <2>1, <2>3
  <2> QED
    BY <1>6, <2>2, <2>3
<1> HIDE DEF V, W
<1>9. v + T + G <= V
  BY <1>1, <1>2, <1>3, <1>4, <1>5, <1>8
<1>10. Publications(p)' = P
  BY DEF Publications, P
<1> QED
  BY <1>9, <1>10 DEF PostsKept, S, T, H, G, v, z, M, V, About, Subject

\* A copy put where it will be delivered is good for what it leaves.
LEMMA PutLeft ==
    ASSUME IInv, NEW m \in Message,
           \/ new_queue' = Put(new_queue, m) /\ retry_queue' = retry_queue
           \/ retry_queue' = Put(retry_queue, m) /\ new_queue' = new_queue
    PROVE  /\ \A n \in Message \ {m} : Left'[n] = Left[n]
           /\ Left'[m] = Left[m] + (MaxAttempts - m.retries)
           /\ MaxAttempts - m.retries \in Nat
<1> DEFINE r == MaxAttempts - m.retries
           q == new_queue[m] + retry_queue[m]
<1>1. r \in Nat /\ q \in Nat
  <2>1. m.retries \in 0 .. MaxAttempts
    BY DEF Message
  <2>2. new_queue[m] \in Nat /\ retry_queue[m] \in Nat
    BY DEF IInv, TypeOK
  <2> QED
    BY <2>1, <2>2, MaxAttemptsAssumption
<1>2. new_queue'[m] + retry_queue'[m] = q + 1
  BY DEF Put, IInv, TypeOK
<1>3. \A n \in Message \ {m} : new_queue'[n] = new_queue[n]
                               /\ retry_queue'[n] = retry_queue[n]
  BY DEF Put, IInv, TypeOK
<1>4. \A n \in Message \ {m} : Left'[n] = Left[n]
  BY <1>3 DEF Left
<1>5. Left'[m] = r * (q + 1) /\ Left[m] = r * q
  BY <1>2 DEF Left
<1> HIDE DEF r, q
<1>6. r * (q + 1) = r * q + r
  BY <1>1
<1> QED
  BY <1>1, <1>4, <1>5, <1>6 DEF r

\* A step of c that adds no copy to be delivered and makes no POST.
LEMMA SamePosts ==
    ASSUME IInv, RetryInv, IInv', RetryInv', PostsInv,
           NEW c \in Consumers, OthersIdle(c),
           UNCHANGED <<new_queue, retry_queue, posts, published>>,
           faults' = faults \/ faults' = faults + 1,
           \A p \in Payments : Allowed(p)'[c] <= Allowed(p)[c] + Grant
    PROVE  PostsInv'
<1> SUFFICES ASSUME NEW p \in Payments PROVE PostsKept(p)'
  BY DEF PostsInv
<1>1. SumFunctionOnSet(Left', About(p)) =
        SumFunctionOnSet(Left, About(p)) + 0
  <2>1. Left' = Left
    BY DEF Left
  <2> QED
    BY <2>1, PostsTypes
<1>2. posts'[p] + 0 + Allowed(p)'[c] <= posts[p] + Allowed(p)[c] + Grant
  <2>1. Grant \in Int
    BY MaxAttemptsAssumption DEF Grant
  <2>2. posts'[p] = posts[p] /\ posts[p] \in Nat /\ Allowed(p)[c] \in Nat
        /\ Allowed(p)'[c] \in Nat
    BY PostsTypes, AllowedChange
  <2> QED
    BY <2>1, <2>2
<1> QED
  BY <1>1, <1>2, PostsStep DEF PostsInv

\* A step of c that adds a copy of m to be delivered.
LEMMA AddedPosts ==
    ASSUME IInv, RetryInv, IInv', RetryInv', PostsInv,
           NEW c \in Consumers, OthersIdle(c), NEW m \in Message,
           \/ new_queue' = Put(new_queue, m) /\ retry_queue' = retry_queue
           \/ retry_queue' = Put(retry_queue, m) /\ new_queue' = new_queue,
           UNCHANGED <<posts, published>>,
           faults' = faults \/ faults' = faults + 1,
           \A p \in Payments :
             /\ Subject(m) = p => (MaxAttempts - m.retries) + Allowed(p)'[c]
                                    <= Allowed(p)[c] + Grant
             /\ Subject(m) # p => Allowed(p)'[c] <= Allowed(p)[c] + Grant
    PROVE  PostsInv'
<1> SUFFICES ASSUME NEW p \in Payments PROVE PostsKept(p)'
  BY DEF PostsInv
<1> DEFINE r == MaxAttempts - m.retries
           i == IF Subject(m) = p THEN r ELSE 0
<1>1. /\ \A n \in Message \ {m} : Left'[n] = Left[n]
      /\ Left'[m] = Left[m] + r
      /\ r \in Nat
  BY PutLeft
<1>2. /\ Subject(m) = p => r + Allowed(p)'[c] <= Allowed(p)[c] + Grant
      /\ Subject(m) # p => Allowed(p)'[c] <= Allowed(p)[c] + Grant
  OBVIOUS
<1> HIDE DEF r
<1>3. SumFunctionOnSet(Left', About(p)) =
        SumFunctionOnSet(Left, About(p)) + i
  BY <1>1, LeftChange
<1>4. i \in Int
      /\ posts'[p] + i + Allowed(p)'[c] <= posts[p] + Allowed(p)[c] + Grant
  <2>1. Grant \in Int
    BY MaxAttemptsAssumption DEF Grant
  <2>2. posts'[p] = posts[p] /\ posts[p] \in Nat /\ Allowed(p)[c] \in Nat
        /\ Allowed(p)'[c] \in Nat
    BY PostsTypes, AllowedChange
  <2> QED
    BY <1>1, <1>2, <2>1, <2>2
<1> HIDE DEF i
<1> QED
  BY <1>3, <1>4, PostsStep DEF PostsInv

\* No fault, no grant.
LEMMA GrantType ==
    ASSUME IInv
    PROVE  /\ faults' = faults => Grant = 0
           /\ faults' = faults + 1 => Grant = MaxAttempts
           /\ Grant \in Nat
<1>1. faults \in Int
  BY ConsumerAssumption DEF IInv, TypeOK
<1> QED
  BY <1>1, MaxAttemptsAssumption DEF Grant

\* A handler that goes on with the same delivery: only the POST and the
\* router's copy take from its allowance.
LEMMA ContinueAllowance ==
    ASSUME IInv, RetryInv, NEW c \in Consumers, pc[c] # "idle",
           NEW step \in Steps, NEW value, Continue(c, step, value),
           NEW p \in Payments
    PROVE  /\ OthersIdle(c)
           /\ pc[c] \in Before => Allowed(p)'[c] <= Allowed(p)[c]
           /\ step \in {"ack", "reject"} => Allowed(p)'[c] = 0
           /\ pc[c] = "remember" /\ step = "route" =>
                Allowed(p)'[c] = Allowed(p)[c]
           /\ pc[c] = "webhook" /\ step \in {"remember", "route"} =>
                Allowed(p)'[c] = IF Subject(delivery[c]) = p
                                   THEN Allowed(p)[c] - 1 ELSE Allowed(p)[c]
<1> DEFINE r == delivery[c].retries
<1>1. OthersIdle(c)
  BY DEF Continue, OthersIdle, IInv, TypeOK
<1>2. pc'[c] = step /\ step # "idle" /\ delivery'[c] = delivery[c]
  BY DEF Continue, IInv, TypeOK, Steps
<1>3. r \in Nat /\ r < MaxAttempts /\ MaxAttempts \in Nat
  BY AllowanceType, MaxAttemptsAssumption
<1>4. Allowed(p)'[c] =
        IF Subject(delivery[c]) = p
          THEN IF step \in Before THEN MaxAttempts - r
               ELSE IF step \in {"remember", "route"} THEN MaxAttempts - r - 1
               ELSE 0
          ELSE 0
  BY <1>2 DEF Allowed, Allowance, Subject
<1>5. Allowed(p)[c] =
        IF Subject(delivery[c]) = p
          THEN IF pc[c] \in Before THEN MaxAttempts - r
               ELSE IF pc[c] \in {"remember", "route"} THEN MaxAttempts - r - 1
               ELSE 0
          ELSE 0
  BY DEF Allowed, Allowance
<1> HIDE DEF r
<1>6. pc[c] \in Before => Allowed(p)'[c] <= Allowed(p)[c]
  BY <1>3, <1>4, <1>5
<1>7. step \in {"ack", "reject"} => Allowed(p)'[c] = 0
  BY <1>4 DEF Before
<1>8. pc[c] = "remember" /\ step = "route" => Allowed(p)'[c] = Allowed(p)[c]
  BY <1>4, <1>5 DEF Before
<1>9. pc[c] = "webhook" /\ step \in {"remember", "route"} =>
        Allowed(p)'[c] = IF Subject(delivery[c]) = p
                           THEN Allowed(p)[c] - 1 ELSE Allowed(p)[c]
  BY <1>3, <1>4, <1>5 DEF Before
<1> QED
  BY <1>1, <1>6, <1>7, <1>8, <1>9

\* A handler that is done is allowed nothing.
LEMMA FinishAllowance ==
    ASSUME IInv, NEW c \in Consumers, Finish(c)
    PROVE  OthersIdle(c) /\ \A p \in Payments : Allowed(p)'[c] = 0
  BY DEF Finish, OthersIdle, IInv, TypeOK, Allowed

\* The steps of a handler before and after its POST.
LEMMA MovesPosts ==
    ASSUME IInv, RetryInv, IInv', RetryInv', PostsInv, NEW c \in Consumers,
           \/ HasSeen(c) \/ Load(c) \/ CacheGet(c) \/ CachePut(c)
           \/ Complete(c) \/ Remember(c) \/ DatabaseFails(c)
    PROVE  PostsInv'
<1>1. /\ pc[c] \in Before \cup {"remember"}
      /\ UNCHANGED <<new_queue, retry_queue, posts, published, faults>>
      /\ \E step \in Steps : \E value :
           /\ Continue(c, step, value)
           /\ pc[c] = "remember" => step \in {"ack", "route"}
  <2>1. CASE HasSeen(c) \/ Load(c) \/ CacheGet(c)
    BY <2>1 DEF HasSeen, Load, CacheGet, Raise, Before, Steps, queues, webhooks,
                environment
  <2>2. CASE CachePut(c) \/ Complete(c)
    BY <2>2 DEF CachePut, Complete, Raise, Before, Steps, queues, webhooks,
                environment
  <2>3. CASE Remember(c) \/ DatabaseFails(c)
    BY <2>3 DEF Remember, DatabaseFails, Raise, Before, Steps, queues, webhooks,
                environment
  <2> QED
    BY <2>1, <2>2, <2>3
<1>2. pc[c] # "idle"
  BY <1>1 DEF Before
<1>3. \A p \in Payments : Allowed(p)'[c] <= Allowed(p)[c] + Grant
  <2> SUFFICES ASSUME NEW p \in Payments
               PROVE  Allowed(p)'[c] <= Allowed(p)[c] + Grant
    OBVIOUS
  <2>1. Allowed(p)'[c] <= Allowed(p)[c] \/ Allowed(p)'[c] = 0
        \/ Allowed(p)'[c] = Allowed(p)[c]
    BY <1>1, <1>2, ContinueAllowance
  <2>2. Allowed(p)[c] \in Nat /\ Grant = 0
    BY <1>1, PostsTypes, GrantType
  <2> QED
    BY <2>1, <2>2
<1>4. OthersIdle(c)
  BY <1>1 DEF Continue, OthersIdle, IInv, TypeOK
<1> QED
  BY <1>1, <1>3, <1>4, SamePosts

\* The POST is what the handler was allowed, whatever comes of it.
LEMMA WebhookPosts ==
    ASSUME IInv, RetryInv, IInv', RetryInv', PostsInv, NEW c \in Consumers,
           Webhook(c)
    PROVE  PostsInv'
<1> SUFFICES ASSUME NEW p \in Payments PROVE PostsKept(p)'
  BY DEF PostsInv
<1>1. /\ pc[c] = "webhook" /\ UNCHANGED <<queues, published, faults>>
      /\ \E step \in {"remember", "route"} : \E value : Continue(c, step, value)
  BY DEF Webhook, Raise, environment
<1>2. Subject(delivery[c]) \in Payments
  BY <1>1, SubjectType DEF IInv, HandlerKnows
<1>3. posts'[p] = posts[p] + (IF Subject(delivery[c]) = p THEN 1 ELSE 0)
  <2>1. posts \in [Payments -> Nat] /\ posts[p] \in Nat
    BY DEF IInv, TypeOK
  <2>2. posts' = [posts EXCEPT ![Subject(delivery[c])] = @ + 1]
    BY DEF Webhook
  <2> QED
    BY <1>2, <2>1, <2>2
<1>4. /\ OthersIdle(c)
      /\ Allowed(p)'[c] = IF Subject(delivery[c]) = p
                            THEN Allowed(p)[c] - 1 ELSE Allowed(p)[c]
  BY <1>1, ContinueAllowance DEF Steps
<1>5. Grant = 0 /\ posts[p] \in Nat /\ Allowed(p)[c] \in Nat
  BY <1>1, GrantType, PostsTypes
<1>6. posts'[p] + 0 + Allowed(p)'[c] <= posts[p] + Allowed(p)[c] + Grant
  BY <1>3, <1>4, <1>5
<1>7. SumFunctionOnSet(Left', About(p)) =
        SumFunctionOnSet(Left, About(p)) + 0
  <2>1. Left' = Left
    BY <1>1 DEF Left, queues
  <2> QED
    BY <2>1, PostsTypes
<1> QED
  BY <1>1, <1>4, <1>6, <1>7, PostsStep DEF PostsInv

\* A retry is good for one POST less than the delivery it replaces, and a dead
\* letter for none.
LEMMA RoutePosts ==
    ASSUME IInv, RetryInv, IInv', RetryInv', PostsInv, NEW c \in Consumers,
           Route(c)
    PROVE  PostsInv'
<1> DEFINE m == delivery[c]
<1>1. /\ pc[c] = "route" /\ m \in Message
      /\ UNCHANGED <<new_queue, posts, published>>
      /\ \E step \in {"ack", "reject"} : \E value : Continue(c, step, value)
      /\ faults' = faults \/ faults' = faults + 1
  BY DEF Route, webhooks, IInv, HandlerKnows
<1>2. OthersIdle(c) /\ \A p \in Payments : Allowed(p)'[c] = 0
  <2>1. OthersIdle(c)
    BY <1>1 DEF Continue, OthersIdle, IInv, TypeOK
  <2> QED
    BY <1>1, <2>1, ContinueAllowance DEF Steps
<1>3. \A p \in Payments : Allowed(p)[c] \in Nat /\ Grant \in Nat
  BY PostsTypes, GrantType
<1>4. CASE retry_queue' = retry_queue
  BY <1>1, <1>2, <1>3, <1>4, SamePosts
<1>5. CASE Forward(c) /\ retry_queue' # retry_queue
  <2>1. PICK n \in Message : /\ n.event = m.event /\ n.retries = m.retries + 1
                             /\ retry_queue' = Put(retry_queue, n)
    BY <1>1, <1>5, ForwardsOne
  <2>2. m.retries \in Nat /\ MaxAttempts \in Nat
    BY <1>1, AllowanceType, MaxAttemptsAssumption
  <2>3. ASSUME NEW p \in Payments
        PROVE  /\ Subject(n) = p => (MaxAttempts - n.retries) + Allowed(p)'[c]
                                      <= Allowed(p)[c] + Grant
               /\ Subject(n) # p => Allowed(p)'[c] <= Allowed(p)[c] + Grant
    <3>1. Subject(n) = p => Allowed(p)[c] = MaxAttempts - m.retries - 1
      BY <1>1, <2>1 DEF Allowed, Allowance, Before, Subject
    <3>2. MaxAttempts - n.retries = MaxAttempts - m.retries - 1
      BY <2>1, <2>2
    <3> QED
      BY <1>2, <1>3, <2>2, <3>1, <3>2
  <2> HIDE DEF m
  <2> QED
    BY <1>1, <1>2, <2>1, <2>3, AddedPosts
<1> QED
  BY <1>4, <1>5 DEF Route

\* A settled delivery is good for no POST.
LEMMA SettlePosts ==
    ASSUME IInv, RetryInv, IInv', RetryInv', PostsInv, NEW c \in Consumers,
           Ack(c) \/ Reject(c)
    PROVE  PostsInv'
<1>1. /\ UNCHANGED <<new_queue, retry_queue, posts, published, faults>>
      /\ OthersIdle(c) /\ \A p \in Payments : Allowed(p)'[c] = 0
  BY FinishAllowance DEF Ack, Reject, queues, webhooks, environment
<1>2. \A p \in Payments : Allowed(p)[c] \in Nat /\ Grant \in Nat
  BY PostsTypes, GrantType
<1>3. \A p \in Payments : Allowed(p)'[c] <= Allowed(p)[c] + Grant
  BY <1>1, <1>2
<1> QED
  BY <1>1, <1>3, SamePosts

\* A fault grants the POSTs of the copy that the broker puts back.
LEMMA FaultPosts ==
    ASSUME IInv, RetryInv, IInv', RetryInv', PostsInv, NEW c \in Consumers,
           Crash(c) \/ ChannelLost(c)
    PROVE  PostsInv'
<1>1. /\ Requeue(c) /\ UNCHANGED <<retry_queue, posts, published>>
      /\ faults' = faults + 1
  BY DEF Crash, ChannelLost, webhooks
<1>2. \A p \in Payments : Allowed(p)[c] \in Nat /\ Grant = MaxAttempts
                          /\ Grant \in Nat
  BY <1>1, PostsTypes, GrantType
<1>3. OthersIdle(c) /\ \A p \in Payments : Allowed(p)'[c] <= Allowed(p)[c]
  <2>1. CASE Crash(c)
    BY <1>2, <2>1, FinishAllowance DEF Crash
  <2>2. CASE ChannelLost(c)
    <3>1. OthersIdle(c) /\ UNCHANGED <<pc, delivery>>
      BY <2>2 DEF ChannelLost, OthersIdle, IInv, TypeOK
    <3>2. \A p \in Payments : Allowed(p)'[c] = Allowed(p)[c]
      BY <3>1 DEF Allowed, Allowance, Subject
    <3> QED
      BY <1>2, <3>1, <3>2
  <2> QED
    BY <2>1, <2>2
<1>4. \A p \in Payments : Allowed(p)'[c] \in Nat
  BY <1>3, AllowedChange
<1>5. \A p \in Payments : Allowed(p)'[c] <= Allowed(p)[c] + Grant
  BY <1>2, <1>3, <1>4
<1>6. CASE owned[c]
  <2> DEFINE m == delivery[c]
  <2>1. m \in Message /\ m.retries \in Nat
    BY <1>6, AllowanceType DEF IInv, HandlerKnows
  <2>2. new_queue' = Put(new_queue, m)
    BY <1>1, <1>6 DEF Requeue
  <2>3. \A p \in Payments :
          (MaxAttempts - m.retries) + Allowed(p)'[c] <= Allowed(p)[c] + Grant
    BY <1>2, <1>3, <1>4, <2>1, MaxAttemptsAssumption
  <2> HIDE DEF m
  <2> QED
    BY <1>1, <1>3, <1>5, <2>1, <2>2, <2>3, AddedPosts
<1>7. CASE ~ owned[c]
  <2>1. new_queue' = new_queue
    BY <1>1, <1>7 DEF Requeue
  <2> QED
    BY <1>1, <1>3, <1>5, <2>1, SamePosts
<1> QED
  BY <1>6, <1>7

\* A delivery allows what the copy it takes was good for.
LEMMA DeliverPosts ==
    ASSUME IInv, RetryInv, IInv', RetryInv', PostsInv,
           NEW c \in Consumers, NEW m \in Message, Deliver(c, m)
    PROVE  PostsInv'
<1> SUFFICES ASSUME NEW p \in Payments PROVE PostsKept(p)'
  BY DEF PostsInv
<1> DEFINE r == MaxAttempts - m.retries
           q == new_queue[m] + retry_queue[m]
           k == -r
           i == IF Subject(m) = p THEN k ELSE 0
<1>1. r \in Nat /\ q \in Nat
  <2>1. m.retries \in 0 .. MaxAttempts
    BY DEF Message
  <2>2. new_queue[m] \in Nat /\ retry_queue[m] \in Nat
    BY DEF IInv, TypeOK
  <2> QED
    BY <2>1, <2>2, MaxAttemptsAssumption
<1>2. new_queue'[m] + retry_queue'[m] = q - 1
  BY DEF Deliver, Take, IInv, TypeOK
<1>3. \A n \in Message \ {m} : Left'[n] = Left[n]
  BY DEF Deliver, Take, IInv, TypeOK, Left
<1>4. Left'[m] = r * (q - 1) /\ Left[m] = r * q
  BY <1>2 DEF Left
<1>5. UNCHANGED <<posts, published, faults>>
  BY DEF Deliver, webhooks, environment
<1>6. OthersIdle(c) /\ delivery'[c] = m /\ pc'[c] = "has_seen"
  BY DEF Deliver, OthersIdle, IInv, TypeOK
<1>7. Allowed(p)[c] = 0
  BY DEF Deliver, Allowed
<1>8. Allowed(p)'[c] = IF Subject(m) = p THEN r ELSE 0
  BY <1>6 DEF Allowed, Allowance, Before, Subject
<1>9. Grant = 0 /\ posts'[p] = posts[p] /\ posts[p] \in Nat
  BY <1>5, GrantType, PostsTypes
<1> HIDE DEF r, q
<1>10. r * (q - 1) = r * q + k /\ k \in Int /\ i \in Int
  BY <1>1
<1>11. posts'[p] + i + Allowed(p)'[c] <= posts[p] + Allowed(p)[c] + Grant
  BY <1>1, <1>7, <1>8, <1>9
<1>12. Left'[m] = Left[m] + k
  BY <1>4, <1>10
<1> HIDE DEF k
<1>13. SumFunctionOnSet(Left', About(p)) =
         SumFunctionOnSet(Left, About(p)) + i
  BY <1>3, <1>10, <1>12, LeftChange
<1> HIDE DEF i
<1> QED
  BY <1>5, <1>6, <1>10, <1>11, <1>13, PostsStep DEF PostsInv

\* A publication pays for MaxAttempts POSTs.
LEMMA PublishPosts ==
    ASSUME IInv, RetryInv, IInv', RetryInv', PostsInv,
           NEW d \in Events, Publish(d)
    PROVE  PostsInv'
<1> SUFFICES ASSUME NEW p \in Payments PROVE PostsKept(p)'
  BY DEF PostsInv
<1> DEFINE m == [event |-> d, retries |-> 0]
           E == {e \in Events : PaymentOf[e] = p}
           S == SumFunctionOnSet(Left, About(p))
           T == SumFunctionOnSet(Left', About(p))
           H == SumFunctionOnSet(Allowed(p), Consumers)
           P == Publications(p)
           Q == Publications(p)'
           u == posts[p]
           y == faults
           M == MaxAttempts
           i == IF PaymentOf[d] = p THEN 1 ELSE 0
<1>1. m \in Message /\ m.retries = 0 /\ Subject(m) = PaymentOf[d]
  BY MaxAttemptsAssumption DEF Message, Subject
<1>2. /\ new_queue' = Put(new_queue, m)
      /\ published' = [published EXCEPT ![d] = @ + 1]
      /\ UNCHANGED <<retry_queue, pc, delivery, posts, faults>>
  BY DEF Publish, handler, webhooks
<1>3. Allowed(p)' = Allowed(p)
  BY <1>2 DEF Allowed, Allowance, Subject
<1>4. /\ S \in Nat /\ H \in Nat /\ P \in Nat /\ y \in Nat /\ u \in Nat
      /\ M \in Nat
  BY PostsTypes, MaxAttemptsAssumption
<1>5. u + S + H <= M * (P + y)
  BY DEF PostsInv, PostsKept
<1>6. T = S + (IF PaymentOf[d] = p THEN M ELSE 0)
  <2>1. /\ \A n \in Message \ {m} : Left'[n] = Left[n]
        /\ Left'[m] = Left[m] + (M - m.retries)
    BY <1>1, <1>2, PutLeft
  <2>2. M - m.retries = M /\ M \in Int
    BY <1>1, <1>4
  <2>3. Left'[m] = Left[m] + M
    BY <2>1, <2>2
  <2> HIDE DEF m, M
  <2> QED
    BY <1>1, <2>1, <2>2, <2>3, LeftChange
<1>7. Q = P + i
  <2>1. IsFiniteSet(E) /\ (d \in E <=> PaymentOf[d] = p)
    BY FS_Subset, ConsumerAssumption
  <2>2. \A e \in E : published[e] \in Nat /\ published'[e] \in Nat
    BY ConsumerAssumption DEF IInv, TypeOK
  <2>3. /\ \A e \in E \ {d} : published'[e] = published[e]
        /\ published'[d] = published[d] + 1
    BY <1>2 DEF IInv, TypeOK
  <2> HIDE DEF E
  <2>4. SumFunctionOnSet(published', E) =
          SumFunctionOnSet(published, E) + (IF d \in E THEN 1 ELSE 0)
    BY <2>1, <2>2, <2>3, SumChange
  <2> QED
    BY <2>1, <2>4 DEF Publications, E
<1> HIDE DEF S, T, H, P, Q, u, y, M
<1>8. u + T + H <= M * (Q + y)
  <2>1. M * ((P + 1) + y) = M * (P + y) + M /\ M * (P + y) \in Int
    BY <1>4
  <2>2. CASE PaymentOf[d] = p
    <3>1. T = S + M /\ Q = P + 1
      BY <1>6, <1>7, <2>2
    <3>2. M * (Q + y) = M * (P + y) + M
      BY <2>1, <3>1
    <3> DEFINE W == M * (P + y)
               V == M * (Q + y)
    <3> HIDE DEF W, V
    <3>3. W \in Int /\ V = W + M /\ u + S + H <= W
      BY <1>5, <2>1, <3>2 DEF W, V
    <3>4. u + T + H <= V
      BY <1>4, <3>1, <3>3
    <3> QED
      BY <3>4 DEF V
  <2>3. CASE PaymentOf[d] # p
    <3>1. T = S /\ Q = P
      BY <1>4, <1>6, <1>7, <2>3
    <3> QED
      BY <1>5, <3>1
  <2> QED
    BY <2>2, <2>3
<1> QED
  BY <1>2, <1>3, <1>8 DEF PostsKept, S, T, H, Q, u, y, M, About, Subject

\* A retry that is due is good for what it was good for.
LEMMA ExpirePosts ==
    ASSUME IInv, PostsInv, NEW m \in Message, Expire(m) PROVE PostsInv'
<1>1. Left' = Left
  <2>1. \A n \in Message :
          /\ new_queue[n] \in Nat /\ retry_queue[n] \in Nat
          /\ new_queue'[n] = IF n = m THEN new_queue[n] + 1 ELSE new_queue[n]
          /\ retry_queue'[n] = IF n = m THEN retry_queue[n] - 1
                                        ELSE retry_queue[n]
    BY DEF Expire, Put, Take, IInv, TypeOK
  <2>2. \A n \in Message :
          new_queue'[n] + retry_queue'[n] = new_queue[n] + retry_queue[n]
    BY <2>1
  <2> QED
    BY <2>2 DEF Left
<1>2. UNCHANGED <<pc, delivery, posts, published, faults>>
  BY DEF Expire, handler, webhooks, environment
<1> QED
  BY <1>1, <1>2 DEF PostsInv, PostsKept, Allowed, Allowance, Publications,
                    About, Subject

\* PostsInv is inductive, given what handlers know and how retries are counted.
LEMMA NextPosts ==
    IInv /\ RetryInv /\ RetryInv' /\ PostsInv /\ [Next]_vars => PostsInv'
<1> SUFFICES ASSUME IInv, RetryInv, RetryInv', PostsInv, [Next]_vars
             PROVE  PostsInv'
  OBVIOUS
<1>1. IInv'
  BY NextIInv
<1>2. CASE UNCHANGED vars
  BY <1>2 DEF vars, queues, handler, webhooks, environment, PostsInv, PostsKept,
              Left, About, Allowed, Allowance, Publications, Subject
<1>3. ASSUME NEW c \in Consumers, Receive(c) PROVE PostsInv'
  BY <1>1, <1>3, DeliverPosts DEF Receive
<1>4. ASSUME NEW c \in Consumers, Handle(c) PROVE PostsInv'
  BY <1>1, <1>4, MovesPosts, WebhookPosts, RoutePosts, SettlePosts DEF Handle
<1> QED
  BY <1>1, <1>2, <1>3, <1>4, PublishPosts, ExpirePosts, FaultPosts DEF Next

(***************************************************************************)
(* A merchant gets at most MaxAttempts POSTs for each publication of the   *)
(* payment's events and for each fault, whichever steps raise and however  *)
(* consumers overlap: a delivery that was tried comes back only with one   *)
(* retry more counted, or through a fault (identity.py:38-43).             *)
(***************************************************************************)
THEOREM PostsBudgeted == Spec => []AttemptsBudget
<1>1. Init => PostsInv
  <2> SUFFICES ASSUME Init, NEW p \in Payments PROVE PostsKept(p)
    BY DEF PostsInv
  <2>1. IsFiniteSet(About(p)) /\ About(p) \subseteq Message
    BY MessageFinite, FS_Subset DEF About
  <2>2. \A m \in About(p) : Left[m] = 0
    <3>1. ASSUME NEW m \in Message PROVE Left[m] = 0
      <4>1. MaxAttempts - m.retries \in Int
        BY MaxAttemptsAssumption DEF Message
      <4>2. new_queue[m] + retry_queue[m] = 0
        BY DEF Init
      <4> QED
        BY <4>1, <4>2 DEF Left
    <3> QED
      BY <2>1, <3>1
  <2>3. \A c \in Consumers : Allowed(p)[c] = 0
    BY DEF Init, Allowed
  <2>4. SumFunctionOnSet(Left, About(p)) = 0
    BY <2>1, <2>2, SumZero
  <2>5. SumFunctionOnSet(Allowed(p), Consumers) = 0
    BY <2>3, SumZero, ConsumerAssumption
  <2>6. Publications(p) = 0
    <3> DEFINE E == {e \in Events : PaymentOf[e] = p}
    <3>1. IsFiniteSet(E) /\ \A e \in E : published[e] = 0
      BY FS_Subset, ConsumerAssumption DEF Init
    <3> HIDE DEF E
    <3>2. SumFunctionOnSet(published, E) = 0
      BY <3>1, SumZero
    <3> QED
      BY <3>2 DEF Publications, E
  <2>7. posts[p] = 0 /\ faults = 0
    BY DEF Init
  <2> QED
    BY <2>4, <2>5, <2>6, <2>7, MaxAttemptsAssumption DEF PostsKept
<1>2. IInv /\ RetryInv /\ PostsInv => AttemptsBudget
  <2> SUFFICES ASSUME IInv, RetryInv, PostsInv, NEW p \in Payments
               PROVE  posts[p] <= MaxAttempts * (Publications(p) + faults)
    BY DEF AttemptsBudget, Publications
  <2> DEFINE V == MaxAttempts * (Publications(p) + faults)
             S == SumFunctionOnSet(Left, About(p))
             H == SumFunctionOnSet(Allowed(p), Consumers)
  <2>1. posts[p] + S + H <= V
    BY DEF PostsInv, PostsKept
  <2>2. S \in Nat /\ H \in Nat /\ posts[p] \in Nat
        /\ Publications(p) \in Nat /\ faults \in Nat
    BY PostsTypes
  <2>3. V \in Int
    BY <2>2, MaxAttemptsAssumption
  <2> HIDE DEF V, S, H
  <2>4. posts[p] <= V
    BY <2>1, <2>2, <2>3
  <2> QED
    BY <2>4 DEF V
<1> QED
  BY <1>1, <1>2, NextPosts, Invariant, RetryInvariant, PTL DEF Spec
===============================================================================

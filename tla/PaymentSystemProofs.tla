------------------------ MODULE PaymentSystemProofs ------------------------
(* In PaymentSystem every component behaves as its own module says, and what *)
(* follows for the system as a whole.                                        *)
EXTENDS PaymentSystem, Integers, TLAPS

\* Whatever the API and the relay do, the consumers see what Consumer allows: an
\* event appears in the queue, or nothing happens.
THEOREM WorkersAlone == Spec => Workers!Spec
<1>1. Init => Workers!Init
  BY DEF Init
<1>2. [Next]_vars => [Workers!Next]_(Workers!vars)
  <2> SUFFICES ASSUME [Next]_vars PROVE [Workers!Next]_(Workers!vars)
    OBVIOUS
  <2> USE DEF Workers!vars, Workers!broker, Workers!row, Workers!gate, Workers!client, workers
  <2>1. CASE UNCHANGED <<copies, workers>>
    BY <2>1
  <2>2. CASE Delivered
    BY <2>2, <2>1 DEF Delivered, Workers!Next, Workers!Bodies
  <2>3. CASE \E m \in Workers!Messages : WorkerSteps(Workers!Expire(m))
    BY <2>3 DEF WorkerSteps, Workers!Next
  <2>4. CASE \E h \in Handlers : WorkerSteps(Workers!Step(h) \/ Workers!Fault(h))
    BY <2>4 DEF WorkerSteps, Workers!Next
  <2>5. CASE AtRest
    BY <2>5 DEF AtRest, Workers!Waiting
  <2> QED
    BY <2>1, <2>2, <2>3, <2>4, <2>5 DEF Next, vars, ApiSteps, RelaySteps
<1> QED
  BY <1>1, <1>2, PTL DEF Spec, Workers!Spec

\* Nothing relay or consumers do reaches the state of the API: payment_service.py
\* runs as Intake says.
THEOREM ApiAlone == Spec => Api!Spec
<1>1. Init => Api!Init
  BY DEF Init
<1>2. [Next]_vars => [Api!Next]_(Api!vars)
  <2> SUFFICES ASSUME [Next]_vars PROVE [Api!Next]_(Api!vars)
    OBVIOUS
  <2>1. CASE UNCHANGED api
    BY <2>1 DEF api, Api!vars, Api!tables
  <2>2. CASE \E r \in Requests :
          ApiSteps(Api!Arrive(r) \/ Api!Step(r) \/ Api!SessionLost(r) \/ Api!Abort(r))
    BY <2>2 DEF ApiSteps, Api!Next
  <2>3. CASE AtRest
    BY <2>3 DEF AtRest, Api!Next
  <2> QED
    BY <2>1, <2>2, <2>3 DEF Next, vars, RelaySteps, WorkerSteps
<1> QED
  BY <1>1, <1>2, PTL DEF Spec, Api!Spec

(* A step of the API leaves the outbox alone or adds the row of a payment. *)
LEMMA ApiWritesRows ==
    ASSUME NEW r \in Requests,
           Api!Arrive(r) \/ Api!Step(r) \/ Api!SessionLost(r) \/ Api!Abort(r)
    PROVE  events' = events \/ events' = events \cup {r}
<1> USE DEF Api!tables
<1>1. CASE Api!Commit(r) \/ Api!QueryFails(r)
  BY <1>1 DEF Api!Commit, Api!QueryFails, Api!Apply
<1> QED
  BY <1>1 DEF Api!Step, Api!Arrive, Api!Lookup, Api!InsertPayment, Api!KeyTaken, Api!InsertEvent,
              Api!Recover, Api!Respond, Api!SessionLost, Api!Abort

LEMMA RowAdded ==
    ASSUME NEW S, NEW E, NEW r \in S
    PROVE  [x \in S |-> x \in E \cup {r}] = [[x \in S |-> x \in E] EXCEPT ![r] = TRUE]
<1> DEFINE f == [x \in S |-> x \in E \cup {r}]
           g == [[x \in S |-> x \in E] EXCEPT ![r] = TRUE]
<1>1. ASSUME NEW x \in S PROVE f[x] = g[x]
  <2>1. CASE x = r
    <3>1. f[x] = TRUE
      BY <2>1
    <3>2. g[x] = TRUE
      BY <2>1
    <3> QED BY <3>1, <3>2
  <2>2. CASE x # r
    <3>1. f[x] = (x \in E)
      BY <2>2
    <3>2. g[x] = (x \in E)
      BY <2>2
    <3> QED BY <3>1, <3>2
  <2> QED BY <2>1, <2>2
<1>2. f = [x \in S |-> f[x]] /\ g = [x \in S |-> g[x]]
  BY Zenon
<1> QED
  BY <1>1, <1>2, Zenon

\* For the relay a step of the API adds a row to outbox_messages or is not visible.
THEOREM RelayAlone == Spec => Relay!Spec
<1>1. Init => Relay!Init
  BY DEF Init
<1>2. [Next]_vars => [Relay!Next]_(Relay!vars)
  <2> SUFFICES ASSUME [Next]_vars PROVE [Relay!Next]_(Relay!vars)
    OBVIOUS
  <2> USE DEF Relay!vars, Relay!table, Relay!batch, Relay!count, relay
  <2>1. CASE UNCHANGED <<events, relay, copies>>
    BY <2>1
  <2>2. ASSUME NEW r \in Requests,
               ApiSteps(Api!Arrive(r) \/ Api!Step(r) \/ Api!SessionLost(r) \/ Api!Abort(r))
        PROVE  [Relay!Next]_(Relay!vars)
    <3>1. events' = events \/ events' = events \cup {r}
      BY <2>2, ApiWritesRows DEF ApiSteps
    <3>2. CASE r \notin events /\ events' = events \cup {r}
      <4>1. Relay!Insert(r)
        <5>1. [x \in Requests |-> x \in events']
              = [[x \in Requests |-> x \in events] EXCEPT ![r] = TRUE]
          BY <3>2, RowAdded
        <5> QED
          BY <2>2, <3>2, <5>1, Zenon DEF Relay!Insert, ApiSteps
      <4> QED
        BY <4>1 DEF Relay!Next, Relay!Rows, Requests
    <3>3. CASE events' = events
      BY <2>1, <2>2, <3>3 DEF ApiSteps
    <3> QED
      BY <3>1, <3>2, <3>3
  <2>3. CASE \E r \in Requests : RelaySteps(Relay!BackoffElapses(r))
    BY <2>3 DEF RelaySteps, Relay!Next, Relay!Rows, Requests
  <2>4. CASE \E w \in Relays : RelaySteps(Relay!Step(w) \/ Relay!Fault(w))
    BY <2>4 DEF RelaySteps, Relay!Next
  <2>5. CASE AtRest
    BY <2>5 DEF AtRest, Relay!Next
  <2> QED
    BY <2>1, <2>2, <2>3, <2>4, <2>5 DEF Next, vars, api, WorkerSteps
<1> QED
  BY <1>1, <1>2, PTL DEF Spec, Relay!Spec

-----------------------------------------------------------------------------
(* The theorems about the components hold of their parts of the system.      *)

ApiFacts == INSTANCE IntakeProofs WITH pc <- apiPc, budget <- apiBudget, Budget <- ApiBudget

RelayFacts == INSTANCE OutboxRelayProofs WITH
    NumRows <- NumRequests,
    Poison <- {},
    InitialAttempts <- [r \in Requests |-> 0],
    Budget <- RelayBudget,
    stored <- [r \in Requests |-> r \in events],
    published <- marked, attempts <- tries, lock <- rowLock, pc <- relayPc,
    budget <- relayBudget, wasted <- relayWasted

WorkerFacts == INSTANCE ConsumerProofs WITH
    Payments <- Requests,
    Stored <- Requests,
    Malformed <- {},
    Budget <- WorkerBudget,
    published <- copies

(* The instances of a module and of its proofs are the same formulas. *)
LEMMA ApiSame == Api!Spec <=> ApiFacts!Spec
<1>1. Api!Init <=> ApiFacts!Init
  BY DEF Api!Init, ApiFacts!Init
<1>2. [Api!Next]_(Api!vars) <=> [ApiFacts!Next]_(ApiFacts!vars)
  BY Zenon
     DEF Api!Faults, ApiFacts!Faults, Api!Codes, ApiFacts!Codes, Api!Replies, ApiFacts!Replies,
         Api!tables, ApiFacts!tables, Api!vars, ApiFacts!vars, Api!Spend, ApiFacts!Spend,
         Api!Goto, ApiFacts!Goto, Api!Stored, ApiFacts!Stored, Api!KeyFree, ApiFacts!KeyFree,
         Api!Close, ApiFacts!Close, Api!Apply, ApiFacts!Apply,
         Api!InTransaction, ApiFacts!InTransaction,
         Api!Created, ApiFacts!Created, Api!Found, ApiFacts!Found,
         Api!Accept, ApiFacts!Accept, Api!Refuse, ApiFacts!Refuse,
         Api!SameBody, ApiFacts!SameBody, Api!Arrive, ApiFacts!Arrive,
         Api!Lookup, ApiFacts!Lookup, Api!InsertPayment, ApiFacts!InsertPayment,
         Api!KeyTaken, ApiFacts!KeyTaken, Api!InsertEvent, ApiFacts!InsertEvent,
         Api!Commit, ApiFacts!Commit, Api!Recover, ApiFacts!Recover,
         Api!Respond, ApiFacts!Respond, Api!QueryFails, ApiFacts!QueryFails,
         Api!SessionLost, ApiFacts!SessionLost, Api!Abort, ApiFacts!Abort,
         Api!Step, ApiFacts!Step, Api!Served, ApiFacts!Served, Api!Next, ApiFacts!Next
<1> QED
  BY <1>1, <1>2, PTL DEF Api!Spec, ApiFacts!Spec

LEMMA RelaySame == Relay!Spec <=> RelayFacts!Spec
<1>1. Relay!Init <=> RelayFacts!Init
  BY Zenon DEF Relay!Init, RelayFacts!Init, Relay!Rows, RelayFacts!Rows
<1>2. [Relay!Next]_(Relay!vars) <=> [RelayFacts!Next]_(RelayFacts!vars)
  BY Zenon
     DEF Relay!Cardinality, RelayFacts!Cardinality, Relay!IsFiniteSet, RelayFacts!IsFiniteSet,
         Relay!Rows, RelayFacts!Rows, Relay!Faults, RelayFacts!Faults,
         Relay!table, RelayFacts!table, Relay!batch, RelayFacts!batch,
         Relay!count, RelayFacts!count, Relay!vars, RelayFacts!vars,
         Relay!Spend, RelayFacts!Spend, Relay!Goto, RelayFacts!Goto, Relay!Due, RelayFacts!Due,
         Relay!Oldest, RelayFacts!Oldest, Relay!Holds, RelayFacts!Holds,
         Relay!Release, RelayFacts!Release, Relay!Forget, RelayFacts!Forget,
         Relay!Waste, RelayFacts!Waste, Relay!Current, RelayFacts!Current,
         Relay!Continue, RelayFacts!Continue, Relay!Refused, RelayFacts!Refused,
         Relay!Counted, RelayFacts!Counted, Relay!Insert, RelayFacts!Insert,
         Relay!BackoffElapses, RelayFacts!BackoffElapses, Relay!Fetch, RelayFacts!Fetch,
         Relay!PublishOk, RelayFacts!PublishOk, Relay!PublishRejected, RelayFacts!PublishRejected,
         Relay!BrokerDown, RelayFacts!BrokerDown,
         Relay!BackoffOverflows, RelayFacts!BackoffOverflows, Relay!Record, RelayFacts!Record,
         Relay!SessionAlive, RelayFacts!SessionAlive, Relay!Commit, RelayFacts!Commit,
         Relay!CommitFails, RelayFacts!CommitFails, Relay!RequestStop, RelayFacts!RequestStop,
         Relay!Stop, RelayFacts!Stop, Relay!SessionLost, RelayFacts!SessionLost,
         Relay!Crash, RelayFacts!Crash, Relay!Step, RelayFacts!Step,
         Relay!Fault, RelayFacts!Fault, Relay!Polling, RelayFacts!Polling,
         Relay!Next, RelayFacts!Next
<1> QED
  BY <1>1, <1>2, PTL DEF Relay!Spec, RelayFacts!Spec

LEMMA WorkersSame == Workers!Spec <=> WorkerFacts!Spec
<1>1. Workers!Init <=> WorkerFacts!Init
  BY Zenon DEF Workers!Init, WorkerFacts!Init, Workers!Messages, WorkerFacts!Messages,
               Workers!Buried, WorkerFacts!Buried, Workers!Bodies, WorkerFacts!Bodies,
               Workers!Verdicts, WorkerFacts!Verdicts
<1>2. [Workers!Next]_(Workers!vars) <=> [WorkerFacts!Next]_(WorkerFacts!vars)
  BY Zenon
     DEF Workers!Faults, WorkerFacts!Faults, Workers!Bodies, WorkerFacts!Bodies,
         Workers!Messages, WorkerFacts!Messages, Workers!Verdicts, WorkerFacts!Verdicts,
         Workers!Buried, WorkerFacts!Buried, Workers!Status, WorkerFacts!Status,
         Workers!Final, WorkerFacts!Final, Workers!broker, WorkerFacts!broker,
         Workers!row, WorkerFacts!row, Workers!gate, WorkerFacts!gate,
         Workers!client, WorkerFacts!client, Workers!vars, WorkerFacts!vars,
         Workers!Spend, WorkerFacts!Spend, Workers!Goto, WorkerFacts!Goto,
         Workers!Raise, WorkerFacts!Raise, Workers!P, WorkerFacts!P,
         Workers!Holds, WorkerFacts!Holds, Workers!RowFree, WorkerFacts!RowFree,
         Workers!IsPending, WorkerFacts!IsPending, Workers!Acquire, WorkerFacts!Acquire,
         Workers!Release, WorkerFacts!Release, Workers!Charged, WorkerFacts!Charged,
         Workers!Requeue, WorkerFacts!Requeue, Workers!NextAttempt, WorkerFacts!NextAttempt,
         Workers!Exhausted, WorkerFacts!Exhausted, Workers!Publish, WorkerFacts!Publish,
         Workers!Expire, WorkerFacts!Expire, Workers!Receive, WorkerFacts!Receive,
         Workers!NotFound, WorkerFacts!NotFound, Workers!AlreadyFinal, WorkerFacts!AlreadyFinal,
         Workers!LockPending, WorkerFacts!LockPending, Workers!Charge, WorkerFacts!Charge,
         Workers!RecordCharge, WorkerFacts!RecordCharge,
         Workers!CommitCharge, WorkerFacts!CommitCharge,
         Workers!CommitChargeFails, WorkerFacts!CommitChargeFails,
         Workers!NothingToSend, WorkerFacts!NothingToSend,
         Workers!LockForDelivery, WorkerFacts!LockForDelivery,
         Workers!RetryableStatusCodes, WorkerFacts!RetryableStatusCodes,
         Workers!Classify, WorkerFacts!Classify, Workers!Passing, WorkerFacts!Passing,
         Workers!Read, WorkerFacts!Read, Workers!Answered, WorkerFacts!Answered,
         Workers!NoAnswer, WorkerFacts!NoAnswer,
         Workers!Send, WorkerFacts!Send, Workers!RecordDelivery, WorkerFacts!RecordDelivery,
         Workers!CommitDelivery, WorkerFacts!CommitDelivery,
         Workers!CommitDeliveryFails, WorkerFacts!CommitDeliveryFails,
         Workers!Forward, WorkerFacts!Forward, Workers!Route, WorkerFacts!Route,
         Workers!RouteFails, WorkerFacts!RouteFails, Workers!Finish, WorkerFacts!Finish,
         Workers!Ack, WorkerFacts!Ack, Workers!AckFails, WorkerFacts!AckFails,
         Workers!Nack, WorkerFacts!Nack, Workers!SelectFails, WorkerFacts!SelectFails,
         Workers!SessionLost, WorkerFacts!SessionLost,
         Workers!ChannelLost, WorkerFacts!ChannelLost, Workers!Crash, WorkerFacts!Crash,
         Workers!Step, WorkerFacts!Step, Workers!Fault, WorkerFacts!Fault,
         Workers!Drained, WorkerFacts!Drained, Workers!Waiting, WorkerFacts!Waiting,
         Workers!Next, WorkerFacts!Next
<1> QED
  BY <1>1, <1>2, PTL DEF Workers!Spec, WorkerFacts!Spec

LEMMA ApiAssumptions ==
    ApiFacts!RequestsAssumption /\ ApiFacts!NoneAssumption /\ ApiFacts!BudgetAssumption
BY RequestsAssumption, NoneAssumption, BudgetAssumption
   DEF ApiFacts!RequestsAssumption, ApiFacts!NoneAssumption, ApiFacts!BudgetAssumption,
       ApiFacts!Faults

LEMMA RelayAssumptions ==
    /\ RelayFacts!RowsAssumption /\ RelayFacts!BatchAssumption /\ RelayFacts!NoneAssumption
    /\ RelayFacts!AttemptsAssumption /\ RelayFacts!BudgetAssumption
BY RequestsAssumption, RelayAssumption, NoneAssumption, BudgetAssumption
   DEF RelayFacts!RowsAssumption, RelayFacts!BatchAssumption, RelayFacts!NoneAssumption,
       RelayFacts!AttemptsAssumption, RelayFacts!BudgetAssumption, RelayFacts!Faults,
       RelayFacts!Rows, Requests

LEMMA WorkerAssumptions ==
    /\ WorkerFacts!PaymentsAssumption /\ WorkerFacts!AnswersAssumption
    /\ WorkerFacts!MaxRetriesAssumption /\ WorkerFacts!NoneAssumption
    /\ WorkerFacts!BudgetAssumption /\ WorkerFacts!NoMessageAssumption
BY ConsumerAssumption, NoneAssumption, BudgetAssumption
   DEF WorkerFacts!PaymentsAssumption, WorkerFacts!AnswersAssumption,
       WorkerFacts!MaxRetriesAssumption, WorkerFacts!NoneAssumption,
       WorkerFacts!BudgetAssumption, WorkerFacts!NoMessageAssumption, WorkerFacts!Faults,
       WorkerFacts!Messages, WorkerFacts!Bodies

LEMMA ApiLifted ==
    Spec => [](Api!OnePaymentPerKey /\ Api!PaymentIffEvent /\ Api!TypeOK)
<1>1. ApiFacts!Spec => []ApiFacts!OnePaymentPerKey
  BY ApiAssumptions, ApiFacts!KeysAreUnique
<1>2. ApiFacts!Spec => []ApiFacts!PaymentIffEvent
  BY ApiAssumptions, ApiFacts!NoPaymentWithoutEvent
<1>3. ApiFacts!Spec => []ApiFacts!TypeOK
  BY ApiAssumptions, ApiFacts!TypeCorrect
<1>4. /\ ApiFacts!OnePaymentPerKey => Api!OnePaymentPerKey
      /\ ApiFacts!PaymentIffEvent => Api!PaymentIffEvent
      /\ ApiFacts!TypeOK => Api!TypeOK
  BY DEF Api!OnePaymentPerKey, ApiFacts!OnePaymentPerKey, Api!PaymentIffEvent,
         ApiFacts!PaymentIffEvent, Api!TypeOK, ApiFacts!TypeOK, Api!Replies, ApiFacts!Replies,
         Api!Results, ApiFacts!Results, Api!Codes, ApiFacts!Codes, Api!Faults, ApiFacts!Faults
<1> QED
  BY <1>1, <1>2, <1>3, <1>4, ApiAlone, ApiSame, PTL

\* What the relay has taken from the API's table.
Taken == \A r \in Requests : (copies[r] > 0 => r \in events) /\ (marked[r] => copies[r] > 0)

LEMMA RelayLifted == Spec => []Taken
<1>1. RelayFacts!Spec => []RelayFacts!CopiesStored
  BY RelayAssumptions, RelayFacts!PublishedIsStored
<1>2. RelayFacts!Spec => []RelayFacts!MarkedMeansConfirmed
  BY RelayAssumptions, RelayFacts!MarkedIsConfirmed
<1>3. RelayFacts!CopiesStored /\ RelayFacts!MarkedMeansConfirmed => Taken
  BY DEF RelayFacts!CopiesStored, RelayFacts!MarkedMeansConfirmed, RelayFacts!Rows, Requests, Taken
<1> QED
  BY <1>1, <1>2, <1>3, RelayAlone, RelaySame, PTL

\* What the consumers do with it.
Handled ==
    /\ \A p \in Requests : charges[p] > 0 => copies[p] > 0
    /\ \A p \in Requests : copies[p] > 0 => Workers!Settled(p) \/ Workers!Alive(p)
    /\ \A p \in Requests :
          /\ charges[p] <= 1 + Workers!Spent("crash") + Workers!Spent("db")
          /\ Workers!Accepted(p) <=
                  1 + Workers!Spent("crash") + Workers!Spent("db") + unheard[p]

LEMMA WorkersLifted == Spec => []Handled
<1>1. WorkerFacts!Spec => [](\A p \in Requests : charges[p] > 0 => copies[p] > 0)
  BY WorkerAssumptions, WorkerFacts!ChargedIsPublished
<1>2. WorkerFacts!Spec => []WorkerFacts!NoLoss
  BY WorkerAssumptions, WorkerFacts!EventsKept
<1>3. WorkerFacts!Spec => []WorkerFacts!RepeatsPaidFor
  BY WorkerAssumptions, WorkerFacts!RepeatsArePaidFor
<1>4. WorkerFacts!NoLoss
      => \A p \in Requests : copies[p] > 0 => Workers!Settled(p) \/ Workers!Alive(p)
  BY Zenon DEF WorkerFacts!NoLoss, WorkerFacts!Settled, WorkerFacts!Alive, WorkerFacts!InDlq,
     WorkerFacts!P, WorkerFacts!Buried, WorkerFacts!Messages, WorkerFacts!Bodies,
     WorkerFacts!Verdicts, Workers!Settled, Workers!Alive, Workers!InDlq, Workers!P,
     Workers!Buried, Workers!Messages, Workers!Bodies, Workers!Verdicts
<1>5. WorkerFacts!RepeatsPaidFor
      => \A p \in Requests :
            /\ charges[p] <= 1 + Workers!Spent("crash") + Workers!Spent("db")
            /\ Workers!Accepted(p) <=
                  1 + Workers!Spent("crash") + Workers!Spent("db") + unheard[p]
  BY DEF WorkerFacts!RepeatsPaidFor, WorkerFacts!Spent, Workers!Spent, WorkerFacts!Accepted,
         Workers!Accepted
<1> QED
  BY <1>1, <1>2, <1>3, <1>4, <1>5, WorkersAlone, WorkersSame, PTL DEF Handled

-----------------------------------------------------------------------------
(* The system as a whole. *)

\* design.md:95-107, consumer.py:3-6: from the 202 to the client nothing is lost
\* on the way, and nothing is handled that was not accepted.
THEOREM NothingLostBetween == Spec => []HandedOver
<1>1. Api!PaymentIffEvent /\ Api!TypeOK /\ Taken /\ Handled => HandedOver
  BY DEF Api!PaymentIffEvent, Api!TypeOK, Taken, Handled, HandedOver, EventsNamePayments,
         AcceptedIsKept
<1> QED
  BY <1>1, ApiLifted, RelayLifted, WorkersLifted, PTL

\* design.md:207-211: a key is charged once, however often requests, publications
\* and deliveries are repeated; only a crash or a database fault of a consumer adds
\* to it.  Its webhook is accepted once, and once more for each of these faults and
\* for each 2xx of the client that was late or lost.
THEOREM KeyIsChargedOnce == Spec => []ChargedOncePerKey
<1>1. Api!OnePaymentPerKey /\ Api!PaymentIffEvent /\ Taken /\ Handled => ChargedOncePerKey
  BY DEF Api!OnePaymentPerKey, Api!PaymentIffEvent, Taken, Handled, ChargedOncePerKey
<1> QED
  BY <1>1, ApiLifted, RelayLifted, WorkersLifted, PTL

\* What relay and consumers repeat, each for itself.
Repeated ==
    \A p \in Requests :
        /\ copies[p] <= 1 + Relay!FaultsSoFar
        /\ posts[p] <= (copies[p] + Workers!Spent("crash") + Workers!Spent("broker"))
                       * (MaxRetries + 1)

\* The numbers these bounds are about.
Counted ==
    /\ Relay!FaultsSoFar \in Int
    /\ Workers!Spent("crash") \in Int /\ Workers!Spent("broker") \in Int
    /\ \A p \in Requests : copies[p] \in Nat /\ posts[p] \in Nat

LEMMA RepetitionsLifted == Spec => [](Repeated /\ Counted)
<1>1. RelayFacts!Spec => []RelayFacts!CopiesBounded
  BY RelayAssumptions, RelayFacts!CopiesPaidFor
<1>2. RelayFacts!Spec => []RelayFacts!TypeOK
  BY RelayAssumptions, RelayFacts!TypeCorrect
<1>3. WorkerFacts!Spec => []WorkerFacts!PostsBounded
  BY WorkerAssumptions, WorkerFacts!RequestsBounded
<1>4. WorkerFacts!Spec => []WorkerFacts!TypeOK
  BY WorkerAssumptions, WorkerFacts!TypeCorrect
<1>5. RelayFacts!CopiesBounded => \A p \in Requests : copies[p] <= 1 + Relay!FaultsSoFar
  BY DEF RelayFacts!CopiesBounded, RelayFacts!PoisonIsPutOff, RelayFacts!Rows, Requests,
         RelayFacts!FaultsSoFar, Relay!FaultsSoFar, RelayFacts!Spent, Relay!Spent
<1>6. WorkerFacts!PostsBounded
      => \A p \in Requests :
            posts[p] <= (copies[p] + Workers!Spent("crash") + Workers!Spent("broker"))
                        * (MaxRetries + 1)
  BY DEF WorkerFacts!PostsBounded, WorkerFacts!Spent, Workers!Spent
<1>7. RelayFacts!TypeOK => Relay!FaultsSoFar \in Int /\ \A p \in Requests : copies[p] \in Nat
  <2> SUFFICES ASSUME RelayFacts!TypeOK
               PROVE  Relay!FaultsSoFar \in Int /\ \A p \in Requests : copies[p] \in Nat
    OBVIOUS
  <2>1. \A p \in Requests : copies[p] \in Nat
    BY DEF RelayFacts!TypeOK, RelayFacts!Rows, Requests
  <2>2. relayBudget \in [{"crash", "db", "reject", "outage", "stop"} -> Nat]
    BY DEF RelayFacts!TypeOK, RelayFacts!Faults
  <2>3. \A fault \in {"crash", "db", "reject", "outage"} : Relay!Spent(fault) \in Int
    BY <2>2, BudgetAssumption DEF Relay!Spent
  <2> QED
    BY <2>1, <2>3 DEF Relay!FaultsSoFar
<1>8. WorkerFacts!TypeOK
      => /\ Workers!Spent("crash") \in Int /\ Workers!Spent("broker") \in Int
         /\ \A p \in Requests : posts[p] \in Nat
  BY BudgetAssumption DEF WorkerFacts!TypeOK, WorkerFacts!Faults, Workers!Spent
<1>9. RelayFacts!CopiesBounded /\ RelayFacts!TypeOK /\ WorkerFacts!PostsBounded
      /\ WorkerFacts!TypeOK => Repeated /\ Counted
  BY <1>5, <1>6, <1>7, <1>8 DEF Repeated, Counted
<1> QED
  BY <1>1, <1>2, <1>3, <1>4, <1>9, RelayAlone, RelaySame, WorkersAlone, WorkersSame, PTL

LEMMA TimesMonotone ==
    ASSUME NEW a \in Int, NEW b \in Int, NEW n \in Nat, a <= b
    PROVE  a * n <= b * n
OBVIOUS

\* design.md:103-107, consumer.py:90-106: the duplicates of relay, broker and retry
\* loop add up and do not multiply: each fault costs one series of requests.
THEOREM WebhooksAreBounded == Spec => []WebhooksBounded
<1>1. Repeated /\ Counted => WebhooksBounded
  <2> SUFFICES ASSUME Repeated, Counted, NEW p \in Requests
               PROVE  posts[p] <= (1 + Relay!FaultsSoFar + Workers!Spent("crash")
                                     + Workers!Spent("broker")) * (MaxRetries + 1)
    BY DEF WebhooksBounded
  <2> DEFINE some == copies[p] + Workers!Spent("crash") + Workers!Spent("broker")
             most == 1 + Relay!FaultsSoFar + Workers!Spent("crash") + Workers!Spent("broker")
  <2>1. /\ some \in Int /\ most \in Int /\ some <= most
        /\ MaxRetries + 1 \in Nat /\ posts[p] \in Int
    BY ConsumerAssumption DEF Repeated, Counted
  <2>2. posts[p] <= some * (MaxRetries + 1)
    BY DEF Repeated
  <2> HIDE DEF some, most
  <2>3. some * (MaxRetries + 1) <= most * (MaxRetries + 1)
    BY <2>1, TimesMonotone
  <2>4. posts[p] <= most * (MaxRetries + 1)
    <3> DEFINE n == MaxRetries + 1
    <3>1. some * n \in Int /\ most * n \in Int
      BY <2>1
    <3> QED
      BY <2>1, <2>2, <2>3, <3>1
  <2> QED
    BY <2>4 DEF most
<1> QED
  BY <1>1, RepetitionsLifted, PTL

-----------------------------------------------------------------------------
(* The system implements the service the client sees. *)

(* What the registry and the lifecycle of the components do in the system. *)
LEMMA RegistryLifted == Spec => Service!Registry!Spec
<1>1. ApiFacts!Spec => ApiFacts!Registry!Spec
  BY ApiAssumptions, ApiFacts!RegistryImplemented DEF ApiFacts!ImplementsRegistry
<1>2. ApiFacts!Registry!Init <=> Service!Registry!Init
  BY DEF ApiFacts!Registry!Init, Service!Registry!Init, ApiFacts!Owner, Api!Owner,
         ApiFacts!Stored, Api!Stored
<1>3. [ApiFacts!Registry!Next]_(ApiFacts!Registry!vars)
      <=> [Service!Registry!Next]_(Service!Registry!vars)
  BY Zenon DEF ApiFacts!Registry!Next, Service!Registry!Next, ApiFacts!Registry!vars,
         Service!Registry!vars, ApiFacts!Registry!Create, Service!Registry!Create,
         ApiFacts!Registry!Accept, Service!Registry!Accept,
         ApiFacts!Registry!Refuse, Service!Registry!Refuse,
         ApiFacts!Registry!Refusals, Service!Registry!Refusals,
         ApiFacts!Owner, Api!Owner, ApiFacts!Stored, Api!Stored
<1> QED
  BY <1>1, <1>2, <1>3, ApiAlone, ApiSame, PTL DEF ApiFacts!Registry!Spec, Service!Registry!Spec

LEMMA LifecycleLifted == Spec => Service!Lifecycle!Spec
<1>1. WorkerFacts!Spec => WorkerFacts!Lifecycle!Spec
  BY WorkerAssumptions, WorkerFacts!LifecycleImplemented DEF WorkerFacts!ImplementsLifecycle
<1>2. WorkerFacts!Lifecycle!Init <=> Service!Lifecycle!Init
  BY DEF WorkerFacts!Lifecycle!Init, Service!Lifecycle!Init
<1>3. [WorkerFacts!Lifecycle!Next]_(WorkerFacts!Lifecycle!vars)
      <=> [Service!Lifecycle!Next]_(Service!Lifecycle!vars)
  BY Zenon DEF WorkerFacts!Lifecycle!Next, Service!Lifecycle!Next, WorkerFacts!Lifecycle!vars,
         Service!Lifecycle!vars, WorkerFacts!Lifecycle!Finalize, Service!Lifecycle!Finalize,
         WorkerFacts!Lifecycle!Notify, Service!Lifecycle!Notify,
         WorkerFacts!Lifecycle!Deliver, Service!Lifecycle!Deliver,
         WorkerFacts!Lifecycle!Final, Service!Lifecycle!Final
<1> QED
  BY <1>1, <1>2, <1>3, WorkersAlone, WorkersSame, PTL
     DEF WorkerFacts!Lifecycle!Spec, Service!Lifecycle!Spec

\* A payment is decided only after its event was published, and told of only then.
Decided ==
    /\ status \in [Requests -> Workers!Status]
    /\ \A p \in Requests : status[p] # "pending" => copies[p] > 0
    /\ \A p \in Requests : told[p] # {} => status[p] # "pending"

LEMMA DecidedLifted == Spec => []Decided
<1>1. WorkerFacts!Spec => []WorkerFacts!ChargeAccounting
  BY WorkerAssumptions, WorkerFacts!GatewayAccounted
<1>2. WorkerFacts!Spec => []WorkerFacts!TypeOK
  BY WorkerAssumptions, WorkerFacts!TypeCorrect
<1>3. WorkerFacts!Spec => []WorkerFacts!WebhookAgrees
  BY WorkerAssumptions, WorkerFacts!ClientAgrees
<1>4. WorkerFacts!ChargeAccounting /\ WorkerFacts!TypeOK /\ WorkerFacts!WebhookAgrees /\ Handled
      => Decided
  BY DEF WorkerFacts!ChargeAccounting, WorkerFacts!TypeOK, WorkerFacts!WebhookAgrees,
         WorkerFacts!Status, Workers!Status, Handled, Decided
<1> QED
  BY <1>1, <1>2, <1>3, <1>4, WorkersLifted, WorkersAlone, WorkersSame, PTL

\* No process writes both to the registry and to the lifecycle.
LEMMA OneSideAtATime ==
    ASSUME [Next]_vars
    PROVE  UNCHANGED Service!registry \/ UNCHANGED Service!lifecycle
<1>1. CASE UNCHANGED api
  BY <1>1 DEF api, Service!registry, Api!Owner, Api!Stored
<1>2. CASE UNCHANGED workers
  BY <1>2 DEF workers, Service!lifecycle
<1>3. CASE AtRest
  BY <1>1, <1>3 DEF AtRest, Workers!Waiting, Workers!vars, Workers!row, Workers!client,
                    Service!lifecycle
<1> QED
  BY <1>1, <1>2, <1>3 DEF Next, vars, ApiSteps, RelaySteps, WorkerSteps

LEMMA ServiceStep ==
    ASSUME [Next]_vars, Taken', Decided, Decided',
           [Service!Registry!Next]_(Service!Registry!vars),
           [Service!Lifecycle!Next]_(Service!Lifecycle!vars)
    PROVE  [Service!Next]_(Service!vars)
<1> USE DEF Service!registry, Service!lifecycle, Service!vars, Service!Registry!vars,
            Service!Lifecycle!vars
<1>1. CASE UNCHANGED Service!lifecycle
  <2>1. CASE UNCHANGED Service!registry
    BY <1>1, <2>1
  <2>2. CASE Service!Registry!Next
    BY <1>1, <2>2 DEF Service!Registry!Next, Service!Next, Service!Register
  <2> QED
    BY <2>1, <2>2
<1>2. CASE UNCHANGED Service!registry
  <2>1. CASE UNCHANGED Service!lifecycle
    BY <1>2, <2>1
  <2>2. CASE Service!Lifecycle!Next
    <3>1. PICK p \in Requests : \/ Service!Lifecycle!Finalize(p)
                                \/ Service!Lifecycle!Notify(p)
                                \/ Service!Lifecycle!Deliver(p)
      BY <2>2 DEF Service!Lifecycle!Next
    <3>2. status'[p] # "pending"
      <4>1. CASE Service!Lifecycle!Finalize(p)
        BY <4>1 DEF Service!Lifecycle!Finalize, Service!Lifecycle!Final, Decided
      <4>2. CASE Service!Lifecycle!Notify(p)
        BY <4>2 DEF Service!Lifecycle!Notify, Service!Lifecycle!Final
      <4>3. CASE Service!Lifecycle!Deliver(p)
        BY <4>3 DEF Service!Lifecycle!Deliver, Decided
      <4> QED
        BY <3>1, <4>1, <4>2, <4>3
    <3>3. p \in events
      BY <1>2, <3>2 DEF Taken, Decided
    <3> QED
      BY <1>2, <3>1, <3>3 DEF Service!Next, Service!Process
  <2> QED
    BY <2>1, <2>2
<1> QED
  BY <1>1, <1>2, OneSideAtATime

\* README.md:7-9, design.md:95-107: API, relay, broker and consumers together are
\* to a client one registry whose payments are decided once, after they were
\* accepted, and told as they were decided.
THEOREM ServiceImplemented == Spec => ImplementsService
<1>1. Service!Registry!Init /\ Service!Lifecycle!Init => Service!Init
  BY DEF Service!Init
<1>2. [Next]_vars /\ Taken' /\ Decided /\ Decided'
      /\ [Service!Registry!Next]_(Service!Registry!vars)
      /\ [Service!Lifecycle!Next]_(Service!Lifecycle!vars)
      => [Service!Next]_(Service!vars)
  BY ServiceStep
<1> QED
  BY <1>1, <1>2, RegistryLifted, LifecycleLifted, RelayLifted, DecidedLifted, PTL
     DEF Spec, ImplementsService, Service!Spec, Service!Registry!Spec, Service!Lifecycle!Spec

=============================================================================

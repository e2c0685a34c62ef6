--------------------------- MODULE PaymentSystem ---------------------------
(***************************************************************************)
(* The three processes together: the API (Intake) commits payments with    *)
(* their events, the relay (OutboxRelay) reads these rows and publishes    *)
(* them, the consumers (Consumer) take what it has published.  They share  *)
(* nothing but two things:                                                 *)
(*                                                                         *)
(*   - the committed rows of outbox_messages: `events` of Intake is        *)
(*     `stored` of OutboxRelay;                                            *)
(*   - the queue payments.new: the `copies` the broker took from the relay *)
(*     are what is `published` to the consumers, and become ready there.   *)
(*                                                                         *)
(* Requests are numbers.  A payment, its event and its outbox row all bear *)
(* the number of the request that made them.  Only events the API writes   *)
(* reach the queue.                                                        *)
(***************************************************************************)
EXTENDS Naturals

CONSTANTS
    NumRequests,
    Keys, Prints, KeyOf, PrintOf, RefusalOf,                \* of the API
    Relays, BatchSize, AttemptsBound, OverflowAt,           \* of the relay
    WithWebhook, Handlers, Answers, MaxRetries,             \* of the consumers
    None,
    ApiBudget, RelayBudget, WorkerBudget,                   \* faults of each kind
    MinFaultsLeft          \* how many of all these faults a behaviour leaves over

Requests == 1..NumRequests

ASSUME RequestsAssumption ==
    /\ NumRequests \in Nat
    /\ KeyOf \in [Requests -> Keys]
    /\ PrintOf \in [Requests -> Prints]
    /\ RefusalOf \in [Requests -> {202, 400, 401, 422}]
ASSUME RelayAssumption ==
    /\ BatchSize \in Nat \ {0}
    /\ AttemptsBound \in Nat
    /\ OverflowAt \in Nat
ASSUME ConsumerAssumption ==
    /\ WithWebhook \subseteq Requests
    /\ Answers \subseteq 200..599
    /\ MaxRetries \in Nat \ {0}
ASSUME NoneAssumption ==
    /\ None \notin Requests \cup Relays \cup Handlers
    /\ None \notin [body : Requests, attempt : 0..(MaxRetries + 1)]
ASSUME BudgetAssumption ==
    /\ ApiBudget \in [{"crash", "db"} -> Nat]
    /\ RelayBudget \in [{"crash", "db", "reject", "outage", "stop"} -> Nat]
    /\ WorkerBudget \in [{"crash", "db", "broker", "publish"} -> Nat]
    /\ MinFaultsLeft \in Nat

VARIABLES
    \* the API
    payments, events, index, apiPc, tx, result, reply, apiBudget,
    \* the relay
    marked, tries, backoff, rowLock, relayPc, todo, done, failed, stopping, relayBudget,
    copies, relayWasted,
    \* the broker and the consumers
    ready, retry, dlq, unacked, status, attempts, lastError, delivered, lock,
    pc, msg, res, budget, charges, wasted, posts, told, heard, unheard, refused

Api == INSTANCE Intake WITH pc <- apiPc, budget <- apiBudget, Budget <- ApiBudget

Relay == INSTANCE OutboxRelay WITH
    NumRows <- NumRequests,
    Poison <- {},
    InitialAttempts <- [r \in Requests |-> 0],
    Budget <- RelayBudget,
    stored <- [r \in Requests |-> r \in events],
    published <- marked, attempts <- tries, lock <- rowLock, pc <- relayPc,
    budget <- relayBudget, wasted <- relayWasted

Workers == INSTANCE Consumer WITH
    Payments <- Requests,
    Stored <- Requests,
    Malformed <- {},
    Budget <- WorkerBudget,
    published <- copies

api == <<payments, events, index, apiPc, tx, result, reply, apiBudget>>
relay == <<marked, tries, backoff, rowLock, relayPc, todo, done, failed, stopping, relayBudget,
           relayWasted>>
workers == <<ready, retry, dlq, unacked, status, attempts, lastError, delivered, lock,
             pc, msg, res, budget, charges, wasted, posts, told, heard, unheard, refused>>
vars == <<api, relay, copies, workers>>

Init == Api!Init /\ Relay!Init /\ Workers!Init

-----------------------------------------------------------------------------
(* What the three budgets have left. *)
FaultsLeft ==
    apiBudget["crash"] + apiBudget["db"]
    + relayBudget["crash"] + relayBudget["db"] + relayBudget["reject"] + relayBudget["outage"]
    + budget["crash"] + budget["db"] + budget["broker"]

Bounded == FaultsLeft' >= MinFaultsLeft

ApiSteps(A) == A /\ UNCHANGED <<relay, copies, workers>> /\ Bounded

\* What the broker takes from the relay is ready for the consumers.
Delivered ==
    \/ UNCHANGED <<copies, workers>>
    \/ \E r \in Requests : Workers!Publish(r)

RelaySteps(A) == UNCHANGED api /\ A /\ Delivered /\ Bounded

WorkerSteps(A) == A /\ UNCHANGED <<api, relay, copies>> /\ Bounded

AtRest == Api!Served /\ Relay!Polling /\ Workers!Waiting

Next ==
    \/ \E r \in Requests :
          ApiSteps(Api!Arrive(r) \/ Api!Step(r) \/ Api!SessionLost(r) \/ Api!Abort(r))
    \/ \E r \in Requests : RelaySteps(Relay!BackoffElapses(r))
    \/ \E w \in Relays : RelaySteps(Relay!Step(w) \/ Relay!Fault(w))
    \/ \E m \in Workers!Messages : WorkerSteps(Workers!Expire(m))
    \/ \E h \in Handlers : WorkerSteps(Workers!Step(h) \/ Workers!Fault(h))
    \/ AtRest

\* Some request, relay, handler or timer that can go on does.
Fairness ==
    /\ WF_vars(\E r \in Requests : ApiSteps(Api!Step(r)))
    /\ WF_vars(\E r \in Requests : RelaySteps(Relay!BackoffElapses(r)))
    /\ WF_vars(\E w \in Relays : RelaySteps(Relay!Step(w)))
    /\ WF_vars(\E m \in Workers!Messages : WorkerSteps(Workers!Expire(m)))
    /\ WF_vars(\E h \in Handlers : WorkerSteps(Workers!Step(h)))

Spec == Init /\ [][Next]_vars
FairSpec == Spec /\ Fairness

-----------------------------------------------------------------------------
(* Properties *)

\* payment_service.py:112-113: an event never overtakes its payment: whatever is
\* in a queue or a handler names a payment that is stored.
EventsNamePayments == \A p \in Requests : copies[p] > 0 => p \in payments

\* design.md:95-107, consumer.py:3-6: at every moment a payment the API has
\* stored is still due in the outbox, alive in the broker or settled.
AcceptedIsKept ==
    \A p \in payments : ~marked[p] \/ Workers!Settled(p) \/ Workers!Alive(p)

\* What one process hands over, the next one has, whoever dies in between.
HandedOver == EventsNamePayments /\ AcceptedIsKept

\* design.md:207-211, processor.py:60-64: however often a client repeats a request
\* under one Idempotency-Key, the relay its publication and the broker its
\* delivery, the key is charged once, and once more only for a crash or a database
\* fault of a consumer, never for one of the other processes.  The client accepts its
\* webhook once, and once more for each of these faults and for each 2xx of its own
\* that was late or lost (webhook.py:84-87).
ChargedOncePerKey ==
    \A p, q \in Requests : KeyOf[p] = KeyOf[q] =>
        /\ charges[p] <= 1 + Workers!Spent("crash") + Workers!Spent("db")
        /\ Workers!Accepted(p) <=
              1 + Workers!Spent("crash") + Workers!Spent("db") + unheard[p]
        /\ charges[p] > 0 /\ charges[q] > 0 => p = q

\* design.md:103-107, consumer.py:90-106: however duplicates of the relay, of the
\* broker and of the retry loop combine, an accepted payment is announced to the
\* client's endpoint max_retries + 1 times and, for each fault of any process,
\* that often again: the causes of duplicates add up and do not multiply.
WebhooksBounded ==
    \A p \in Requests :
        posts[p] <= (1 + Relay!FaultsSoFar + Workers!Spent("crash") + Workers!Spent("broker"))
                    * (MaxRetries + 1)

Service == INSTANCE PaymentService WITH owner <- Api!Owner

\* README.md:7-9, design.md:95-107: API, relay, broker and consumers together
\* are to a client one registry of payments, each of which is decided once, told
\* to the client as it was decided, and never before it was accepted.
ImplementsService == Service!Spec

\* A payment the client was given in a 202 is settled in the end, its webhook
\* included, or lies in the DLQ: from the API to the client nothing gets lost.
AcceptedIsResolved ==
    \A p \in Requests : p \in payments ~> Workers!Settled(p) \/ Workers!InDlq(p)

=============================================================================

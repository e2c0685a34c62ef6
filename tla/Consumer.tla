------------------------------ MODULE Consumer ------------------------------
(***************************************************************************)
(* The consumer of the queue payments.new: handle_delivery in              *)
(* broker/consumer.py, the two transactions of services/processor.py, the  *)
(* webhook sender, and the retry queues and DLQ of broker/retry.py.        *)
(*                                                                         *)
(* Every concurrent delivery (up to prefetch_count in each consumer        *)
(* process) is one member of Handlers.  The steps of a handler are the     *)
(* stretches of code between two awaits that reach another party: the      *)
(* locking SELECT, the gateway, COMMIT, the client's endpoint, the broker. *)
(*                                                                         *)
(* The broker holds bags of messages.  RabbitMQ redelivers at the head and *)
(* delayed messages return in any order, so a bag is the order-free view   *)
(* of a queue with several consumers.                                      *)
(*                                                                         *)
(* Faults (process crash, lost database session, failed commit, closed     *)
(* channel, failed publish) each spend one unit of `budget`; so does a     *)
(* publication by the relay.  This bounds the state space and is the       *)
(* "finitely many faults" hypothesis of the liveness property.             *)
(***************************************************************************)
EXTENDS Naturals

CONSTANTS
    Payments,      \* payment ids an event may name
    Stored,        \* those with a row in the table payments
    WithWebhook,   \* those whose row has a webhook_url
    Malformed,     \* bodies that are not a PaymentCreatedEvent
    Handlers,      \* concurrent deliveries
    None,          \* no message, no lock holder
    Answers,       \* HTTP status codes a client's endpoint may answer with
    MaxRetries,    \* settings.max_retries
    Budget         \* how often each fault, and a publication, may happen

Faults == {"crash", "db", "broker", "publish"}

ASSUME PaymentsAssumption ==
    /\ Stored \subseteq Payments
    /\ WithWebhook \subseteq Stored
    /\ Payments \cap Malformed = {}
ASSUME AnswersAssumption == Answers \subseteq 200..599
ASSUME MaxRetriesAssumption == MaxRetries \in Nat \ {0}
ASSUME NoneAssumption == None \notin Handlers
ASSUME BudgetAssumption == Budget \in [Faults -> Nat]

Bodies == Payments \cup Malformed

\* A delivery: the body and the header x-retry-count.  One number more than
\* there are retry queues, so that a wrong limit shows as an unroutable key.
Messages == [body : Bodies, attempt : 0..(MaxRetries + 1)]

\* A buried message: x-error-type tells the two classes of errors apart.
Verdicts == {"transient", "permanent"}
Buried == [body : Bodies, attempt : 0..(MaxRetries + 1), why : Verdicts]

ASSUME NoMessageAssumption == None \notin Messages

Status == {"pending", "succeeded", "failed"}
Final == {"succeeded", "failed"}

VARIABLES
    \* the broker
    ready,      \* payments.new: number of ready copies of each message
    retry,      \* payments.new.retry.<attempt>
    dlq,        \* payments.new.dlq
    unacked,    \* does the broker still hold this handler's delivery?
    \* the table payments
    status, attempts, lastError, delivered,
    lock,       \* holder of the row lock
    \* the handlers
    pc, msg, res,
    budget,
    \* history
    published,  \* copies of each body published so far
    charges,    \* calls of the gateway that were answered
    wasted,     \* of these, the answers no commit can record any more
    posts,      \* webhook requests sent
    told,       \* statuses the client's endpoint was told
    heard,      \* requests the client answered with 2xx, as the sender heard
    unheard,    \* requests it answered with 2xx too late, or in vain
    refused     \* did the sender hear an answer that a repetition cannot change?

broker == <<ready, retry, dlq, unacked>>
row    == <<status, attempts, lastError, delivered>>
gate   == <<charges, wasted>>
client == <<posts, told, heard, unheard, refused>>
vars   == <<broker, row, lock, pc, msg, res, budget, published, gate, client>>

-----------------------------------------------------------------------------
TypeOK ==
    /\ ready \in [Messages -> Nat]
    /\ retry \in [Messages -> Nat]
    /\ dlq \in [Buried -> Nat]
    /\ unacked \in [Handlers -> BOOLEAN]
    /\ status \in [Stored -> Status]
    /\ attempts \in [Stored -> Nat]
    /\ lastError \in [Stored -> BOOLEAN]
    /\ delivered \in [Stored -> BOOLEAN]
    /\ lock \in [Stored -> Handlers \cup {None}]
    /\ pc \in [Handlers -> {"idle", "finalize", "charging", "commitCharge",
                            "deliver", "sending", "commitDelivery",
                            "route", "ack", "nack"}]
    /\ msg \in [Handlers -> Messages \cup {None}]
    /\ res \in [Handlers -> Final \cup Verdicts \cup {"ok"}]
    /\ budget \in [Faults -> Nat]
    /\ published \in [Bodies -> Nat]
    /\ charges \in [Stored -> Nat]
    /\ wasted \in [Stored -> Nat]
    /\ posts \in [Stored -> Nat]
    /\ told \in [Stored -> SUBSET Status]
    /\ heard \in [Stored -> Nat]
    /\ unheard \in [Stored -> Nat]
    /\ refused \in [Stored -> BOOLEAN]

Init ==
    /\ ready = [m \in Messages |-> 0]
    /\ retry = [m \in Messages |-> 0]
    /\ dlq = [m \in Buried |-> 0]
    /\ unacked = [h \in Handlers |-> FALSE]
    /\ status = [p \in Stored |-> "pending"]
    /\ attempts = [p \in Stored |-> 0]
    /\ lastError = [p \in Stored |-> FALSE]
    /\ delivered = [p \in Stored |-> FALSE]
    /\ lock = [p \in Stored |-> None]
    /\ pc = [h \in Handlers |-> "idle"]
    /\ msg = [h \in Handlers |-> None]
    /\ res = [h \in Handlers |-> "ok"]
    /\ budget = Budget
    /\ published = [b \in Bodies |-> 0]
    /\ charges = [p \in Stored |-> 0]
    /\ wasted = [p \in Stored |-> 0]
    /\ posts = [p \in Stored |-> 0]
    /\ told = [p \in Stored |-> {}]
    /\ heard = [p \in Stored |-> 0]
    /\ unheard = [p \in Stored |-> 0]
    /\ refused = [p \in Stored |-> FALSE]

-----------------------------------------------------------------------------
(* Helpers *)

Spend(fault) ==
    /\ budget[fault] > 0
    /\ budget' = [budget EXCEPT ![fault] = @ - 1]

Goto(h, label) == pc' = [pc EXCEPT ![h] = label]

\* An exception leaves processor.process: handle_delivery will route by it.
Raise(h, verdict) ==
    /\ Goto(h, "route")
    /\ res' = [res EXCEPT ![h] = verdict]

\* The payment the handler works on.
P(h) == msg[h].body

Holds(h, p) == lock[p] = h

\* Mutant: SELECT without FOR UPDATE.
RowNotLocked(h) == TRUE

\* SELECT ... FOR UPDATE returns once nobody else holds the row.
RowFree(h) == lock[P(h)] = None

\* Mutant: the status is not looked at.
AnyStatus(h) == TRUE

IsPending(h) == status[P(h)] = "pending"

Acquire(h) == lock' = [lock EXCEPT ![P(h)] = h]

\* The session is closed: the row lock is free if this handler still had it.
Release(h) == lock' = [p \in Stored |-> IF lock[p] = h THEN None ELSE lock[p]]

\* An answer of the gateway that waits for its commit.
Charged(h) == pc[h] = "commitCharge" /\ Holds(h, P(h))

\* Mutant: nack without requeue.
Discard(h) ==
    /\ unacked' = [unacked EXCEPT ![h] = FALSE]
    /\ ready' = ready

\* The broker takes the delivery of a handler back.
Requeue(h) ==
    /\ unacked' = [unacked EXCEPT ![h] = FALSE]
    /\ ready' = IF unacked[h] THEN [ready EXCEPT ![msg[h]] = @ + 1] ELSE ready

\* Mutant: x-retry-count is copied, not incremented.
SameAttempt(h) == msg[h].attempt

NextAttempt(h) == msg[h].attempt + 1

Exhausted(h) == NextAttempt(h) > MaxRetries

-----------------------------------------------------------------------------
(* The relay publishes an event.  Events of unknown payments and bodies that *)
(* are not events come from other publishers.                                *)
Publish(b) ==
    /\ Spend("publish")
    /\ ready' = [ready EXCEPT ![[body |-> b, attempt |-> 0]] = @ + 1]
    /\ published' = [published EXCEPT ![b] = @ + 1]
    /\ UNCHANGED <<retry, dlq, unacked, row, lock, pc, msg, res, gate, client>>

(* Mutant: the dead-letter routing key of the retry queues names no queue. *)
ExpireUnroutable(m) ==
    /\ retry[m] > 0
    /\ retry' = [retry EXCEPT ![m] = @ - 1]
    /\ UNCHANGED <<ready, dlq, unacked, row, lock, pc, msg, res, budget, published, gate, client>>

(* The message has lain for its TTL and is dead-lettered to payments.new. *)
Expire(m) ==
    /\ retry[m] > 0
    /\ retry' = [retry EXCEPT ![m] = @ - 1]
    /\ ready' = [ready EXCEPT ![m] = @ + 1]
    /\ UNCHANGED <<dlq, unacked, row, lock, pc, msg, res, budget, published, gate, client>>

(* A delivery reaches a free prefetch slot.  A body that does not parse is *)
(* a permanent error before any transaction starts.                        *)
Receive(h, m) ==
    /\ pc[h] = "idle"
    /\ ready[m] > 0
    /\ ready' = [ready EXCEPT ![m] = @ - 1]
    /\ unacked' = [unacked EXCEPT ![h] = TRUE]
    /\ msg' = [msg EXCEPT ![h] = m]
    /\ \/ /\ m.body \in Malformed
          /\ Raise(h, "permanent")
       \/ /\ m.body \notin Malformed
          /\ Goto(h, "finalize")
          /\ res' = res
    /\ UNCHANGED <<retry, dlq, row, lock, budget, published, gate, client>>

-----------------------------------------------------------------------------
(* Transaction 1, _finalize_payment *)

(* get_for_update finds no row: PaymentNotFoundError. *)
NotFound(h) ==
    /\ pc[h] = "finalize"
    /\ P(h) \notin Stored
    /\ Raise(h, "permanent")
    /\ UNCHANGED <<broker, row, lock, msg, budget, published, gate, client>>

(* Already final: return, the session closes and frees the lock at once. *)
AlreadyFinal(h) ==
    /\ pc[h] = "finalize"
    /\ P(h) \in Stored
    /\ RowFree(h)
    /\ ~IsPending(h)
    /\ Goto(h, "deliver")
    /\ UNCHANGED <<broker, row, lock, msg, res, budget, published, gate, client>>

(* Still pending: the gateway is called under the row lock. *)
LockPending(h) ==
    /\ pc[h] = "finalize"
    /\ P(h) \in Stored
    /\ RowFree(h)
    /\ IsPending(h)
    /\ Acquire(h)
    /\ Goto(h, "charging")
    /\ UNCHANGED <<broker, row, msg, res, budget, published, gate, client>>

(* The gateway answers.  If the session was lost meanwhile, no commit will *)
(* record the answer.                                                      *)
Charge(h) ==
    /\ pc[h] = "charging"
    /\ \E outcome \in Final : res' = [res EXCEPT ![h] = outcome]
    /\ Goto(h, "commitCharge")
    /\ charges' = [charges EXCEPT ![P(h)] = @ + 1]
    /\ wasted' = IF Holds(h, P(h)) THEN wasted ELSE [wasted EXCEPT ![P(h)] = @ + 1]
    /\ UNCHANGED <<broker, row, lock, msg, budget, published, client>>

\* Mutant: no commit before the webhook.
RecordNothing(h) == UNCHANGED row

RecordCharge(h) ==
    /\ status' = [status EXCEPT ![P(h)] = res[h]]
    /\ UNCHANGED <<attempts, lastError, delivered>>

CommitCharge(h) ==
    /\ pc[h] = "commitCharge"
    /\ Holds(h, P(h))
    /\ RecordCharge(h)
    /\ Release(h)
    /\ Goto(h, "deliver")
    /\ UNCHANGED <<broker, msg, res, budget, published, gate, client>>

(* COMMIT raises: on a live session by a fault, with the transaction applied *)
(* or not; on a lost session always, and nothing is applied.                 *)
CommitChargeFails(h) ==
    /\ pc[h] = "commitCharge"
    /\ \/ /\ Holds(h, P(h))
          /\ Spend("db")
          /\ \/ RecordCharge(h) /\ UNCHANGED wasted
             \/ UNCHANGED row /\ wasted' = [wasted EXCEPT ![P(h)] = @ + 1]
       \/ ~Holds(h, P(h)) /\ UNCHANGED <<row, budget, wasted>>
    /\ Release(h)
    /\ Raise(h, "transient")
    /\ UNCHANGED <<broker, msg, published, charges, client>>

-----------------------------------------------------------------------------
(* Transaction 2, _deliver_webhook *)

(* Mutant: an event with nothing left to do is handed back to the broker. *)
NothingToSendRequeued(h) ==
    /\ pc[h] = "deliver"
    /\ RowFree(h)
    /\ P(h) \notin WithWebhook \/ delivered[P(h)]
    /\ Goto(h, "nack")
    /\ UNCHANGED <<broker, row, lock, msg, res, budget, published, gate, client>>

(* No webhook_url, or delivered already: nothing to send. *)
NothingToSend(h) ==
    /\ pc[h] = "deliver"
    /\ RowFree(h)
    /\ P(h) \notin WithWebhook \/ delivered[P(h)]
    /\ Goto(h, "ack")
    /\ UNCHANGED <<broker, row, lock, msg, res, budget, published, gate, client>>

LockForDelivery(h) ==
    /\ pc[h] = "deliver"
    /\ RowFree(h)
    /\ P(h) \in WithWebhook
    /\ ~delivered[P(h)]
    /\ Acquire(h)
    /\ Goto(h, "sending")
    /\ UNCHANGED <<broker, row, msg, res, budget, published, gate, client>>

RetryableStatusCodes == {408, 429}

(* Mutant: every 4xx is taken for final. *)
ClassifyByHundreds(answer) ==
    IF answer \in 200..299 THEN "ok" ELSE IF answer >= 500 THEN "transient" ELSE "permanent"

(* What the sender makes of a status code.  Redirects are not followed. *)
Classify(answer) ==
    IF answer \in 200..299 THEN "ok"
    ELSE IF answer >= 500 \/ answer \in RetryableStatusCodes THEN "transient"
    ELSE "permanent"

\* The answers of design.md:176-178 after which a repetition makes sense.
Passing(answer) == answer \in 500..599 \cup {408, 429}

(* The client's endpoint reads the status this transaction has read, which *)
(* is the row's: a final status never changes.                             *)
Read(h) == told' = [told EXCEPT ![P(h)] = @ \cup {status[P(h)]}]

(* The answer of the client arrives in time. *)
Answered(h, answer) ==
    /\ res' = [res EXCEPT ![h] = Classify(answer)]
    /\ Read(h)
    /\ heard' = IF answer \in 200..299 THEN [heard EXCEPT ![P(h)] = @ + 1] ELSE heard
    /\ refused' = [refused EXCEPT ![P(h)] = @ \/ ~(answer \in 200..299 \/ Passing(answer))]
    /\ UNCHANGED unheard

(* A timeout or a network error.  The endpoint may have read the request all *)
(* the same, and have accepted it: its 2xx is late or lost.                  *)
NoAnswer(h) ==
    /\ res' = [res EXCEPT ![h] = "transient"]
    /\ \/ UNCHANGED <<told, unheard>>
       \/ Read(h) /\ UNCHANGED unheard
       \/ /\ \E answer \in Answers : answer \in 200..299
          /\ Read(h)
          /\ unheard' = [unheard EXCEPT ![P(h)] = @ + 1]
    /\ UNCHANGED <<heard, refused>>

(* The POST and its outcome. *)
Send(h) ==
    /\ pc[h] = "sending"
    /\ posts' = [posts EXCEPT ![P(h)] = @ + 1]
    /\ NoAnswer(h) \/ \E answer \in Answers : Answered(h, answer)
    /\ Goto(h, "commitDelivery")
    /\ UNCHANGED <<broker, row, lock, msg, budget, published, gate>>

(* Mutant: the error path does not commit. *)
RecordSuccessOnly(h) ==
    IF res[h] = "ok"
    THEN /\ attempts' = [attempts EXCEPT ![P(h)] = @ + 1]
         /\ delivered' = [delivered EXCEPT ![P(h)] = TRUE]
         /\ lastError' = [lastError EXCEPT ![P(h)] = FALSE]
         /\ UNCHANGED status
    ELSE UNCHANGED row

(* Mutant: delivered whatever the answer. *)
RecordAlwaysDelivered(h) ==
    /\ attempts' = [attempts EXCEPT ![P(h)] = @ + 1]
    /\ delivered' = [delivered EXCEPT ![P(h)] = TRUE]
    /\ lastError' = [lastError EXCEPT ![P(h)] = (res[h] # "ok")]
    /\ UNCHANGED status

RecordDelivery(h) ==
    /\ attempts' = [attempts EXCEPT ![P(h)] = @ + 1]
    /\ delivered' = IF res[h] = "ok" THEN [delivered EXCEPT ![P(h)] = TRUE] ELSE delivered
    /\ lastError' = [lastError EXCEPT ![P(h)] = (res[h] # "ok")]
    /\ UNCHANGED status

(* The attempt is committed; an error of send is raised after that. *)
CommitDelivery(h) ==
    /\ pc[h] = "commitDelivery"
    /\ Holds(h, P(h))
    /\ RecordDelivery(h)
    /\ Release(h)
    /\ Goto(h, IF res[h] = "ok" THEN "ack" ELSE "route")
    /\ UNCHANGED <<broker, msg, res, budget, published, gate, client>>

(* COMMIT raises.  Its error replaces the one of send, so that a permanent  *)
(* refusal of the client is routed as transient.                            *)
CommitDeliveryFails(h) ==
    /\ pc[h] = "commitDelivery"
    /\ \/ Holds(h, P(h)) /\ Spend("db") /\ (RecordDelivery(h) \/ UNCHANGED row)
       \/ ~Holds(h, P(h)) /\ UNCHANGED <<row, budget>>
    /\ Release(h)
    /\ Raise(h, "transient")
    /\ UNCHANGED <<broker, msg, published, gate, client>>

-----------------------------------------------------------------------------
(* The fate of the delivery, handle_delivery *)

(* The publication of send_to_dlq or send_to_retry. *)
Forward(h) ==
    \/ /\ res[h] = "permanent" \/ Exhausted(h)
       /\ dlq' = [dlq EXCEPT ![[body |-> P(h), attempt |-> msg[h].attempt, why |-> res[h]]] = @ + 1]
       /\ UNCHANGED retry
    \/ /\ res[h] # "permanent" /\ ~Exhausted(h)
       /\ retry' = [retry EXCEPT ![[body |-> P(h), attempt |-> NextAttempt(h)]] = @ + 1]
       /\ UNCHANGED dlq

Route(h) ==
    /\ pc[h] = "route"
    /\ Forward(h)
    /\ Goto(h, "ack")
    /\ UNCHANGED <<ready, unacked, row, lock, msg, res, budget, published, gate, client>>

(* The publication raises; after a timeout of the confirmation the broker *)
(* may have the message all the same.                                     *)
RouteFails(h) ==
    /\ pc[h] = "route"
    /\ Spend("broker")
    /\ Forward(h) \/ UNCHANGED <<retry, dlq>>
    /\ Goto(h, "nack")
    /\ UNCHANGED <<ready, unacked, row, lock, msg, res, published, gate, client>>

Finish(h) ==
    /\ Goto(h, "idle")
    /\ msg' = [msg EXCEPT ![h] = None]
    /\ res' = [res EXCEPT ![h] = "ok"]

(* On a closed channel the ack, and the nack after it, have no effect. *)
Ack(h) ==
    /\ pc[h] = "ack"
    /\ unacked' = [unacked EXCEPT ![h] = FALSE]
    /\ Finish(h)
    /\ UNCHANGED <<ready, retry, dlq, row, lock, budget, published, gate, client>>

AckFails(h) ==
    /\ pc[h] = "ack"
    /\ Spend("broker")
    /\ Goto(h, "nack")
    /\ UNCHANGED <<broker, row, lock, msg, res, published, gate, client>>

Nack(h) ==
    /\ pc[h] = "nack"
    /\ Requeue(h)
    /\ Finish(h)
    /\ UNCHANGED <<retry, dlq, row, lock, budget, published, gate, client>>

-----------------------------------------------------------------------------
(* Faults *)

(* A locking SELECT raises before it has the row (no connection, a broken *)
(* one): an unknown error, hence transient.                               *)
SelectFails(h) ==
    /\ pc[h] \in {"finalize", "deliver"}
    /\ Spend("db")
    /\ Raise(h, "transient")
    /\ UNCHANGED <<broker, row, lock, msg, published, gate, client>>

(* PostgreSQL ends the session of a handler that is waiting for the gateway *)
(* or the client: the row lock is free, the handler does not know.          *)
SessionLost(h) ==
    /\ pc[h] \in {"charging", "commitCharge", "sending", "commitDelivery"}
    /\ Holds(h, P(h))
    /\ Spend("db")
    /\ Release(h)
    /\ wasted' = IF Charged(h) THEN [wasted EXCEPT ![P(h)] = @ + 1] ELSE wasted
    /\ UNCHANGED <<broker, row, pc, msg, res, published, charges, client>>

(* The channel closes: the broker requeues the delivery, the handler goes on. *)
ChannelLost(h) ==
    /\ unacked[h]
    /\ Spend("broker")
    /\ Requeue(h)
    /\ UNCHANGED <<retry, dlq, row, lock, pc, msg, res, published, gate, client>>

(* The process dies.  A process with several deliveries dies as several of  *)
(* these steps in a row.                                                    *)
Crash(h) ==
    /\ pc[h] # "idle"
    /\ Spend("crash")
    /\ Requeue(h)
    /\ Release(h)
    /\ wasted' = IF Charged(h) THEN [wasted EXCEPT ![P(h)] = @ + 1] ELSE wasted
    /\ Finish(h)
    /\ UNCHANGED <<retry, dlq, row, published, charges, client>>

-----------------------------------------------------------------------------
\* What a handler does by itself.
Step(h) ==
    \/ \E m \in Messages : Receive(h, m)
    \/ NotFound(h) \/ AlreadyFinal(h) \/ LockPending(h)
    \/ Charge(h) \/ CommitCharge(h) \/ CommitChargeFails(h)
    \/ NothingToSend(h) \/ LockForDelivery(h)
    \/ Send(h) \/ CommitDelivery(h) \/ CommitDeliveryFails(h)
    \/ Route(h) \/ RouteFails(h) \/ Ack(h) \/ AckFails(h) \/ Nack(h)

Fault(h) == SelectFails(h) \/ SessionLost(h) \/ ChannelLost(h) \/ Crash(h)

\* All queues but the DLQ are drained: the consumers wait for deliveries.
Drained ==
    /\ \A h \in Handlers : pc[h] = "idle"
    /\ \A m \in Messages : ready[m] = 0 /\ retry[m] = 0

Waiting == Drained /\ UNCHANGED vars

Next ==
    \/ \E b \in Bodies : Publish(b)
    \/ \E m \in Messages : Expire(m)
    \/ \E h \in Handlers : Step(h) \/ Fault(h)
    \/ Waiting

\* A handler that can go on does, and each retry queue lets its messages expire.
\* No fairness for the relay (it may have nothing to publish) or for faults.
Fairness ==
    /\ \A h \in Handlers : WF_vars(Step(h))
    /\ \A n \in 1..MaxRetries : WF_vars(\E m \in Messages : m.attempt = n /\ Expire(m))

Spec == Init /\ [][Next]_vars
FairSpec == Spec /\ Fairness

-----------------------------------------------------------------------------
(* Properties *)

\* The client need not hear of the payment any more.
Settled(p) == status[p] # "pending" /\ (p \in WithWebhook => delivered[p])

InDlq(p) == \E m \in Buried : m.body = p /\ dlq[m] > 0

\* A copy of the event that will be handled again or looked at by hand.  A
\* delivery that is about to be acknowledged does not count.
Alive(p) ==
    \/ InDlq(p)
    \/ \E m \in Messages : m.body = p /\ (ready[m] > 0 \/ retry[m] > 0)
    \/ \E h \in Handlers : unacked[h] /\ pc[h] # "ack" /\ P(h) = p

\* consumer.py:3-6, retry.py:59-61: whatever fails and in whatever order the
\* publication, the ack and the faults come, a published event is settled or
\* some copy of it survives the step at hand.
NoLoss == \A p \in Stored : published[p] > 0 => Settled(p) \/ Alive(p)

\* The holder of the row lock has an answer of the gateway to commit.
AnswerAwaitsCommit(p) == lock[p] # None /\ pc[lock[p]] = "commitCharge"

\* processor.py:60-64: the answers of the gateway are those on the row, those a
\* holder of the row lock is about to commit, and those a fault made useless;
\* hence a payment is charged again only after a fault between answer and commit.
ChargeAccounting ==
    \A p \in Stored :
        charges[p] = wasted[p] + (IF status[p] # "pending" \/ AnswerAwaitsCommit(p)
                                  THEN 1 ELSE 0)

\* processor.py:75-77, design.md:207-211: however many copies of the event are
\* delivered, in whatever order, the gateway is called once.
ChargedAtMostOnce == \A p \in Stored : charges[p] <= 1

\* processor.py:60-62: the client is told the outcome only after it is final and
\* durable; no two notifications of a payment contradict each other or the row.
WebhookAgrees == \A p \in Stored : told[p] \subseteq {status[p]} \ {"pending"}

\* processor.py:120-129: a row says "delivered" only if the service heard a 2xx of
\* the client, one that came too late does not do; and then no error of an earlier
\* attempt is left on it.
DeliveredConsistent ==
    \A p \in Stored : delivered[p] => heard[p] > 0 /\ ~lastError[p]

\* The holder of the row lock has an answer of the client to commit.
RequestAwaitsCommit(p) == lock[p] # None /\ pc[lock[p]] = "commitDelivery"

\* Faults of a kind that have happened so far.
Spent(fault) == Budget[fault] - budget[fault]

\* How often the client accepted the webhook of a payment.
Accepted(p) == heard[p] + unheard[p]

\* processor.py:60-64, 104-107: whatever comes together, the gateway is called once
\* for a payment and at most once more for each crash and each database fault;
\* copies and retries alone do not repeat the call.  The client accepts the
\* webhook once, and once more for each crash, each database fault and each 2xx
\* that was late or lost: after such an answer the retry queue does send again
\* (webhook.py:84-87), which is what the stable event id is for.
RepeatsPaidFor ==
    \A p \in Stored :
        /\ charges[p] <= 1 + Spent("crash") + Spent("db")
        /\ Accepted(p) <= 1 + Spent("crash") + Spent("db") + unheard[p]

\* processor.py:106-107: the row counts the webhook requests, the failed ones
\* included, and never one that was not sent; a crash or a database fault loses
\* the count of one request at most.
AttemptsRecorded ==
    \A p \in Stored :
        LET recorded == attempts[p] + (IF RequestAwaitsCommit(p) THEN 1 ELSE 0)
        IN  /\ recorded <= posts[p]
            /\ posts[p] <= recorded + Spent("crash") + Spent("db")

\* consumer.py:90-106: a published event makes the first delivery and max_retries
\* more.  Duplicates and the retry loop do not multiply the requests to the
\* client; only a crash or a broker fault can add another such series, since
\* each of them leaves at most one copy more.
PostsBounded ==
    \A p \in Stored :
        posts[p] <= (published[p] + Spent("crash") + Spent("broker")) * (MaxRetries + 1)

\* consumer.py:91 against topology.py:92-99, design.md:174-182: a message goes to
\* the DLQ as exhausted at the very attempt after which no retry queue is
\* declared; as a permanent error only if there is nothing to repeat: no event, no
\* payment, or a final outcome the client has refused for good.
DlqJustified ==
    /\ \A m \in Buried : dlq[m] > 0 =>
          \/ m.why = "transient" /\ m.attempt = MaxRetries
          \/ m.why = "permanent" /\ m.body \notin Stored
          \/ /\ m.why = "permanent"
             /\ m.body \in WithWebhook
             /\ status[m.body] # "pending"
             /\ refused[m.body]
    /\ \A m \in Messages : retry[m] > 0 => m.attempt \in 1..MaxRetries

\* consumer.py:44-50, 86-107: with finitely many faults every published event of
\* a stored payment is settled or ends in the DLQ.
EventuallyResolved ==
    \A p \in Stored : published[p] > 0 ~> Settled(p) \/ InDlq(p)

\* consumer.py:44-50, topology.py:73-89: no delivery circulates for ever; the
\* queues drain and every prefetch slot becomes free.
ComesToRest == <>[]Drained

Lifecycle == INSTANCE PaymentLifecycle WITH Payments <- Stored

\* enums.py:9, processor.py:8-13: concurrent, repeated and interrupted deliveries
\* together do to a payment what the lifecycle allows: one outcome, never taken
\* back, told to the client before the row says "delivered".
ImplementsLifecycle == Lifecycle!Spec

=============================================================================

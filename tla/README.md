# Verification of the payment processing service

TLA+ models of the service in `src/`, the TLC configurations that check them
and the theorems TLAPS proves about them. Every definition is translated from the
Python source; `PROJECT.json` maps each one to its lines.

| Module | Models | Checked by | Proved in |
|---|---|---|---|
| `Consumer` | `broker/consumer.py`, `broker/retry.py`, `services/processor.py`, `services/webhook.py` | `MCConsumer`, 3 runs | `ConsumerProofs` |
| `PaymentLifecycle` | what one payment may go through (abstract) | as a property of `Consumer` | `ConsumerProofs` |
| `OutboxRelay` | `outbox/relay.py`, the query of `db/repositories.py` | `MCOutboxRelay`, 3 runs | `OutboxRelayProofs` |
| `Intake` | `POST /payments`: `services/payment_service.py`, `api/routes/payments.py` | `MCIntake`, 1 run | `IntakeProofs` |
| `Endpoint` | `POST /payments` from the request as it was written to the answer: `Intake` on the requests of `Admission` | `MCIntake`, 1 run | `EndpointProofs` |
| `IdempotentRegistry` | what `POST /payments` promises (abstract) | as a property of `Intake` | `IntakeProofs` |
| `PaymentSystem` | the three processes over one database and one broker | `MCPaymentSystem`, 1 run | `PaymentSystemProofs` |
| `PaymentService` | what the service promises a client (abstract) | as a property of `PaymentSystem` | `PaymentSystemProofs` |
| `Admission` | the checks before the first query and the amount that is stored: `api/dependencies.py`, `api/schemas.py`, `normalize_amount` | `MCAdmission`, 2 runs | `AdmissionProofs` |
| `RequestFingerprint` | the rest of `domain/fingerprint.py`, and `json.loads` | `MCAdmission`, 2 runs | `AdmissionProofs` |
| `Topology` | `broker/topology.py`, `broker/setup.py`, the start of relay and consumers | `MCTopology`, 1 run | `TopologyProofs` |
| `Migrations` | `db/migrations/env.py` and the revision 6077c87387ca | `MCMigrations`, 1 run | `MigrationsProofs` |

## 1. The system

Three kinds of processes share one PostgreSQL database and one RabbitMQ broker.

```
client --POST--> api --INSERT payment + event--> PostgreSQL <--SELECT/UPDATE-- relay
                                                     ^                           |
                                        row lock     |                        publish
                                                     v                           v
client <--webhook-- consumer <--deliver/ack-- payments.new <---------------- RabbitMQ
                        |                          ^
                        +--> payments.new.retry.N -+ (TTL)
                        +--> payments.new.dlq
```

### Components

**API, creation of payments.** State: the tables `payments` (unique index on
`idempotency_key`) and `outbox_messages`. `PaymentService.create` looks the key up,
inserts payment and event, and commits both; on a violation of the index it rolls back
and answers with the payment that won. Correct means: a key stands for one payment, a
payment has an event and an event has a payment, the answer is about the payment of
that key and body. Hard: the window between SELECT and INSERT, an INSERT that waits for
an open transaction of another request, a commit whose answer is lost.

**API, admission.** No state. API key, Idempotency-Key and body are checked in
FastAPI's order; what passes becomes a command and a fingerprint. Correct means: equal
bodies, however spelled, have equal fingerprints and others have not; what is admitted
fits the columns; no cents get lost. Hard: the boundaries, and numbers that were
floats.

**Outbox relay.** State: `published_at`, `attempts`, `next_retry_at` of the event rows,
and in memory the batch at hand. `publish_pending_batch` locks the oldest due rows,
publishes them one by one with publisher confirms, and commits the marks of the whole
batch. Correct means: marked only if the broker has the event; published again only if
a mark was lost; a refused row delays neither its neighbours nor the rest of the
service. Hard: a crash between confirmation and commit, a session lost in the middle
of a batch, replicas, a broker that goes down half way, an ambiguous timeout.

**Consumer.** State: the deliveries it has not acknowledged, the header
`x-retry-count`, the columns `status`, `webhook_attempts`, `webhook_last_error`,
`webhook_delivered_at`, and the row lock. For each delivery `handle_delivery` runs two
transactions, charging (`_finalize_payment`) and notifying (`_deliver_webhook`), and
then acknowledges, sends the message to a retry queue or the DLQ before it
acknowledges, or requeues it. Correct means: no event is lost, a payment is charged
once unless a fault came between the answer and its commit, the client hears the
final outcome and no other, retries end. Hard: duplicates handled concurrently, locks
that vanish with a database session, two publications that are not atomic with the
acknowledgement, errors raised while handling errors.

**Webhook sender.** Stateless: signs a payload, posts it, and sorts the status code
into delivered, transient and permanent.

**Gateway.** A simulator: waits, then answers `succeeded` or `failed`. It keeps no
state, so a second call for a payment is a second charge.

**Broker topology.** Three exchanges, `payments.new`, one TTL queue per attempt, the
DLQ. Relay and consumers both declare all of it at start, each with its own settings.
Correct means: every key a running process publishes with has a queue behind it, and
processes that run agree on the delays. Hard: a start that breaks off half way, a
broker that restarts, settings that differ.

**Migrations.** One revision, applied by `alembic` under an advisory lock. Correct
means: the schema is all there or not at all, and containers that migrate at once do
not fail on each other. Hard: DDL of two transactions, death in the middle, types that
outlive their table.

**The rest.** GET and health endpoints, the demonstration webhook sink, logging, image
build, demo script, tests.

### How they interact

* API and relay meet in the rows of `outbox_messages`.
* Relay and consumers meet in the queue `payments.new`; publication and mark are not
  atomic, so the queue may bear copies.
* Consumers meet in the row of a payment (`SELECT ... FOR UPDATE`) and in the queue.
* The client meets the consumer in the webhook, which it may accept without the
  consumer learning of it: the row then stays undelivered, the retry queue sends again,
  and the client accepts a second time (design.md:216-217 gives it a stable event id for
  that).
* Relay and consumers declare the same queues with separately configured settings.

## 2. The modules

### Consumer

A *handler* is one concurrent delivery; `prefetch_count` deliveries in several processes
are just several handlers. `pc` is where the handler stands between two awaits that
reach another party:

| `pc` | code |
|---|---|
| `idle` | a free prefetch slot |
| `finalize` | before the locking SELECT of `_finalize_payment` (processor.py:81) |
| `charging` | awaiting the gateway under the lock (processor.py:90) |
| `commitCharge` | status assigned, COMMIT to come (processor.py:93-96) |
| `deliver` | before the locking SELECT of `_deliver_webhook` (processor.py:111) |
| `sending` | awaiting the client (processor.py:121) |
| `commitDelivery` | COMMIT of the attempt (processor.py:124 or 129) |
| `route` | an exception left `process`: publish to retry or DLQ (consumer.py:75-106) |
| `ack`, `nack` | acknowledge, or hand back (consumer.py:107-116) |

Queues are bags (functions from messages to numbers). RabbitMQ keeps an order,
but redeliveries go to the head, delayed messages return when their TTL ends and
several consumers finish out of order, so no property may rest on the order.
`lock[p]` is PostgreSQL's row lock; it is freed by commit, rollback and the end of the
session, the latter without the handler's knowledge. The DLQ remembers why a message
is in it. The client answers any status code of `Answers`, which `Classify` sorts as
webhook.py does, or none that the sender hears (`NoAnswer`: a timeout or a broken
connection): the request then did not reach it, or was read, or was accepted with a 2xx
that came too late or got lost. The history variables `charges`, `wasted`, `posts`,
`told`, `heard` (2xx the sender heard), `unheard` (2xx it did not), `refused` and
`published` count what the gateway and the client saw; no guard reads them.

`PaymentLifecycle` is the promise in three actions: finalize once, tell the client the
final status, mark as delivered after that. `Consumer` implements it with `Payments <-
Stored` and the variables of the same names.

### OutboxRelay

`stored`, `published`, `attempts`, `backoff`, `lock` are the table; `pc`, `todo`,
`done`, `failed` are a replica's batch. Nothing of the batch reaches the table before
COMMIT (`autoflush=False`), so `PublishOk` only moves a row from `todo` to `done` and
`Commit` writes. Rows are numbered in the order of `created_at`, so `Oldest` is ORDER
BY with LIMIT. Time is abstract: `backoff[r]` says that `next_retry_at` lies ahead, and
`BackoffElapses` ends it. `BackoffOverflows` is the path on which `2.0**attempts`
raises, after a refusal or after a confirmation that timed out, whether the broker took
the message or not. `Poison` rows are refused at every publication.

### Intake

Each HTTP call is a member of `Requests`; a client that retries is another
member with the same key and body. `index[k]` is the open transaction that has inserted
key `k`: another INSERT of the key waits for it, and fails once the key is committed.
`tx[r]` is what the open transaction has inserted. `result[r]` is the
`CreatePaymentResult`, whose flag `replayed` depends on the path alone: `Created` after
the commit, `Found` at the lookup and after a lost race. A payment is named by the request
that made it. `RefusalOf` is what the checks before the first query answer (computed by
`Admission`). `IdempotentRegistry` is the promise: one atomic registration per key.

### Endpoint

`Intake` knows of a call only its key, a fingerprint and whether it is refused. `Endpoint`
adds the request the call carries, `Sent[r]`, and takes those three from `Admission`
(`CommandAssumption`): the key and fingerprint of the `CreatePaymentCommand` that
`create_payment` builds, and the verdict of the checks. The instance `Checks` sees the
requests of the calls that have come in. `AnswersMeanBodies` is then about bodies and
not about fingerprints. `MCIntake` writes the three constants down, and TLC compares
them with what `Admission` computes before the run starts.

### PaymentSystem

The three modules as they are, by INSTANCE: the API's committed events are the relay's
table (`stored <- [r |-> r \in events]`), and the copies the broker took from the relay
are what is published to the consumers. A step of the system is a step of one
component; a step of the relay that hands the broker a message is at the same time the
`Publish` of `Consumer`. Payment, event, row and message bear the number of the request
that made them. `Poison` and malformed bodies are empty here: the API writes no such
event.

`PaymentService` is the promise of the whole, put together of the two promises of the
parts: `IdempotentRegistry` for the client that calls, `PaymentLifecycle` for each
payment, and nothing is done to a payment the registry does not hold. Relay, queues and
faults have no place in it. `PaymentSystem` implements it with `owner <- Api!Owner` and
its own variables for the rest.

### Admission and RequestFingerprint

Pure operators over a request as the client wrote it. An amount is `[quoted, u, s]`: the
number u / s, s a power of ten, as a JSON string or not; so 100.5 and 100.50 are spelled
differently and exactly. `ReadAmount` is what parsing makes of it (an unquoted amount
with a point is a float first, `ThroughFloat`), `Refusal` the chain of checks in
FastAPI's order, `Command` what reaches the service, `FitsTable` what the columns of
`db/models.py` hold. `Fingerprint` is what is hashed.

`RequestFingerprint` is about the metadata: JSON values are tagged, so that numbers, lists
and objects keep their spelling; an object is a sequence of pairs. `LoadJson` is
json.loads: a repeated key takes the later value and keeps its place, a float loses its
trailing zeros. `Dumps` is `_canonical` and json.dumps, a sequence of tokens. `Meaning` is
the reference: it is stated on what was written, with an object as a function of its keys,
and `SameBody` compares it. All three are recursive functions over `Values`, any set of
JSON values that holds the parts of its members and what they load to
(`ValuesAssumption`, `LoadAssumption`). `Depth` is how deep a value is nested and
`MaxDepth` the limit above which json.loads gives up, Python's recursion limit: the
recursion goes down in `Depth`. Floats in the metadata are assumed to have no more digits
than a float keeps; only the amount goes through `ThroughFloat`.

### Topology

`pc[p]` walks through `declare_topology`: the exchanges, then for each queue (`cursor`)
its declaration and its binding. Anything may happen between two of them. `Restart` is
the container runtime, `Redeploy` the operator. RabbitMQ refuses an existing queue with
another TTL (`Refused`: the process dies and is restarted), keeps what is durable over
`BrokerRestarts`, which ends the processes that are still declaring while the running
ones reconnect, and routes by the bindings (`Routed`; what has no binding is `Lost`).
Consumer and relay appear only by the messages they move. The settings are fractions, as
`retry_base_delay_seconds` and `retry_multiplier` may be; `Delay` is the TTL in
milliseconds after `int(...)`, so different settings may agree on a queue. (The rounding
of the floats themselves is left out.)

### Migrations

`schema` is what is committed, `tx` what an open transaction created and dropped. DDL on
an object that another open transaction touches waits for it. `Lock` is
`pg_advisory_xact_lock`, `ReadRevision` the decision of alembic, `Execute` the
statements one by one, `Again` the next start of a container that died. `Clashes` is the
statement PostgreSQL would refuse; alembic has no way to go on after it, and neither has
the model.

## 3. What the runs show

All runs are exhaustive for their bounds. A constant that counts faults is a *budget*:
how often that fault may happen, at any point of any behaviour.

| Run | Instance | Shows |
|---|---|---|
| `consumer_faults` | 1 payment, 2 handlers, 2 copies, 1 retry; 1 crash, 1 database fault, 1 broker fault; all classes of answers | `NoLoss`, `ChargeAccounting`, `WebhookAgrees`, `DeliveredConsistent`, `DlqJustified`, `PostsBounded`; `RepeatsPaidFor`, `AttemptsRecorded`: what a crash, a database fault or a 2xx nobody heard costs; the whole implements `PaymentLifecycle` |
| `consumer_retries` | payments with and without webhook, an unknown payment, a malformed body; 2 handlers, 2 publications, 1 retry, 1 broker fault | `EventuallyResolved`, `ComesToRest` under fairness |
| `consumer_crash` | 1 copy, 1 crash | a violation, see Findings |
| `relay_faults` | 2 replicas, 3 rows, batches of 2, the last row with 1023 failures, each fault once | `MarkedMeansConfirmed`, `CopyAccounting`, `CopiesBounded` |
| `relay_live` | 2 replicas, oldest row always refused, crash, outage, refusal, stop | `PublishedOnce`; `EventuallyPublished`, `StopHonoured` under fairness |
| `relay_overflow` | 1 replica, 2 rows, the oldest refused the 1024th time | a violation, see Findings |
| `intake` | requests of `Endpoint`: 2 calls with one key and body, spelled differently, 1 with that key and another body, 1 with another key, 1 whose key is too long; 1 crash, 1 database fault | `OnePaymentPerKey`, `PaymentIffEvent`, `ReplyTruthful`, `WinnerFound`, `OneCreator`, `AnswersMeanBodies`; the whole implements `IdempotentRegistry`; `EveryRequestEnds` under fairness |
| `system` | 2 requests under one key, 1 relay, 1 handler, 1 retry, answers 200 and 503; any one of 8 faults | `HandedOver`, `ChargedOncePerKey`, `WebhooksBounded`; the whole implements `PaymentService`; `AcceptedIsResolved` under fairness |
| `admission` | any two of 141 requests | `FingerprintExact`, `AdmittedFits`, `AmountKept` |
| `admission_cents` | one request | a violation, see Findings |
| `topology` | 1 relay, 2 consumers, one of them with another multiplier; 1 message; 1 crash, 1 broker restart, 1 redeployment with any of 4 settings | `NothingLost`, `SettingsAgree`; `NoLockout` under fairness |
| `migrations` | 2 upgrades and 1 downgrade at once, 2 crashes | `SchemaWhole`, `NoMigratorFails`, `SuccessMeansThere`; `EveryMigratorEnds` under fairness |

The type invariants are proved (`TypeCorrect` in five of the proof modules) and not
repeated in the runs.

Why these bounds are enough.

* *Consumer.* Two handlers and two copies give every pairwise race for a row. One fault
  of each kind already combines with the others (a lost session *and* a crash *and* an
  ambiguous publication in one behaviour). One payment suffices for the races, because
  payments share nothing but the queues; `consumer_retries` has several bodies for the
  paths that depend on them. One retry reaches first delivery, retry and exhaustion; that
  nothing depends on the number of retry queues is proved for the safety properties
  (`DlqJustified`, `PostsBounded`). A 2xx nobody heard needs no budget: it may follow each
  request.
* *OutboxRelay.* Three rows with batches of two make one batch full and leave one over,
  so that two replicas hold disjoint batches and a batch can stop in its middle.
  `AttemptsBound` stops the counting of failures (not the failures); no guard below
  1023 depends on the number. Where a row starts at `OverflowAt - 1` failures, it is in
  a state the relay reaches by failing 1023 times.
* *Intake.* Three calls with one key are needed: one wins, one waits for it or loses the
  race, one comes after or carries the other body. A crash and a database fault in one
  behaviour cover the winner that never answers and the commit whose outcome is unknown.
* *PaymentSystem.* The budgets hold one fault of every kind in every process, and
  `MinFaultsLeft = 7` of the 8 lets a behaviour spend any one of them: the question is
  what a fault of one process does to the others. Combinations of faults and
  concurrent handlers belong to the components' runs. `MaxRetries = 1` and the client's
  answers 200 and 503 reach delivery, retry and DLQ. The budget of publications is
  never the limit: each one is paid for by a request or by a fault of the relay.
* *Admission.* Limits are scaled (2 digits before the point, keys of 2 characters,
  floats of 3 digits) so that values lie below, at and above each; no check depends on
  the size of its limit. Pairs suffice because the properties speak of pairs.
* *Topology.* Two attempts make a retry queue that is not the last one. The four
  settings differ in the number of attempts, in the delay of all of them, in the delay of
  the second only, and by a base delay that is the same once it is cut to milliseconds.
* *Migrations.* The lock serialises; the third migrator meets what the second left to
  the first, and a downgrade between two upgrades is the only way to meet left-over
  types.

Each property of a passing run has a mutant in `PROJECT.json`: a definition of the
module changed the way a bug in the code would change it (no FOR UPDATE, an off-by-one
limit, a commit left out), under which TLC finds the property violated. The mutated
operators stand before the originals in the modules, with a comment that starts with
"Mutant".

## 4. Fairness

* `Consumer`: weak fairness of each handler's own steps (`Step(h)`), since the event
  loop runs whatever can run, gateway and webhook calls end (`webhook_timeout_seconds`,
  a bounded simulated delay) and a blocked SELECT returns when the lock is freed; and
  weak fairness of each retry queue (of `Expire` of some message in it), since RabbitMQ
  expires TTLs. None for publications and
  faults. Faults are finitely many by their budget; with a fault for ever no liveness
  can hold.
* `OutboxRelay`: weak fairness of each replica's steps, since `run_forever` polls until it
  is stopped, and of `BackoffElapses`, since clocks advance. `Poison` rows, which are
  refused for ever, take part without a budget.
* `Intake`: weak fairness of each accepted request's steps.
* `PaymentSystem`: weaker than the components' assumptions: that *some* request, relay,
  handler, clock or TTL that can go on does. Nothing forces a client to send a request.
* `Topology`: weak fairness of a process that starts (`Starting(p)`), whose restart is
  `restart: unless-stopped`. None for messages, faults and the operator.
* `Migrations`: weak fairness of each migrator's steps; a container that died is not
  bound to come back.

Fairness of `Step` covers a disjunction with alternative outcomes, so no
particular outcome (the client accepting, the broker confirming) is ever promised.

## 5. What is proved

For any sets of processes, requests, payments and rows, any number of retries and any
fault budget, from the assumptions named in the modules, which TLC evaluates in
every run of the module.

| Module | Theorem | States |
|---|---|---|
| `ConsumerProofs` | `TypeCorrect` | `[]TypeOK` |
| | `GatewayAccounted` | `[]ChargeAccounting` |
| | `ClientAgrees` | `[]WebhookAgrees` |
| | `DeliveredIsConsistent` | `[]DeliveredConsistent` |
| | `EventsKept` | `[]NoLoss` |
| | `BurialsJustified` | `[]DlqJustified` |
| | `LifecycleImplemented` | `ImplementsLifecycle` |
| | `ChargedIsPublished` | only published payments are charged |
| | `RequestsBounded` | `[]PostsBounded` |
| | `RepeatsArePaidFor` | `[]RepeatsPaidFor` |
| | `ChargedOnce` | without crashes and database faults: `[]ChargedAtMostOnce` |
| | `RequestsCounted` | `[]AttemptsRecorded` |
| `OutboxRelayProofs` | `TypeCorrect` | `[]TypeOK` |
| | `CopiesAccounted` | `[]CopyAccounting` |
| | `MarkedIsConfirmed` | `[]MarkedMeansConfirmed` |
| | `OnceUntilDisturbed` | `[]PublishedOnce` |
| | `CopiesPaidFor` | `[]CopiesBounded` |
| | `PublishedIsStored` | only stored rows are published |
| `IntakeProofs` | `TypeCorrect` | `[]TypeOK` |
| | `KeysAreUnique` | `[]OnePaymentPerKey` |
| | `NoPaymentWithoutEvent` | `[]PaymentIffEvent` |
| | `AnswersAreTrue`, `LosersRecover` | `[]ReplyTruthful`, `[]WinnerFound` |
| | `CreatorIsUnique` | `[]OneCreator` |
| | `RegistryImplemented` | `ImplementsRegistry` |
| `EndpointProofs` | `BodiesDecide` | `[]AnswersMeanBodies` |
| `TopologyProofs` | `TypeCorrect` | `[]TypeOK` |
| | `MessagesKeepTheirQueues` | `[]NothingLost` |
| | `RunningAgree` | `[]SettingsAgree` |
| `MigrationsProofs` | `TypeCorrect` | `[]TypeOK` |
| | `SchemaIsWhole` | `[]SchemaWhole` |
| | `ConcurrentMigrationIsSafe` | `[]NoMigratorFails` |
| | `SuccessIsTrue` | `SuccessMeansThere` |
| `PaymentSystemProofs` | `ApiAlone`, `RelayAlone`, `WorkersAlone` | the system implements the specification of each component |
| | `NothingLostBetween` | `[]HandedOver` |
| | `KeyIsChargedOnce` | `[]ChargedOncePerKey` |
| | `WebhooksAreBounded` | `[]WebhooksBounded` |
| | `ServiceImplemented` | `ImplementsService` |
| `AdmissionProofs` | `NoLateRefusal` | `[]AdmittedFits` |
| | `AmountIsKept` | `[]AmountKept` |
| | `AmountIsCanonical` | the amount enters the fingerprint in one form per number |
| | `TextsApart`, `TextIsExact` | the metadata enter the fingerprint in one text per meaning |
| | `FingerprintIsExact` | `[]FingerprintExact` |

**Consumer.** `IInv` is the inductive invariant everything rests on: `TypeOK`,
`LocalInv` (what a handler's `pc` says of its message and its result) and `LockInv`
(whoever holds a row is in one of the two transactions with that payment; under the
lock of transaction 1 the row is pending; past transaction 1 it is not). `LockInv` is
needed because `RecordCharge` overwrites the status: only the lock shows that
what it overwrites is pending, and only the finality of a status lets a handler whose
session was lost go on without harm. `ChargeStep`, `AgreesStep`, `DeliveryStep` and
`NoLossStep` do one property each relative to `IInv`. `BurialsJustified` adds `AttemptInv`:
no message in flight has more attempts than there are retry queues, and a permanent
verdict has a reason. `LifecycleStep` maps every action to a step or a stutter of
`PaymentLifecycle`.

*How often.* Two arguments count, both with sets whose cardinality pays for what may
still happen.

`RequestsBounded` gives a copy in flight one *credit* for each attempt it has left:
`QueueCredits` are triples of attempt, copy and attempt to be made, `HandlerCredits`
pairs of a handler and an attempt. `CreditInv` says that the requests made and the
credits outstanding are at most (max_retries + 1) times the publications, crashes and
broker faults so far. A publication and a fault that leaves a copy more bring the
credits of one copy; `Send` spends one; what moves a copy maps its credits one to one;
burying and settling drop them. This is the sum over all messages in flight, without a
recursion over a bag.

`RepeatsArePaidFor` and `RequestsCounted` rest on `RepeatInv`. A handler whose session
is gone does not notice: it still calls the gateway or the client, after another handler
took the row. Such handlers are *orphans*, and the invariant counts them with what
already happened: `charges[p]` plus the orphans about to charge are at most one (once
the charge is on the row or about to be committed by the holder of the lock) plus the
crashes and database faults so far; likewise for the 2xx heard, and for the
requests against the row's counter. What the client accepted in all is the 2xx heard and
those unheard; the latter are bounded by nothing but the number of requests
(`PostsBounded`), and `RepeatsPaidFor` says so by counting them on its right-hand side.
A lost session turns a handler into an orphan or takes a result that awaited its commit,
never both, so one fault pays for it. Without the orphans the bound is not inductive:
the fault and the repeated call are any number of steps apart.

**OutboxRelay.** `TypeOK /\ BatchInv`: a relay holds every row of its batch or none of it
(a session is lost as a whole, which is why a commit that fails on a lost session has no
mark left to waste), a row is not both still to publish and done, and a locked row is not
published. `CopyAccounting` is inductive relative to it, and implies
`MarkedMeansConfirmed`. `Steady` (no fault so far, every batch held) gives
`PublishedOnce`. `CopiesPaidFor` counts in the way of the orphans: `Unprotected(r)` are
the relays that still have row r to publish but lost the session that locked it. A lost
session takes away one relay's lock on a row or one mark that awaits its commit, so
`FaultInv`, wasted copies plus unprotected relays at most the faults so far, holds for
each row of the batch at the price of one fault. `CopiesBounded` excepts the
settings of finding 2: where a row that is always refused can reach the overflow
(`PoisonIsPutOff` fails), each poll costs a copy of the rows before it and no bound holds.

**Intake.** The invariant adds `TransactionInv` (whoever has inserted a key in an open
transaction is about to insert the event or to commit, and the key is not stored),
`ResultInv` (what `create` returned is stored under the key) and `ReplyInv`.
`MakerInv` (who has made a payment looks up no key any more) shows that the flag set by
path is unset exactly on the maker's own result, which is `OneCreator`.
`OnePaymentPerKey` is not inductive alone: a commit keeps it only because the index
entry of the open transaction kept everybody else from committing the key. `RegistryStep`
maps a commit (also one whose answer is lost) to `Create` and an answer to `Accept` or
`Refuse`; everything else stutters.

**Endpoint.** `BodiesDecide` joins `AnswersAreTrue`, which is about fingerprints, with
`AcceptedDiffer`, which says what fingerprints are worth but only for requests that pass
the checks (`PrintsMeanBodies`). What is needed between them is `AdmittedInv`: no call
that was refused makes a payment or gets a 202 or a 409. That a 409 holds against *every*
payment of the key, and not only against one, is `OnePaymentPerKey`.

**Topology.** `PlanInv`: everything a process has got past is declared with its delay and
bound. `OneTtl`: a queue has one delay. From these, two running processes agree with the
queue and hence with each other. `WayBack`: as long as the broker has any message, the
main queue is bound, because a process binds it first.

**Migrations.** `LockInv`: who works in a transaction has the advisory lock, everybody
else has changed nothing. `ProgressInv`: the statement a migrator is at determines what
its transaction has created and dropped; hence no statement meets an unexpected object.

**PaymentSystem.** The composition repeats no component's proof. Each component theorem
is a fact about that component's `Spec`; `ApiAlone`, `RelayAlone` and `WorkersAlone` show
that a behaviour of the system satisfies that `Spec` (a step of another component is a
stutter; a commit of the API is the relay's `Insert`; a confirmed publication is the
consumers' `Publish`). The facts are then chained: a charged payment was published, a
published event is stored, an event belongs to a payment, a key has one payment; and a
stored payment whose row is marked has a copy, and what has a copy is settled or alive.
`KeyIsChargedOnce` takes its bounds from `RepeatsArePaidFor`: on charges, only the
consumers' crashes and database faults; on accepted webhooks, also each 2xx the sender did
not hear. `WebhooksAreBounded` puts the bound on copies into the
bound on requests. `ServiceImplemented` takes `RegistryImplemented` and
`LifecycleImplemented` as they are. What is left to show is that the two sides never
move in one step and that the lifecycle moves only for payments of the registry: what
the consumers have decided was published (`Decided`), and what was published is stored
(`Taken`).

**Admission.** Arithmetic on decimals. What `WithinLimit` and `WholeCents` let through
is a whole number of cents below the limit of the column, so `NormalizeAmount` divides
without remainder and the row holds the number that was read (`NoLateRefusal`); a number
of fewer digits than a float keeps comes through `ThroughFloat` as it is
(`AmountIsKept`). `AmountIsCanonical` is what `FingerprintExact` says of the amount:
equal numbers, however spelled, have one canonical form and others have another.

`FingerprintIsExact` needs the same of the metadata, for values of any depth. The
provers cannot apply an induction theorem that takes a predicate; `InductionOnSets`
states induction on the set of the numbers a fact holds of, which they can, and
`Below(n)`, the values nested less deep than n, carries it to JSON values. With it:

* `LoadDefined`, `DumpsDefined`, `MeaningDefined`: the recursive functions exist and obey
  their equations, because each looks only at the parts of a value (`DumpsLocal`).
* `DictFacts`: the dict of an object has each of its keys once, with the last value
  written. The induction is over the pairs read so far (`IsDict`).
* `ObjectText`, `ListText`, `OtherText`: the text of a value as written, in terms of the
  texts of its parts: the order of keys and the earlier values of a key are gone.
* `TextsApart`: the text can be read back. "Equal texts have equal parts" is not
  inductive, since the texts of the parts stand in the middle of another text and nothing
  says where one stops. `Apart` is: whatever two texts stand behind, if the whole is
  equal then so is what stands before and so are the texts. Texts of different kinds end in
  different tokens (`EndsDiffer`), and no text ends in an opening bracket (`TextOpens`), so
  that an object is read from its closing bracket, a pair at a time, back to its opening
  one (`Unflattened`, which counts the pairs of both sides down together).
* `TextIsExact`: equal texts hence have equal keys and, by induction, parts that mean the
  same; equal meanings have the same keys, in the same order of `SetToSeq`.

Only model-checked is liveness (`EventuallyResolved`, `ComesToRest`,
`EventuallyPublished`, `StopHonoured`, `EveryRequestEnds`, `AcceptedIsResolved`,
`NoLockout`, `EveryMigratorEnds`), which rests on fairness and ENABLED and is out of
TLAPS's reach. Every invariant of a passing run is a theorem.

## 6. Findings

1. **A payment can be charged twice** (`consumer_crash`). docs/design.md:207-211 and
   README.md:95 of the repository promise that a redelivered event does not reach the
   gateway again. The gateway answers before the commit (processor.py:90-96): a
   crash in between leaves the row pending. `ChargeAccounting` is the exact
   statement: one charge, plus one for each fault between answer and commit. The
   docstring processor.py:60-64 agrees with the code, the two documents do not.
2. **The backoff overflows** (`relay_overflow`). relay.py:161 computes `2.0**attempts`
   before it takes the minimum. At 1024 failed attempts of one row (about 17 hours at
   one a minute) it raises OverflowError inside the except block; the batch is rolled
   back, the row stays due and oldest, and so it goes at each poll. Rows behind it are
   never published, rows before it are published at every poll. relay.py:85-87 says that
   a failure of one message does not affect the others.
3. **Cents of large amounts are rounded** (`admission_cents`). schemas.py:36 says that
   cents must not be dropped silently. An amount written as a JSON number with a point
   is a float before it is a Decimal: 99999999999999.99 is stored as 99999999999999.98.
   Amounts written as strings are exact (`AmountKept`).

## 7. Not modelled, and why

* GET /payments/{id}, response schemas, error format, health probes, logging: they
  change no state.
* The webhook's payload and signature: data no decision of the service reads. The
  demonstration sink: the client of `Consumer` is more general.
* SHA-256: taken as injective. Text that the database or the URL parser refuses for its
  characters, and other properties of strings than length and spaces.
* Wall-clock time: delays are "some time", TTLs expire eventually. RabbitMQ and
  PostgreSQL are modelled from how the code uses them: durable queues, publisher confirms,
  redelivery of unacknowledged messages, row locks until the end of the session, unique
  index under READ COMMITTED, transactional DDL.
* Limits of prefetch and of the connection pool: a handler is a slot; a checkout that
  times out is a failed query (`SelectFails`). With the default settings the pool is
  larger than the prefetch.
* The consumer's wait at shutdown (up to 30 s): a handler finishes or is cut off, which
  is `Crash`.
* The offline mode of alembic, which prints SQL; image build, demo script and tests.
* A deployment whose settings differ from the queues that exist: after `Redeploy` nothing
  promises that a process gets up again (`NoLockout` excepts it). docker-compose.yml:86-87
  names this restriction.

## 8. What could follow

1. A composition of `Topology` with `Consumer`, so that routes are looked up in declared
   bindings instead of being written into `Expire` and `Forward`.
2. A pool of connections shared by the handlers of a process.

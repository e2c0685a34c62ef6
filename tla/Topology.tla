------------------------------ MODULE Topology ------------------------------
(***************************************************************************)
(* The exchanges, queues and bindings of broker/topology.py, and the       *)
(* processes that declare them one after another when they start           *)
(* (declare_topology in broker/setup.py, called by entrypoints/relay.py    *)
(* and by start_consumer in broker/consumer.py), restarted by the          *)
(* container runtime whenever they end, possibly with other settings.      *)
(*                                                                         *)
(* RabbitMQ refuses to declare an existing queue with another              *)
(* x-message-ttl (PRECONDITION_FAILED), and silently drops what is         *)
(* published to an exchange that routes it nowhere.                        *)
(*                                                                         *)
(* A queue is <<"new", 0>>, <<"retry", n>> or <<"dlq", 0>>.  Routing keys  *)
(* are numbers: n for "retry.n", 0 for "payments.new".                     *)
(***************************************************************************)
EXTENDS Integers

CONSTANTS
    Processes,
    Consumers,        \* the others are relays
    Settings,         \* values of max_retries, retry_base_delay_seconds and
                      \* retry_multiplier, the last two as fractions
    InitialSettings,  \* of each process
    Messages,
    Budget

Faults == {"crash", "outage", "redeploy"}

ASSUME SettingsAssumption ==
    \A s \in Settings :
        /\ s.retries \in Nat \ {0}
        /\ s.base.num \in Nat \ {0} /\ s.base.den \in Nat \ {0}
        /\ s.multiplier.num \in Nat \ {0} /\ s.multiplier.den \in Nat \ {0}
        /\ s.multiplier.num > s.multiplier.den
ASSUME ProcessesAssumption ==
    /\ Consumers \subseteq Processes
    /\ InitialSettings \in [Processes -> Settings]
ASSUME BudgetAssumption == Budget \in [Faults -> Nat]

New == <<"new", 0>>
Dlq == <<"dlq", 0>>
Retry(n) == <<"retry", n>>
Attempts == UNION {1..s.retries : s \in Settings}
Queues == {New, Dlq} \cup {Retry(n) : n \in Attempts}

\* Where else a message is: not published yet, acknowledged, dropped.
Outbox == <<"outbox", 0>>
Done == <<"done", 0>>
Lost == <<"lost", 0>>
Places == Queues \cup {Outbox, Done, Lost}

VARIABLES
    exchanges,  \* declared exchanges
    queues,     \* declared queues, each with its x-message-ttl (0: none)
    bindings,
    settings,   \* settings a process is deployed with
    pc,
    cursor,     \* the queue a starting process is at
    at,         \* where each message is
    retried,    \* x-retry-count
    budget

broker == <<exchanges, queues, bindings>>
messages == <<at, retried>>
processes == <<settings, pc, cursor>>
vars == <<broker, processes, messages, budget>>

-----------------------------------------------------------------------------
(* What a process declares *)

\* The x-message-ttl of build_retry_queue: base * multiplier^(n - 1) seconds, cut
\* to whole milliseconds, so that settings that differ may agree on a delay.
Delay(s, n) ==
    (1000 * s.base.num * s.multiplier.num^(n - 1)) \div (s.base.den * s.multiplier.den^(n - 1))

Delays == {0} \cup {Delay(s, n) : s \in Settings, n \in Attempts}

Ttl(s, q) == IF q[1] = "retry" THEN Delay(s, q[2]) ELSE 0

Exchange(q) ==
    CASE q[1] = "new" -> "payments" [] q[1] = "retry" -> "payments.retry" [] OTHER -> "payments.dlx"

Binding(q) == [from |-> Exchange(q), key |-> q[2], queue |-> q]

TypeOK ==
    /\ exchanges \subseteq {"payments", "payments.retry", "payments.dlx"}
    /\ queues \subseteq Queues \X Delays
    /\ bindings \subseteq {Binding(q) : q \in Queues}
    /\ settings \in [Processes -> Settings]
    /\ pc \in [Processes -> {"down", "exchanges", "queue", "bind", "running"}]
    /\ cursor \in [Processes -> Queues]
    /\ at \in [Messages -> Places]
    /\ retried \in [Messages -> Nat]
    /\ budget \in [Faults -> Nat]

Init ==
    /\ exchanges = {} /\ queues = {} /\ bindings = {}
    /\ settings = InitialSettings
    /\ pc = [p \in Processes |-> "exchanges"]
    /\ cursor = [p \in Processes |-> New]
    /\ at = [m \in Messages |-> Outbox]
    /\ retried = [m \in Messages |-> 0]
    /\ budget = Budget

-----------------------------------------------------------------------------
(* Helpers *)

Spend(fault) ==
    /\ budget[fault] > 0
    /\ budget' = [budget EXCEPT ![fault] = @ - 1]

Goto(p, label) == pc' = [pc EXCEPT ![p] = label]

\* Mutant: only the queues that somebody subscribes to, and the DLQ.
AfterSubscribed(s, q) == IF q = New THEN Dlq ELSE q

\* The order of declare_topology.
After(s, q) ==
    IF q = New THEN Retry(1)
    ELSE IF q[1] = "retry" /\ q[2] < s.retries THEN Retry(q[2] + 1)
    ELSE Dlq

\* Mutant: RabbitMQ is asked for the queue's name only (passive=True).
NeverRefused(p) == FALSE

\* PRECONDITION_FAILED
Refused(p) ==
    \E d \in queues : d[1] = cursor[p] /\ d[2] # Ttl(settings[p], cursor[p])

\* durable=True, of every queue and exchange.
Durable(q) == TRUE

-----------------------------------------------------------------------------
(* The start of a process *)

(* The exchanges have no arguments to disagree on: one step. *)
DeclareExchanges(p) ==
    /\ pc[p] = "exchanges"
    /\ exchanges' = {"payments", "payments.retry", "payments.dlx"}
    /\ cursor' = [cursor EXCEPT ![p] = New]
    /\ Goto(p, "queue")
    /\ UNCHANGED <<queues, bindings, settings, messages, budget>>

DeclareQueue(p) ==
    /\ pc[p] = "queue"
    /\ \/ Refused(p) /\ Goto(p, "down") /\ UNCHANGED queues
       \/ /\ ~Refused(p)
          /\ queues' = queues \cup {<<cursor[p], Ttl(settings[p], cursor[p])>>}
          /\ Goto(p, "bind")
    /\ UNCHANGED <<exchanges, bindings, settings, cursor, messages, budget>>

BindQueue(p) ==
    /\ pc[p] = "bind"
    /\ bindings' = bindings \cup {Binding(cursor[p])}
    /\ \/ /\ cursor[p] = Dlq
          /\ Goto(p, "running")
          /\ UNCHANGED cursor
       \/ /\ cursor[p] # Dlq
          /\ cursor' = [cursor EXCEPT ![p] = After(settings[p], cursor[p])]
          /\ Goto(p, "queue")
    /\ UNCHANGED <<exchanges, queues, settings, messages, budget>>

(* Mutant: restart: "no". *)
NotRestarted(p) == pc[p] = "down" /\ UNCHANGED vars

(* restart: unless-stopped *)
Restart(p) ==
    /\ pc[p] = "down"
    /\ Goto(p, "exchanges")
    /\ UNCHANGED <<broker, settings, cursor, messages, budget>>

Crash(p) ==
    /\ pc[p] # "down"
    /\ Spend("crash")
    /\ Goto(p, "down")
    /\ UNCHANGED <<broker, settings, cursor, messages>>

(* The operator starts the process again with other settings. *)
Redeploy(p) ==
    /\ Spend("redeploy")
    /\ \E s \in Settings \ {settings[p]} : settings' = [settings EXCEPT ![p] = s]
    /\ Goto(p, "down")
    /\ UNCHANGED <<broker, cursor, messages>>

-----------------------------------------------------------------------------
(* The broker *)

\* A direct exchange hands a message to the queue bound with its key.
Routed(from, key) ==
    LET bound == {q \in Queues : [from |-> from, key |-> key, queue |-> q] \in bindings}
    IN  IF from \in exchanges /\ bound # {} THEN CHOOSE q \in bound : TRUE ELSE Lost

(* A restart forgets what is not durable, with the messages in it.  A   *)
(* running process reconnects; one that is still declaring raises and   *)
(* ends.                                                                *)
BrokerRestarts ==
    /\ Spend("outage")
    /\ queues' = {d \in queues : Durable(d[1])}
    /\ bindings' = {b \in bindings : Durable(b.queue)}
    /\ at' = [m \in Messages |-> IF at[m] \in Queues /\ ~Durable(at[m]) THEN Lost ELSE at[m]]
    /\ pc' = [p \in Processes |-> IF pc[p] = "running" THEN "running" ELSE "down"]
    /\ UNCHANGED <<exchanges, settings, cursor, retried>>

(* x-message-ttl, then x-dead-letter-exchange and x-dead-letter-routing-key. *)
Expire(m) ==
    /\ at[m][1] = "retry"
    /\ at' = [at EXCEPT ![m] = Routed("payments", 0)]
    /\ UNCHANGED <<broker, processes, retried, budget>>

-----------------------------------------------------------------------------
(* What running processes do with messages (see OutboxRelay and Consumer) *)

Publish(p, m) ==
    /\ p \notin Consumers /\ pc[p] = "running"
    /\ at[m] = Outbox
    /\ at' = [at EXCEPT ![m] = Routed("payments", 0)]
    /\ UNCHANGED <<broker, processes, retried, budget>>

Acknowledge(p, m) ==
    /\ p \in Consumers /\ pc[p] = "running"
    /\ at[m] = New
    /\ at' = [at EXCEPT ![m] = Done]
    /\ UNCHANGED <<broker, processes, retried, budget>>

\* RetryRouter: the next retry queue, or the DLQ after max_retries.
SendOn(p, m) ==
    /\ p \in Consumers /\ pc[p] = "running"
    /\ at[m] = New
    /\ \/ /\ retried[m] < settings[p].retries
          /\ at' = [at EXCEPT ![m] = Routed("payments.retry", retried[m] + 1)]
          /\ retried' = [retried EXCEPT ![m] = @ + 1]
       \/ /\ retried[m] >= settings[p].retries
          /\ at' = [at EXCEPT ![m] = Routed("payments.dlx", 0)]
          /\ UNCHANGED retried
    /\ UNCHANGED <<broker, processes, budget>>

-----------------------------------------------------------------------------
Starting(p) == DeclareExchanges(p) \/ DeclareQueue(p) \/ BindQueue(p) \/ Restart(p)

Idle ==
    /\ \A p \in Processes : pc[p] = "running"
    /\ \A m \in Messages : at[m] \in {Done, Dlq}
    /\ UNCHANGED vars

Next ==
    \/ \E p \in Processes : Starting(p) \/ Crash(p) \/ Redeploy(p)
    \/ \E p \in Processes, m \in Messages : Publish(p, m) \/ Acknowledge(p, m) \/ SendOn(p, m)
    \/ \E m \in Messages : Expire(m)
    \/ BrokerRestarts
    \/ Idle

\* A process gets on with its start, and the runtime restarts it.
Fairness == \A p \in Processes : WF_vars(Starting(p))

Spec == Init /\ [][Next]_vars
FairSpec == Spec /\ Fairness

-----------------------------------------------------------------------------
(* Properties *)

\* setup.py:3-5, entrypoints/relay.py:26-27: whoever runs finds every queue it
\* publishes to, and every retry queue its way back, although other processes
\* with other settings, their crashes and restarts declared parts of it.
NothingLost == \A m \in Messages : at[m] # Lost

\* docker-compose.yml, comment at MAX_RETRIES of the relay: processes that run
\* agree on the delay of every attempt both know, and with the queue's.
SettingsAgree ==
    \A p, q \in Processes : pc[p] = "running" /\ pc[q] = "running" =>
        \A n \in 1..settings[p].retries :
            /\ <<Retry(n), Delay(settings[p], n)>> \in queues
            /\ n <= settings[q].retries => Delay(settings[p], n) = Delay(settings[q], n)

\* setup.py:44-63: processes with different settings shut some of them out, but
\* never all: they declare in one order, so that whoever is first goes on.
NoLockout ==
    <>[](\/ \E p \in Processes : pc[p] = "running"
         \/ budget["redeploy"] # Budget["redeploy"])

=============================================================================

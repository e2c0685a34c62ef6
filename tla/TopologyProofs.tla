--------------------------- MODULE TopologyProofs ---------------------------
(***************************************************************************)
(* Theorems about Topology, for any processes, settings and messages.      *)
(***************************************************************************)
EXTENDS Topology, TLAPS

\* The queues of declare_topology under these settings, and those before q.
Plan(s) == {New, Dlq} \cup {Retry(n) : n \in 1..s.retries}
Before(s, q) ==
    {x \in Plan(s) : \/ q = Dlq /\ x # Dlq
                     \/ q[1] = "retry" /\ x = New
                     \/ q[1] = "retry" /\ x[1] = "retry" /\ x[2] < q[2]}

Declared(s, q) == <<q, Ttl(s, q)>> \in queues /\ Binding(q) \in bindings

\* What a process has got through is there.
PlanInv ==
    \A p \in Processes :
        /\ pc[p] \in {"queue", "bind", "running"} =>
              /\ exchanges = {"payments", "payments.retry", "payments.dlx"}
              /\ cursor[p] \in Plan(settings[p])
              /\ \A q \in Before(settings[p], cursor[p]) : Declared(settings[p], q)
        /\ pc[p] = "bind" => <<cursor[p], Ttl(settings[p], cursor[p])>> \in queues
        /\ pc[p] = "running" => \A q \in Plan(settings[p]) : Declared(settings[p], q)

\* A queue is declared with one delay.
OneTtl == \A d, e \in queues : d[1] = e[1] => d[2] = e[2]

\* A message in the broker can always return to the main queue.
WayBack ==
    \A m \in Messages : at[m] \in Queues => Binding(New) \in bindings /\ "payments" \in exchanges

IInv == TypeOK /\ PlanInv /\ OneTtl /\ WayBack /\ NothingLost

-----------------------------------------------------------------------------
(* Lemmas about the operators *)

LEMMA QueueForms ==
    ASSUME NEW q \in Queues
    PROVE  \/ q = New
           \/ q = Dlq
           \/ \E n \in Attempts : q = Retry(n)
BY DEF Queues

LEMMA AttemptsPositive == Attempts \subseteq Nat \ {0}
BY SettingsAssumption DEF Attempts

\* A binding tells its queue by exchange and key.
LEMMA BindingInjective ==
    ASSUME NEW q \in Queues, NEW x \in Queues,
           Exchange(q) = Exchange(x), q[2] = x[2]
    PROVE  q = x
BY QueueForms, AttemptsPositive DEF Exchange, New, Dlq, Retry

LEMMA PlanInQueues ==
    ASSUME NEW s \in Settings
    PROVE  Plan(s) \subseteq Queues
BY DEF Plan, Queues, Attempts

LEMMA TtlInDelays ==
    ASSUME NEW s \in Settings, NEW q \in Queues
    PROVE  Ttl(s, q) \in Delays
<1>1. CASE q = New \/ q = Dlq
  BY <1>1 DEF Ttl, Delays, New, Dlq
<1>2. ASSUME NEW n \in Attempts, q = Retry(n) PROVE Ttl(s, q) \in Delays
  BY <1>2 DEF Ttl, Delays, Retry
<1> QED
  BY <1>1, <1>2, QueueForms

\* A message goes to the queue that is bound with its key.
LEMMA Routing ==
    ASSUME TypeOK, NEW q \in Queues, Binding(q) \in bindings, Exchange(q) \in exchanges
    PROVE  Routed(Exchange(q), q[2]) = q
<1> DEFINE bound == {x \in Queues :
                        [from |-> Exchange(q), key |-> q[2], queue |-> x] \in bindings}
<1>1. q \in bound
  BY DEF Binding
<1>2. ASSUME NEW x \in bound PROVE x = q
  <2>1. PICK y \in Queues : [from |-> Exchange(q), key |-> q[2], queue |-> x] = Binding(y)
    BY <1>2 DEF TypeOK
  <2>2. x = y /\ Exchange(y) = Exchange(q) /\ y[2] = q[2]
    BY <2>1 DEF Binding
  <2> QED
    BY <2>2, BindingInjective
<1>3. bound = {q}
  BY <1>1, <1>2
<1> QED
  BY <1>3 DEF Routed

\* The cursor goes through the plan in its order.
LEMMA AfterInPlan ==
    ASSUME NEW s \in Settings, NEW q \in Plan(s), q # Dlq
    PROVE  /\ After(s, q) \in Plan(s)
           /\ Before(s, After(s, q)) \subseteq Before(s, q) \cup {q}
<1>0. s.retries \in Nat \ {0}
  BY SettingsAssumption
<1>1. CASE q = New
  <2>1. After(s, q) = Retry(1)
    BY <1>1 DEF After
  <2> QED
    BY <1>0, <1>1, <2>1 DEF Plan, Before, New, Dlq, Retry
<1>2. ASSUME NEW n \in 1..s.retries, q = Retry(n), n < s.retries
      PROVE  /\ After(s, q) \in Plan(s)
             /\ Before(s, After(s, q)) \subseteq Before(s, q) \cup {q}
  <2>1. After(s, q) = Retry(n + 1)
    BY <1>2 DEF After, New, Retry
  <2> QED
    BY <1>0, <1>2, <2>1 DEF Plan, Before, New, Dlq, Retry
<1>3. CASE q = Retry(s.retries)
  <2>1. After(s, q) = Dlq
    BY <1>0, <1>3 DEF After, New, Retry
  <2> QED
    BY <1>0, <1>3, <2>1 DEF Plan, Before, New, Dlq, Retry
<1> QED
  BY <1>0, <1>1, <1>2, <1>3 DEF Plan

LEMMA BeforeDlq ==
    ASSUME NEW s \in Settings
    PROVE  Plan(s) = Before(s, Dlq) \cup {Dlq}
BY DEF Plan, Before

LEMMA BeforeNew ==
    ASSUME NEW s \in Settings
    PROVE  Before(s, New) = {} /\ New \in Plan(s)
BY DEF Plan, Before, New, Dlq

-----------------------------------------------------------------------------
LEMMA InitIInv == Init => IInv
<1> SUFFICES ASSUME Init PROVE IInv
  OBVIOUS
<1>1. New \in Queues /\ Outbox \in Places
  BY DEF Queues, Places
<1>2. TypeOK
  BY <1>1, BudgetAssumption, ProcessesAssumption DEF Init, TypeOK
<1>3. PlanInv /\ OneTtl
  BY DEF Init, PlanInv, OneTtl
<1>4. WayBack /\ NothingLost
  BY DEF Init, WayBack, NothingLost, Outbox, Lost, Queues, New, Dlq, Retry
<1> QED
  BY <1>2, <1>3, <1>4 DEF IInv

LEMMA NextCases ==
    ASSUME [Next]_vars
    PROVE  \/ \E p \in Processes :
                 \/ DeclareExchanges(p) \/ DeclareQueue(p) \/ BindQueue(p) \/ Restart(p)
                 \/ Crash(p) \/ Redeploy(p)
           \/ \E p \in Processes, m \in Messages : Publish(p, m) \/ Acknowledge(p, m) \/ SendOn(p, m)
           \/ \E m \in Messages : Expire(m)
           \/ BrokerRestarts
           \/ UNCHANGED vars
BY DEF Next, Starting, Idle

\* What is durable is everything: the broker never forgets.
LEMMA BrokerGrows ==
    ASSUME IInv, [Next]_vars
    PROVE  queues \subseteq queues' /\ bindings \subseteq bindings' /\ exchanges \subseteq exchanges'
BY NextCases DEF DeclareExchanges, DeclareQueue, BindQueue, Restart, Crash, Redeploy, Publish,
       Acknowledge, SendOn, Expire, BrokerRestarts, Durable, vars, broker, IInv, TypeOK

\* Where a message goes that a running process sends, or that expires.
LEMMA SendsArrive ==
    ASSUME IInv
    PROVE  /\ \A p \in Processes : pc[p] = "running" =>
                 /\ Routed("payments", 0) = New
                 /\ Routed("payments.dlx", 0) = Dlq
                 /\ \A n \in 1..settings[p].retries : Routed("payments.retry", n) = Retry(n)
                 /\ Binding(New) \in bindings /\ "payments" \in exchanges
           /\ \A m \in Messages : at[m] \in Queues => Routed("payments", 0) = New
<1> USE DEF IInv
<1>1. New \in Queues /\ Exchange(New) = "payments" /\ New[2] = 0
  BY DEF Queues, Exchange, New
<1>2. Dlq \in Queues /\ Exchange(Dlq) = "payments.dlx" /\ Dlq[2] = 0
  BY DEF Queues, Exchange, Dlq
<1>3. \A n : Exchange(Retry(n)) = "payments.retry" /\ Retry(n)[2] = n
  BY DEF Exchange, Retry
<1>4. ASSUME NEW p \in Processes, pc[p] = "running"
      PROVE  /\ Routed("payments", 0) = New
             /\ Routed("payments.dlx", 0) = Dlq
             /\ \A n \in 1..settings[p].retries : Routed("payments.retry", n) = Retry(n)
             /\ Binding(New) \in bindings /\ "payments" \in exchanges
  <2>1. /\ exchanges = {"payments", "payments.retry", "payments.dlx"}
        /\ \A q \in Plan(settings[p]) : Binding(q) \in bindings
    BY <1>4 DEF PlanInv, Declared
  <2>2. settings[p] \in Settings
    BY DEF TypeOK
  <2>3. New \in Plan(settings[p]) /\ Dlq \in Plan(settings[p])
    BY DEF Plan
  <2>4. ASSUME NEW n \in 1..settings[p].retries PROVE Routed("payments.retry", n) = Retry(n)
    <3>1. Retry(n) \in Plan(settings[p]) /\ Retry(n) \in Queues
      BY <2>2, PlanInQueues DEF Plan
    <3> QED
      BY <1>3, <2>1, <3>1, Routing
  <2> QED
    BY <1>1, <1>2, <2>1, <2>3, <2>4, Routing
<1>5. ASSUME NEW m \in Messages, at[m] \in Queues PROVE Routed("payments", 0) = New
  BY <1>1, <1>5, Routing DEF WayBack
<1> QED
  BY <1>4, <1>5

LEMMA MessageStep == IInv /\ [Next]_vars => NothingLost' /\ WayBack'
<1> SUFFICES ASSUME IInv, [Next]_vars PROVE NothingLost' /\ WayBack'
  OBVIOUS
<1> DEFINE Connected == Binding(New) \in bindings /\ "payments" \in exchanges
<1>1. Connected => Connected'
  BY BrokerGrows
<1>2. Queues \cap {Lost, Done, Outbox} = {} /\ Lost # Done /\ New \in Queues /\ Dlq \in Queues
  BY DEF Queues, New, Dlq, Retry, Lost, Done, Outbox
<1>3. ASSUME UNCHANGED at PROVE NothingLost' /\ WayBack'
  BY <1>1, <1>3 DEF IInv, NothingLost, WayBack
<1>4. ASSUME NEW m \in Messages, NEW place \in Queues \cup {Done}, Connected,
             at' = [at EXCEPT ![m] = place]
      PROVE  NothingLost' /\ WayBack'
  BY <1>1, <1>2, <1>4 DEF IInv, TypeOK, NothingLost, WayBack
<1>5. ASSUME NEW p \in Processes, NEW m \in Messages, Publish(p, m) \/ Acknowledge(p, m)
      PROVE  NothingLost' /\ WayBack'
  BY <1>2, <1>4, <1>5, SendsArrive DEF Publish, Acknowledge
<1>6. ASSUME NEW p \in Processes, NEW m \in Messages, SendOn(p, m) PROVE NothingLost' /\ WayBack'
  <2>1. settings[p] \in Settings /\ settings[p].retries \in Nat /\ retried[m] \in Nat
    BY SettingsAssumption DEF IInv, TypeOK
  <2>2. CASE retried[m] < settings[p].retries /\ at' = [at EXCEPT ![m] = Routed("payments.retry", retried[m] + 1)]
    <3>1. retried[m] + 1 \in 1..settings[p].retries
      BY <2>1, <2>2
    <3>2. Routed("payments.retry", retried[m] + 1) = Retry(retried[m] + 1)
      BY <1>6, <3>1, SendsArrive DEF SendOn
    <3>3. Retry(retried[m] + 1) \in Queues
      BY <2>1, <3>1 DEF Queues, Attempts
    <3> QED
      BY <1>4, <1>6, <2>2, <3>2, <3>3, SendsArrive DEF SendOn
  <2>3. CASE at' = [at EXCEPT ![m] = Routed("payments.dlx", 0)]
    BY <1>2, <1>4, <1>6, <2>3, SendsArrive DEF SendOn
  <2> QED
    BY <1>6, <2>2, <2>3 DEF SendOn
<1>7. ASSUME NEW m \in Messages, Expire(m) PROVE NothingLost' /\ WayBack'
  <2>1. at[m] \in Queues
    BY <1>7 DEF Expire, IInv, TypeOK, Places, Outbox, Done, Lost
  <2> QED
    BY <1>2, <1>4, <1>7, <2>1, SendsArrive DEF Expire, IInv, WayBack
<1>8. CASE BrokerRestarts
  <2>1. at' = at
    BY <1>8 DEF BrokerRestarts, Durable, IInv, TypeOK
  <2> QED
    BY <1>3, <2>1
<1>9. \/ UNCHANGED at
      \/ \E p \in Processes, m \in Messages : Publish(p, m) \/ Acknowledge(p, m) \/ SendOn(p, m)
      \/ \E m \in Messages : Expire(m)
      \/ BrokerRestarts
  BY NextCases DEF DeclareExchanges, DeclareQueue, BindQueue, Restart, Crash, Redeploy, Expire,
                   BrokerRestarts, Durable, IInv, TypeOK, vars, messages
<1> QED
  BY <1>3, <1>5, <1>6, <1>7, <1>8, <1>9

LEMMA TtlStep == IInv /\ [Next]_vars => OneTtl'
<1> SUFFICES ASSUME IInv, [Next]_vars PROVE OneTtl'
  OBVIOUS
<1>1. ASSUME NEW p \in Processes, DeclareQueue(p) PROVE OneTtl'
  BY <1>1 DEF DeclareQueue, Refused, OneTtl, IInv
<1>2. CASE UNCHANGED queues
  BY <1>2 DEF OneTtl, IInv
<1>3. UNCHANGED queues \/ \E p \in Processes : DeclareQueue(p)
  BY NextCases DEF DeclareExchanges, BindQueue, Restart, Crash, Redeploy, Publish, Acknowledge,
                   SendOn, Expire, BrokerRestarts, Durable, vars, broker, IInv, TypeOK
<1> QED
  BY <1>1, <1>2, <1>3

LEMMA TypeStep == IInv /\ [Next]_vars => TypeOK'
<1> SUFFICES ASSUME IInv, [Next]_vars PROVE TypeOK'
  OBVIOUS
<1>0. TypeOK
  BY DEF IInv
<1>1. New \in Queues /\ Dlq \in Queues /\ Done \in Places /\ Lost \in Places /\ Queues \subseteq Places
  BY DEF Queues, Places
<1>2. \A from, key : Routed(from, key) \in Places
  BY <1>1 DEF Routed
<1> USE <1>0 DEF TypeOK, Goto, Spend, Faults, broker, messages, processes
<1>3. ASSUME NEW p \in Processes, DeclareExchanges(p) PROVE TypeOK'
  BY <1>1, <1>3 DEF DeclareExchanges
<1>4. ASSUME NEW p \in Processes, DeclareQueue(p) PROVE TypeOK'
  <2>1. Ttl(settings[p], cursor[p]) \in Delays
    BY TtlInDelays
  <2> QED
    BY <1>4, <2>1 DEF DeclareQueue
<1>5. ASSUME NEW p \in Processes, BindQueue(p) PROVE TypeOK'
  <2>1. settings[p] \in Settings /\ cursor[p] \in Plan(settings[p])
    BY <1>5 DEF BindQueue, IInv, PlanInv
  <2>2. cursor[p] # Dlq => After(settings[p], cursor[p]) \in Queues
    BY <2>1, AfterInPlan, PlanInQueues
  <2>3. Binding(cursor[p]) \in {Binding(q) : q \in Queues}
    OBVIOUS
  <2> QED
    BY <1>5, <2>2, <2>3 DEF BindQueue
<1>6. ASSUME NEW p \in Processes, Restart(p) \/ Crash(p) PROVE TypeOK'
  <2>1. CASE Restart(p)
    BY <2>1 DEF Restart
  <2>2. CASE Crash(p)
    BY <2>2 DEF Crash
  <2> QED
    BY <1>6, <2>1, <2>2
<1>7. ASSUME NEW p \in Processes, Redeploy(p) PROVE TypeOK'
  BY <1>7 DEF Redeploy
<1>8. ASSUME NEW p \in Processes, NEW m \in Messages, Publish(p, m) \/ Acknowledge(p, m) \/ SendOn(p, m)
      PROVE  TypeOK'
  <2>1. CASE Publish(p, m)
    BY <1>2, <2>1 DEF Publish
  <2>2. CASE Acknowledge(p, m)
    BY <1>1, <2>2 DEF Acknowledge
  <2>3. CASE SendOn(p, m)
    BY <1>2, <2>3 DEF SendOn
  <2> QED
    BY <1>8, <2>1, <2>2, <2>3
<1>9. ASSUME NEW m \in Messages, Expire(m) PROVE TypeOK'
  BY <1>2, <1>9 DEF Expire
<1>10. CASE BrokerRestarts
  BY <1>1, <1>10 DEF BrokerRestarts, Durable
<1>11. CASE UNCHANGED vars
  BY <1>11 DEF vars
<1> QED
  BY <1>3, <1>4, <1>5, <1>6, <1>7, <1>8, <1>9, <1>10, <1>11, NextCases

LEMMA PlanStep == IInv /\ [Next]_vars => PlanInv'
<1> SUFFICES ASSUME IInv, [Next]_vars PROVE PlanInv'
  OBVIOUS
<1>0. TypeOK /\ PlanInv
  BY DEF IInv
<1> DEFINE
      P(p) == /\ pc[p] \in {"queue", "bind", "running"} =>
                   /\ exchanges = {"payments", "payments.retry", "payments.dlx"}
                   /\ cursor[p] \in Plan(settings[p])
                   /\ \A q \in Before(settings[p], cursor[p]) : Declared(settings[p], q)
              /\ pc[p] = "bind" => <<cursor[p], Ttl(settings[p], cursor[p])>> \in queues
              /\ pc[p] = "running" => \A q \in Plan(settings[p]) : Declared(settings[p], q)
<1>1. \A s, q : Declared(s, q) => Declared(s, q)'
  BY BrokerGrows DEF Declared
<1>2. exchanges = {"payments", "payments.retry", "payments.dlx"} => exchanges' = exchanges
  BY BrokerGrows, TypeStep DEF IInv, TypeOK
\* A step that leaves a process where it is cannot disturb it.
<1>3. ASSUME NEW p \in Processes, pc'[p] = pc[p], cursor'[p] = cursor[p], settings'[p] = settings[p]
      PROVE  P(p)'
  BY <1>0, <1>1, <1>2, <1>3, BrokerGrows DEF PlanInv
<1>4. ASSUME NEW p \in Processes, pc'[p] \in {"down", "exchanges"} PROVE P(p)'
  BY <1>4
<1>5. ASSUME NEW p \in Processes, DeclareExchanges(p) PROVE P(p)'
  BY <1>0, <1>5, BeforeNew DEF DeclareExchanges, Goto, TypeOK
<1>6. ASSUME NEW p \in Processes, DeclareQueue(p) PROVE P(p)'
  <2>1. CASE Refused(p)
    BY <1>0, <1>4, <1>6, <2>1 DEF DeclareQueue, Goto, TypeOK
  <2>2. CASE ~Refused(p)
    BY <1>0, <1>1, <1>2, <1>6, <2>2 DEF DeclareQueue, Goto, TypeOK, PlanInv
  <2> QED
    BY <2>1, <2>2
<1>7. ASSUME NEW p \in Processes, BindQueue(p) PROVE P(p)'
  <2>0. PICK s \in Settings, q \in Queues : s = settings[p] /\ q = cursor[p]
    BY <1>0 DEF TypeOK
  <2>1. settings'[p] = s /\ q \in Plan(s) /\ pc[p] = "bind"
    BY <1>0, <1>7, <2>0 DEF BindQueue, PlanInv
  <2>2. \A x \in Before(s, q) \cup {q} : Declared(s, x)'
    <3>1. Declared(s, q)'
      BY <1>0, <1>7, <2>0 DEF BindQueue, PlanInv, Declared
    <3>2. \A x \in Before(s, q) : Declared(s, x)'
      BY <1>0, <1>1, <1>7, <2>0 DEF BindQueue, PlanInv
    <3> QED
      BY <3>1, <3>2
  <2>3. exchanges' = {"payments", "payments.retry", "payments.dlx"}
    BY <1>0, <1>2, <2>0, <2>1 DEF PlanInv
  <2>4. CASE q = Dlq
    <3>1. pc'[p] = "running" /\ cursor'[p] = q
      BY <1>0, <1>7, <2>0, <2>4 DEF BindQueue, Goto, TypeOK
    <3>2. \A x \in Plan(s) : Declared(s, x)'
      BY <2>1, <2>2, <2>4, BeforeDlq
    <3>3. Before(s, q) \subseteq Plan(s)
      BY DEF Before
    <3> QED
      BY <2>1, <2>3, <3>1, <3>2, <3>3
  <2>5. CASE q # Dlq
    <3>1. pc'[p] = "queue" /\ cursor'[p] = After(s, q)
      BY <1>0, <1>7, <2>0, <2>5 DEF BindQueue, Goto, TypeOK
    <3>2. After(s, q) \in Plan(s) /\ \A x \in Before(s, After(s, q)) : Declared(s, x)'
      BY <2>1, <2>2, <2>5, AfterInPlan
    <3> QED
      BY <2>1, <2>3, <3>1, <3>2
  <2> QED
    BY <2>4, <2>5
<1>8. ASSUME NEW p \in Processes, Restart(p) \/ Crash(p) \/ Redeploy(p) PROVE P(p)'
  BY <1>0, <1>4, <1>8 DEF Restart, Crash, Redeploy, Goto, TypeOK
\* A restart of the broker ends a process, or leaves it where it is.
<1>11. ASSUME NEW p \in Processes, BrokerRestarts PROVE P(p)'
  BY <1>3, <1>4, <1>11 DEF BrokerRestarts
<1>9. \A p \in Processes :
         \/ pc'[p] = pc[p] /\ cursor'[p] = cursor[p] /\ settings'[p] = settings[p]
         \/ DeclareExchanges(p) \/ DeclareQueue(p) \/ BindQueue(p) \/ Restart(p) \/ Crash(p) \/ Redeploy(p)
         \/ BrokerRestarts
  BY <1>0, NextCases
     DEF DeclareExchanges, DeclareQueue, BindQueue, Restart, Crash, Redeploy, Publish,
       Acknowledge, SendOn, Expire, vars, processes, Goto, TypeOK
<1>10. \A p \in Processes : P(p)'
  BY <1>3, <1>5, <1>6, <1>7, <1>8, <1>9, <1>11
<1> QED
  BY <1>10 DEF PlanInv

LEMMA Invariance == Spec => []IInv
<1>1. IInv /\ [Next]_vars => IInv'
  BY TypeStep, PlanStep, TtlStep, MessageStep DEF IInv
<1> QED
  BY <1>1, InitIInv, PTL DEF Spec

-----------------------------------------------------------------------------
\* Broker, processes and messages keep their types.
THEOREM TypeCorrect == Spec => []TypeOK
<1>1. IInv => TypeOK
  BY DEF IInv
<1> QED
  BY <1>1, Invariance, PTL

\* setup.py:3-5: no message is dropped for want of an exchange, a queue or a
\* binding, whatever the settings of the processes and their restarts.
THEOREM MessagesKeepTheirQueues == Spec => []NothingLost
<1>1. IInv => NothingLost
  BY DEF IInv
<1> QED
  BY <1>1, Invariance, PTL

\* docker-compose.yml, comment at MAX_RETRIES: whoever runs agrees on the delays.
THEOREM RunningAgree == Spec => []SettingsAgree
<1>1. IInv => SettingsAgree
  <2> SUFFICES ASSUME IInv, NEW p \in Processes, NEW q \in Processes,
                      pc[p] = "running", pc[q] = "running", NEW n \in 1..settings[p].retries
               PROVE  /\ <<Retry(n), Delay(settings[p], n)>> \in queues
                      /\ n <= settings[q].retries => Delay(settings[p], n) = Delay(settings[q], n)
    BY DEF SettingsAgree
  <2>1. \A x \in Processes, k \in Nat :
            pc[x] = "running" /\ k \in 1..settings[x].retries =>
                <<Retry(k), Delay(settings[x], k)>> \in queues
    <3> SUFFICES ASSUME NEW x \in Processes, NEW k \in Nat,
                        pc[x] = "running", k \in 1..settings[x].retries
                 PROVE  <<Retry(k), Delay(settings[x], k)>> \in queues
      OBVIOUS
    <3>1. Retry(k) \in Plan(settings[x])
      BY DEF Plan
    <3>2. <<Retry(k), Ttl(settings[x], Retry(k))>> \in queues
      BY <3>1 DEF IInv, PlanInv, Declared
    <3>3. Ttl(settings[x], Retry(k)) = Delay(settings[x], k)
      BY DEF Ttl, Retry
    <3> QED
      BY <3>2, <3>3
  <2>2. settings[q].retries \in Nat /\ settings[p].retries \in Nat
    BY SettingsAssumption DEF IInv, TypeOK
  <2>3. n <= settings[q].retries => <<Retry(n), Delay(settings[q], n)>> \in queues
    BY <2>1, <2>2
  <2>4. <<Retry(n), Delay(settings[p], n)>> \in queues
    BY <2>1, <2>2
  <2> QED
    BY <2>3, <2>4 DEF IInv, OneTtl
<1> QED
  BY <1>1, Invariance, PTL

=============================================================================

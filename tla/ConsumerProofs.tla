--------------------------- MODULE ConsumerProofs ---------------------------
(***************************************************************************)
(* Theorems about Consumer, for any payments, handlers, number of retries  *)
(* and fault budget.                                                       *)
(***************************************************************************)
EXTENDS Consumer, FiniteSetTheorems, TLAPS

Labels == {"idle", "finalize", "charging", "commitCharge", "deliver",
           "sending", "commitDelivery", "route", "ack", "nack"}

Transaction1 == {"charging", "commitCharge"}
Transaction2 == {"sending", "commitDelivery"}

\* What a handler's label says of its message and its local result.
LocalInv ==
    \A h \in Handlers :
        /\ pc[h] = "idle" => ~unacked[h]
        /\ pc[h] # "idle" => msg[h] \in Messages
        /\ pc[h] \in Transaction1 \cup Transaction2 \cup {"deliver"} => P(h) \in Stored
        /\ pc[h] \in Transaction2 => P(h) \in WithWebhook
        /\ pc[h] = "commitCharge" => res[h] \in Final
        /\ pc[h] = "commitDelivery" => res[h] \in Verdicts \cup {"ok"}
        /\ pc[h] = "route" => res[h] \in Verdicts

\* The lock and what is known of the row under it.  A handler past its first
\* transaction has seen, or made, the outcome final.
LockInv ==
    /\ \A h \in Handlers, p \in Stored :
          Holds(h, p) => P(h) = p /\ pc[h] \in Transaction1 \cup Transaction2
    /\ \A h \in Handlers :
          /\ pc[h] \in Transaction1 /\ Holds(h, P(h)) => status[P(h)] = "pending"
          /\ pc[h] \in Transaction2 \cup {"deliver"} => status[P(h)] # "pending"

IInv == TypeOK /\ LocalInv /\ LockInv

LEMMA ClassifyOutcome ==
    ASSUME NEW answer \in Nat
    PROVE  /\ Classify(answer) \in Verdicts \cup {"ok"}
           /\ Classify(answer) = "ok" <=> answer \in 200..299
           /\ Classify(answer) = "permanent" <=> ~(answer \in 200..299 \/ answer >= 500
                                                   \/ answer \in {408, 429})
BY DEF Classify, RetryableStatusCodes, Verdicts

\* A request has one of three outcomes; what each of them leaves behind.
LEMMA SendOutcome ==
    ASSUME TypeOK, NEW h \in Handlers, P(h) \in Stored, Send(h)
    PROVE  \E outcome \in Verdicts \cup {"ok"} :
              /\ res' = [res EXCEPT ![h] = outcome]
              /\ heard' = IF outcome = "ok" THEN [heard EXCEPT ![P(h)] = @ + 1] ELSE heard
              /\ \/ told' = [told EXCEPT ![P(h)] = @ \cup {status[P(h)]}]
                 \/ outcome = "transient" /\ UNCHANGED told
              /\ unheard' \in [Stored -> Nat]
              /\ refused' \in [Stored -> BOOLEAN]
              /\ \A p \in Stored : refused[p] => refused'[p]
              /\ outcome = "permanent" => refused'[P(h)]
<1>1. CASE NoAnswer(h)
  <2>1. "transient" \in Verdicts \cup {"ok"}
    BY DEF Verdicts
  <2>2. unheard' \in [Stored -> Nat]
    BY <1>1 DEF NoAnswer, TypeOK
  <2>3. refused' = refused /\ refused \in [Stored -> BOOLEAN]
    BY <1>1 DEF NoAnswer, TypeOK
  <2> QED
    BY <1>1, <2>1, <2>2, <2>3 DEF NoAnswer, Read
<1>2. ASSUME NEW answer \in Answers, Answered(h, answer)
      PROVE  \E outcome \in Verdicts \cup {"ok"} :
                /\ res' = [res EXCEPT ![h] = outcome]
                /\ heard' = IF outcome = "ok" THEN [heard EXCEPT ![P(h)] = @ + 1] ELSE heard
                /\ told' = [told EXCEPT ![P(h)] = @ \cup {status[P(h)]}]
                /\ unheard' \in [Stored -> Nat]
                /\ refused' \in [Stored -> BOOLEAN]
                /\ \A p \in Stored : refused[p] => refused'[p]
                /\ outcome = "permanent" => refused'[P(h)]
  <2>1. answer \in 200..599
    BY AnswersAssumption
  <2>2. /\ Classify(answer) \in Verdicts \cup {"ok"}
        /\ Classify(answer) = "ok" <=> answer \in 200..299
        /\ Classify(answer) = "permanent" => ~(answer \in 200..299 \/ Passing(answer))
    BY <2>1, ClassifyOutcome DEF Passing
  <2>3. DEFINE final == ~(answer \in 200..299 \/ Passing(answer))
  <2>4. refused' = [refused EXCEPT ![P(h)] = refused[P(h)] \/ final]
    BY <1>2 DEF Answered
  <2>5. refused \in [Stored -> BOOLEAN]
    BY DEF TypeOK
  <2>6. /\ refused' \in [Stored -> BOOLEAN]
        /\ \A p \in Stored : refused[p] => refused'[p]
        /\ final => refused'[P(h)]
    <3> HIDE DEF final
    <3> QED
      BY <2>4, <2>5, Zenon
  <2> QED
    BY <1>2, <2>2, <2>6 DEF Answered, Read, TypeOK
<1> QED
  BY <1>1, <1>2 DEF Send

LEMMA InitIInv == Init => IInv
<1> SUFFICES ASSUME Init PROVE IInv
  OBVIOUS
<1>1. TypeOK
  BY BudgetAssumption DEF Init, TypeOK, Status, Final, Verdicts
<1>2. LocalInv
  BY DEF Init, LocalInv, Transaction1, Transaction2
<1>3. LockInv
  BY NoneAssumption DEF Init, LockInv, Holds, Transaction1, Transaction2
<1> QED
  BY <1>1, <1>2, <1>3 DEF IInv

LEMMA TypeStep == IInv /\ [Next]_vars => TypeOK'
<1> SUFFICES ASSUME IInv, [Next]_vars PROVE TypeOK'
  OBVIOUS
<1> USE DEF IInv, TypeOK, Goto, Raise, Finish, Release, Acquire, Requeue, Spend,
            broker, row, gate, client
<1>1. ASSUME NEW b \in Bodies, Publish(b) PROVE TypeOK'
  <2>1. [body |-> b, attempt |-> 0] \in Messages
    BY <1>1, MaxRetriesAssumption DEF Messages
  <2> QED
    BY <1>1, <2>1 DEF Publish, Faults
<1>2. ASSUME NEW m \in Messages, Expire(m) PROVE TypeOK'
  BY <1>2 DEF Expire
<1>3. ASSUME NEW h \in Handlers, NEW m \in Messages, Receive(h, m) PROVE TypeOK'
  BY <1>3 DEF Receive, Verdicts
<1>4. ASSUME NEW h \in Handlers, NotFound(h) PROVE TypeOK'
  BY <1>4 DEF NotFound, Verdicts
<1>5. ASSUME NEW h \in Handlers, AlreadyFinal(h) PROVE TypeOK'
  BY <1>5 DEF AlreadyFinal
<1>6. ASSUME NEW h \in Handlers, LockPending(h) PROVE TypeOK'
  BY <1>6 DEF LockPending
<1>7. ASSUME NEW h \in Handlers, Charge(h) PROVE TypeOK'
  BY <1>7 DEF Charge, LocalInv, Transaction1
<1>8. ASSUME NEW h \in Handlers, CommitCharge(h) PROVE TypeOK'
  BY <1>8 DEF CommitCharge, RecordCharge, LocalInv, Status, Final
<1>9. ASSUME NEW h \in Handlers, CommitChargeFails(h) PROVE TypeOK'
  BY <1>9 DEF CommitChargeFails, RecordCharge, LocalInv, Status, Final, Verdicts, Faults
<1>10. ASSUME NEW h \in Handlers, NothingToSend(h) PROVE TypeOK'
  BY <1>10 DEF NothingToSend
<1>11. ASSUME NEW h \in Handlers, LockForDelivery(h) PROVE TypeOK'
  BY <1>11 DEF LockForDelivery
<1>12. ASSUME NEW h \in Handlers, Send(h) PROVE TypeOK'
  <2>1. P(h) \in Stored
    BY <1>12 DEF Send, LocalInv, Transaction2
  <2>2. PICK outcome \in Verdicts \cup {"ok"} :
           /\ res' = [res EXCEPT ![h] = outcome]
           /\ heard' = IF outcome = "ok" THEN [heard EXCEPT ![P(h)] = @ + 1] ELSE heard
           /\ \/ told' = [told EXCEPT ![P(h)] = @ \cup {status[P(h)]}]
              \/ outcome = "transient" /\ UNCHANGED told
           /\ unheard' \in [Stored -> Nat]
           /\ refused' \in [Stored -> BOOLEAN]
    BY <1>12, <2>1, SendOutcome
  <2>3. /\ pc' = [pc EXCEPT ![h] = "commitDelivery"]
        /\ posts' = [posts EXCEPT ![P(h)] = @ + 1]
        /\ UNCHANGED <<broker, row, lock, msg, budget, published, gate>>
    BY <1>12 DEF Send
  <2> QED
    BY <2>1, <2>2, <2>3
<1>13. ASSUME NEW h \in Handlers, CommitDelivery(h) PROVE TypeOK'
  BY <1>13 DEF CommitDelivery, RecordDelivery, LocalInv, Transaction2
<1>14. ASSUME NEW h \in Handlers, CommitDeliveryFails(h) PROVE TypeOK'
  <2>1. RecordDelivery(h) \/ UNCHANGED row
    BY <1>14 DEF CommitDeliveryFails
  <2>2. budget' \in [Faults -> Nat]
    BY <1>14 DEF CommitDeliveryFails, Faults
  <2>3. /\ status' \in [Stored -> Status]
        /\ attempts' \in [Stored -> Nat]
        /\ lastError' \in [Stored -> BOOLEAN]
        /\ delivered' \in [Stored -> BOOLEAN]
    <3>1. P(h) \in Stored
      BY <1>14 DEF CommitDeliveryFails, LocalInv, Transaction2
    <3>2. CASE RecordDelivery(h)
      BY <3>1, <3>2 DEF RecordDelivery
    <3>3. CASE UNCHANGED row
      BY <3>3
    <3> QED
      BY <2>1, <3>2, <3>3
  <2>4. Release(h)
    BY <1>14 DEF CommitDeliveryFails
  <2>5. Raise(h, "transient")
    BY <1>14 DEF CommitDeliveryFails
  <2>6. UNCHANGED <<broker, msg, published, gate, client>>
    BY <1>14 DEF CommitDeliveryFails
  <2> QED
    BY <2>2, <2>3, <2>4, <2>5, <2>6 DEF Verdicts
<1>15. ASSUME NEW h \in Handlers, Route(h) PROVE TypeOK'
  BY <1>15 DEF Route, Forward
<1>16. ASSUME NEW h \in Handlers, RouteFails(h) PROVE TypeOK'
  BY <1>16 DEF RouteFails, Forward, Faults
<1>17. ASSUME NEW h \in Handlers, Ack(h) PROVE TypeOK'
  BY <1>17 DEF Ack
<1>18. ASSUME NEW h \in Handlers, AckFails(h) PROVE TypeOK'
  BY <1>18 DEF AckFails, Faults
<1>19. ASSUME NEW h \in Handlers, Nack(h) PROVE TypeOK'
  BY <1>19 DEF Nack, LocalInv
<1>20. ASSUME NEW h \in Handlers, SelectFails(h) PROVE TypeOK'
  BY <1>20 DEF SelectFails, Verdicts, Faults
<1>21. ASSUME NEW h \in Handlers, SessionLost(h) PROVE TypeOK'
  BY <1>21 DEF SessionLost, LocalInv, Transaction1, Transaction2, Charged, Faults
<1>22. ASSUME NEW h \in Handlers, ChannelLost(h) PROVE TypeOK'
  BY <1>22 DEF ChannelLost, LocalInv, Faults
<1>23. ASSUME NEW h \in Handlers, Crash(h) PROVE TypeOK'
  BY <1>23 DEF Crash, LocalInv, Charged, Transaction1, Faults
<1>24. CASE UNCHANGED vars
  BY <1>24 DEF vars
<1> QED
  BY <1>1, <1>2, <1>3, <1>4, <1>5, <1>6, <1>7, <1>8, <1>9, <1>10, <1>11, <1>12,
     <1>13, <1>14, <1>15, <1>16, <1>17, <1>18, <1>19, <1>20, <1>21, <1>22, <1>23, <1>24
     DEF Next, Step, Fault, Waiting

LEMMA LocalStep == IInv /\ [Next]_vars => LocalInv'
<1> SUFFICES ASSUME IInv, [Next]_vars PROVE LocalInv'
  OBVIOUS
<1> USE DEF IInv, TypeOK, LocalInv, Transaction1, Transaction2, P, RowFree, IsPending, Goto,
            Raise, Finish, Requeue, broker
<1>1. ASSUME NEW b \in Bodies, Publish(b) PROVE LocalInv'
  BY <1>1 DEF Publish
<1>2. ASSUME NEW m \in Messages, Expire(m) PROVE LocalInv'
  BY <1>2 DEF Expire
<1>3. ASSUME NEW h \in Handlers, NEW m \in Messages, Receive(h, m) PROVE LocalInv'
  BY <1>3 DEF Receive, Verdicts, Messages, Bodies
<1>4. ASSUME NEW h \in Handlers, NotFound(h) PROVE LocalInv'
  BY <1>4 DEF NotFound, Verdicts
<1>5. ASSUME NEW h \in Handlers, AlreadyFinal(h) PROVE LocalInv'
  BY <1>5 DEF AlreadyFinal
<1>6. ASSUME NEW h \in Handlers, LockPending(h) PROVE LocalInv'
  BY <1>6 DEF LockPending
<1>7. ASSUME NEW h \in Handlers, Charge(h) PROVE LocalInv'
  BY <1>7 DEF Charge
<1>8. ASSUME NEW h \in Handlers, CommitCharge(h) PROVE LocalInv'
  BY <1>8 DEF CommitCharge
<1>9. ASSUME NEW h \in Handlers, CommitChargeFails(h) PROVE LocalInv'
  BY <1>9 DEF CommitChargeFails, Verdicts
<1>10. ASSUME NEW h \in Handlers, NothingToSend(h) PROVE LocalInv'
  BY <1>10 DEF NothingToSend
<1>11. ASSUME NEW h \in Handlers, LockForDelivery(h) PROVE LocalInv'
  BY <1>11 DEF LockForDelivery
<1>12. ASSUME NEW h \in Handlers, Send(h) PROVE LocalInv'
  <2>1. P(h) \in Stored /\ P(h) \in WithWebhook /\ pc[h] = "sending"
    BY <1>12 DEF Send
  <2>2. PICK outcome \in Verdicts \cup {"ok"} : res' = [res EXCEPT ![h] = outcome]
    BY <1>12, <2>1, SendOutcome
  <2>3. UNCHANGED <<broker, msg>> /\ pc' = [pc EXCEPT ![h] = "commitDelivery"]
    BY <1>12 DEF Send
  <2> QED
    BY <2>1, <2>2, <2>3
<1>13. ASSUME NEW h \in Handlers, CommitDelivery(h) PROVE LocalInv'
  BY <1>13 DEF CommitDelivery
<1>14. ASSUME NEW h \in Handlers, CommitDeliveryFails(h) PROVE LocalInv'
  BY <1>14 DEF CommitDeliveryFails, Verdicts
<1>15. ASSUME NEW h \in Handlers, Route(h) PROVE LocalInv'
  BY <1>15 DEF Route
<1>16. ASSUME NEW h \in Handlers, RouteFails(h) PROVE LocalInv'
  BY <1>16 DEF RouteFails
<1>17. ASSUME NEW h \in Handlers, Ack(h) PROVE LocalInv'
  BY <1>17 DEF Ack
<1>18. ASSUME NEW h \in Handlers, AckFails(h) PROVE LocalInv'
  BY <1>18 DEF AckFails
<1>19. ASSUME NEW h \in Handlers, Nack(h) PROVE LocalInv'
  BY <1>19 DEF Nack
<1>20. ASSUME NEW h \in Handlers, SelectFails(h) PROVE LocalInv'
  BY <1>20 DEF SelectFails, Verdicts
<1>21. ASSUME NEW h \in Handlers, SessionLost(h) PROVE LocalInv'
  BY <1>21 DEF SessionLost
<1>22. ASSUME NEW h \in Handlers, ChannelLost(h) PROVE LocalInv'
  BY <1>22 DEF ChannelLost
<1>23. ASSUME NEW h \in Handlers, Crash(h) PROVE LocalInv'
  BY <1>23 DEF Crash
<1>24. CASE UNCHANGED vars
  BY <1>24 DEF vars
<1> QED
  BY <1>1, <1>2, <1>3, <1>4, <1>5, <1>6, <1>7, <1>8, <1>9, <1>10, <1>11, <1>12,
     <1>13, <1>14, <1>15, <1>16, <1>17, <1>18, <1>19, <1>20, <1>21, <1>22, <1>23, <1>24
     DEF Next, Step, Fault, Waiting

LEMMA LockStep == IInv /\ [Next]_vars => LockInv'
<1> SUFFICES ASSUME IInv, [Next]_vars PROVE LockInv'
  OBVIOUS
<1> USE DEF IInv, TypeOK, LocalInv, LockInv, Transaction1, Transaction2, P, Holds, RowFree,
            IsPending, Goto, Raise, Finish, Release, Acquire, Requeue, broker, row
<1>1. ASSUME NEW b \in Bodies, Publish(b) PROVE LockInv'
  BY <1>1 DEF Publish
<1>2. ASSUME NEW m \in Messages, Expire(m) PROVE LockInv'
  BY <1>2 DEF Expire
<1>3. ASSUME NEW h \in Handlers, NEW m \in Messages, Receive(h, m) PROVE LockInv'
  BY <1>3, NoneAssumption DEF Receive
<1>4. ASSUME NEW h \in Handlers, NotFound(h) PROVE LockInv'
  BY <1>4, NoneAssumption DEF NotFound
<1>5. ASSUME NEW h \in Handlers, AlreadyFinal(h) PROVE LockInv'
  BY <1>5, NoneAssumption DEF AlreadyFinal
<1>6. ASSUME NEW h \in Handlers, LockPending(h) PROVE LockInv'
  BY <1>6, NoneAssumption DEF LockPending
<1>7. ASSUME NEW h \in Handlers, Charge(h) PROVE LockInv'
  BY <1>7, NoneAssumption DEF Charge
<1>8. ASSUME NEW h \in Handlers, CommitCharge(h) PROVE LockInv'
  BY <1>8, NoneAssumption DEF CommitCharge, RecordCharge, Final
<1>9. ASSUME NEW h \in Handlers, CommitChargeFails(h) PROVE LockInv'
  BY <1>9, NoneAssumption DEF CommitChargeFails, RecordCharge, Final
<1>10. ASSUME NEW h \in Handlers, NothingToSend(h) PROVE LockInv'
  BY <1>10, NoneAssumption DEF NothingToSend
<1>11. ASSUME NEW h \in Handlers, LockForDelivery(h) PROVE LockInv'
  BY <1>11, NoneAssumption DEF LockForDelivery
<1>12. ASSUME NEW h \in Handlers, Send(h) PROVE LockInv'
  BY <1>12, NoneAssumption DEF Send
<1>13. ASSUME NEW h \in Handlers, CommitDelivery(h) PROVE LockInv'
  BY <1>13, NoneAssumption DEF CommitDelivery, RecordDelivery
<1>14. ASSUME NEW h \in Handlers, CommitDeliveryFails(h) PROVE LockInv'
  BY <1>14, NoneAssumption DEF CommitDeliveryFails, RecordDelivery
<1>15. ASSUME NEW h \in Handlers, Route(h) PROVE LockInv'
  BY <1>15, NoneAssumption DEF Route
<1>16. ASSUME NEW h \in Handlers, RouteFails(h) PROVE LockInv'
  BY <1>16, NoneAssumption DEF RouteFails
<1>17. ASSUME NEW h \in Handlers, Ack(h) PROVE LockInv'
  BY <1>17, NoneAssumption DEF Ack
<1>18. ASSUME NEW h \in Handlers, AckFails(h) PROVE LockInv'
  BY <1>18, NoneAssumption DEF AckFails
<1>19. ASSUME NEW h \in Handlers, Nack(h) PROVE LockInv'
  BY <1>19, NoneAssumption DEF Nack
<1>20. ASSUME NEW h \in Handlers, SelectFails(h) PROVE LockInv'
  BY <1>20, NoneAssumption DEF SelectFails
<1>21. ASSUME NEW h \in Handlers, SessionLost(h) PROVE LockInv'
  BY <1>21, NoneAssumption DEF SessionLost
<1>22. ASSUME NEW h \in Handlers, ChannelLost(h) PROVE LockInv'
  BY <1>22, NoneAssumption DEF ChannelLost
<1>23. ASSUME NEW h \in Handlers, Crash(h) PROVE LockInv'
  BY <1>23, NoneAssumption DEF Crash
<1>24. CASE UNCHANGED vars
  BY <1>24 DEF vars
<1> QED
  BY <1>1, <1>2, <1>3, <1>4, <1>5, <1>6, <1>7, <1>8, <1>9, <1>10, <1>11, <1>12,
     <1>13, <1>14, <1>15, <1>16, <1>17, <1>18, <1>19, <1>20, <1>21, <1>22, <1>23, <1>24
     DEF Next, Step, Fault, Waiting

LEMMA Inductive == IInv /\ [Next]_vars => IInv'
BY TypeStep, LocalStep, LockStep DEF IInv

LEMMA Invariance == Spec => []IInv
<1>1. Init => IInv
  BY InitIInv
<1>2. IInv /\ [Next]_vars => IInv'
  BY Inductive
<1> QED
  BY <1>1, <1>2, PTL DEF Spec

\* Every variable keeps its type.
THEOREM TypeCorrect == Spec => []TypeOK
<1>1. IInv => TypeOK
  BY DEF IInv
<1> QED
  BY <1>1, Invariance, PTL

-----------------------------------------------------------------------------
(* The answers of the gateway. *)

LEMMA ChargeStep == IInv /\ ChargeAccounting /\ [Next]_vars => ChargeAccounting'
<1> SUFFICES ASSUME IInv /\ ChargeAccounting, [Next]_vars PROVE ChargeAccounting'
  OBVIOUS
<1> USE DEF IInv, TypeOK, LocalInv, LockInv, Transaction1, Transaction2, P, Holds, RowFree,
            IsPending, Goto, Raise, Finish, Release, Acquire, Requeue, broker, row, gate,
            client, ChargeAccounting, AnswerAwaitsCommit, Charged
<1>1. ASSUME NEW b \in Bodies, Publish(b) PROVE ChargeAccounting'
  BY <1>1 DEF Publish
<1>2. ASSUME NEW m \in Messages, Expire(m) PROVE ChargeAccounting'
  BY <1>2 DEF Expire
<1>3. ASSUME NEW h \in Handlers, NEW m \in Messages, Receive(h, m) PROVE ChargeAccounting'
  BY <1>3, NoneAssumption DEF Receive
<1>4. ASSUME NEW h \in Handlers, NotFound(h) PROVE ChargeAccounting'
  BY <1>4, NoneAssumption DEF NotFound
<1>5. ASSUME NEW h \in Handlers, AlreadyFinal(h) PROVE ChargeAccounting'
  BY <1>5, NoneAssumption DEF AlreadyFinal
<1>6. ASSUME NEW h \in Handlers, LockPending(h) PROVE ChargeAccounting'
  BY <1>6, NoneAssumption DEF LockPending
<1>7. ASSUME NEW h \in Handlers, Charge(h) PROVE ChargeAccounting'
  BY <1>7, NoneAssumption DEF Charge
<1>8. ASSUME NEW h \in Handlers, CommitCharge(h) PROVE ChargeAccounting'
  BY <1>8, NoneAssumption DEF CommitCharge, RecordCharge, Final
<1>9. ASSUME NEW h \in Handlers, CommitChargeFails(h) PROVE ChargeAccounting'
  BY <1>9, NoneAssumption DEF CommitChargeFails, RecordCharge, Final
<1>10. ASSUME NEW h \in Handlers, NothingToSend(h) PROVE ChargeAccounting'
  BY <1>10, NoneAssumption DEF NothingToSend
<1>11. ASSUME NEW h \in Handlers, LockForDelivery(h) PROVE ChargeAccounting'
  BY <1>11, NoneAssumption DEF LockForDelivery
<1>12. ASSUME NEW h \in Handlers, Send(h) PROVE ChargeAccounting'
  BY <1>12, NoneAssumption DEF Send
<1>13. ASSUME NEW h \in Handlers, CommitDelivery(h) PROVE ChargeAccounting'
  BY <1>13, NoneAssumption DEF CommitDelivery, RecordDelivery
<1>14. ASSUME NEW h \in Handlers, CommitDeliveryFails(h) PROVE ChargeAccounting'
  BY <1>14, NoneAssumption DEF CommitDeliveryFails, RecordDelivery
<1>15. ASSUME NEW h \in Handlers, Route(h) PROVE ChargeAccounting'
  BY <1>15, NoneAssumption DEF Route
<1>16. ASSUME NEW h \in Handlers, RouteFails(h) PROVE ChargeAccounting'
  BY <1>16, NoneAssumption DEF RouteFails
<1>17. ASSUME NEW h \in Handlers, Ack(h) PROVE ChargeAccounting'
  BY <1>17, NoneAssumption DEF Ack
<1>18. ASSUME NEW h \in Handlers, AckFails(h) PROVE ChargeAccounting'
  BY <1>18, NoneAssumption DEF AckFails
<1>19. ASSUME NEW h \in Handlers, Nack(h) PROVE ChargeAccounting'
  BY <1>19, NoneAssumption DEF Nack
<1>20. ASSUME NEW h \in Handlers, SelectFails(h) PROVE ChargeAccounting'
  BY <1>20, NoneAssumption DEF SelectFails
<1>21. ASSUME NEW h \in Handlers, SessionLost(h) PROVE ChargeAccounting'
  BY <1>21, NoneAssumption DEF SessionLost
<1>22. ASSUME NEW h \in Handlers, ChannelLost(h) PROVE ChargeAccounting'
  BY <1>22, NoneAssumption DEF ChannelLost
<1>23. ASSUME NEW h \in Handlers, Crash(h) PROVE ChargeAccounting'
  BY <1>23, NoneAssumption DEF Crash
<1>24. CASE UNCHANGED vars
  BY <1>24 DEF vars
<1> QED
  BY <1>1, <1>2, <1>3, <1>4, <1>5, <1>6, <1>7, <1>8, <1>9, <1>10, <1>11, <1>12,
     <1>13, <1>14, <1>15, <1>16, <1>17, <1>18, <1>19, <1>20, <1>21, <1>22, <1>23, <1>24
     DEF Next, Step, Fault, Waiting


\* processor.py:60-64: a payment is charged again only after a fault that hit
\* between the answer of the gateway and its commit.
THEOREM GatewayAccounted == Spec => []ChargeAccounting
<1>1. Init => ChargeAccounting
  BY DEF Init, ChargeAccounting, AnswerAwaitsCommit
<1>2. IInv /\ ChargeAccounting /\ [Next]_vars => ChargeAccounting'
  BY ChargeStep
<1> QED
  BY <1>1, <1>2, Invariance, PTL DEF Spec
-----------------------------------------------------------------------------
(* What the client is told. *)

LEMMA AgreesStep == IInv /\ WebhookAgrees /\ [Next]_vars => WebhookAgrees'
<1> SUFFICES ASSUME IInv /\ WebhookAgrees, [Next]_vars PROVE WebhookAgrees'
  OBVIOUS
<1> USE DEF IInv, TypeOK, LocalInv, LockInv, Transaction1, Transaction2, P, Holds, RowFree,
            IsPending, Goto, Raise, Finish, Release, Acquire, Requeue, broker, row, gate,
            client, WebhookAgrees
<1>1. ASSUME NEW b \in Bodies, Publish(b) PROVE WebhookAgrees'
  BY <1>1 DEF Publish
<1>2. ASSUME NEW m \in Messages, Expire(m) PROVE WebhookAgrees'
  BY <1>2 DEF Expire
<1>3. ASSUME NEW h \in Handlers, NEW m \in Messages, Receive(h, m) PROVE WebhookAgrees'
  BY <1>3 DEF Receive
<1>4. ASSUME NEW h \in Handlers, NotFound(h) PROVE WebhookAgrees'
  BY <1>4 DEF NotFound
<1>5. ASSUME NEW h \in Handlers, AlreadyFinal(h) PROVE WebhookAgrees'
  BY <1>5 DEF AlreadyFinal
<1>6. ASSUME NEW h \in Handlers, LockPending(h) PROVE WebhookAgrees'
  BY <1>6 DEF LockPending
<1>7. ASSUME NEW h \in Handlers, Charge(h) PROVE WebhookAgrees'
  BY <1>7 DEF Charge
<1>8. ASSUME NEW h \in Handlers, CommitCharge(h) PROVE WebhookAgrees'
  BY <1>8 DEF CommitCharge, RecordCharge, Final
<1>9. ASSUME NEW h \in Handlers, CommitChargeFails(h) PROVE WebhookAgrees'
  BY <1>9 DEF CommitChargeFails, RecordCharge, Final
<1>10. ASSUME NEW h \in Handlers, NothingToSend(h) PROVE WebhookAgrees'
  BY <1>10 DEF NothingToSend
<1>11. ASSUME NEW h \in Handlers, LockForDelivery(h) PROVE WebhookAgrees'
  BY <1>11 DEF LockForDelivery
<1>12. ASSUME NEW h \in Handlers, Send(h) PROVE WebhookAgrees'
  <2>1. P(h) \in Stored /\ pc[h] = "sending" /\ UNCHANGED row
    BY <1>12 DEF Send
  <2>2. told' = told \/ told' = [told EXCEPT ![P(h)] = @ \cup {status[P(h)]}]
    BY <1>12, <2>1, SendOutcome
  <2> QED
    BY <2>1, <2>2
<1>13. ASSUME NEW h \in Handlers, CommitDelivery(h) PROVE WebhookAgrees'
  BY <1>13 DEF CommitDelivery, RecordDelivery
<1>14. ASSUME NEW h \in Handlers, CommitDeliveryFails(h) PROVE WebhookAgrees'
  BY <1>14 DEF CommitDeliveryFails, RecordDelivery
<1>15. ASSUME NEW h \in Handlers, Route(h) PROVE WebhookAgrees'
  BY <1>15 DEF Route
<1>16. ASSUME NEW h \in Handlers, RouteFails(h) PROVE WebhookAgrees'
  BY <1>16 DEF RouteFails
<1>17. ASSUME NEW h \in Handlers, Ack(h) PROVE WebhookAgrees'
  BY <1>17 DEF Ack
<1>18. ASSUME NEW h \in Handlers, AckFails(h) PROVE WebhookAgrees'
  BY <1>18 DEF AckFails
<1>19. ASSUME NEW h \in Handlers, Nack(h) PROVE WebhookAgrees'
  BY <1>19 DEF Nack
<1>20. ASSUME NEW h \in Handlers, SelectFails(h) PROVE WebhookAgrees'
  BY <1>20 DEF SelectFails
<1>21. ASSUME NEW h \in Handlers, SessionLost(h) PROVE WebhookAgrees'
  BY <1>21 DEF SessionLost
<1>22. ASSUME NEW h \in Handlers, ChannelLost(h) PROVE WebhookAgrees'
  BY <1>22 DEF ChannelLost
<1>23. ASSUME NEW h \in Handlers, Crash(h) PROVE WebhookAgrees'
  BY <1>23 DEF Crash
<1>24. CASE UNCHANGED vars
  BY <1>24 DEF vars
<1> QED
  BY <1>1, <1>2, <1>3, <1>4, <1>5, <1>6, <1>7, <1>8, <1>9, <1>10, <1>11, <1>12,
     <1>13, <1>14, <1>15, <1>16, <1>17, <1>18, <1>19, <1>20, <1>21, <1>22, <1>23, <1>24
     DEF Next, Step, Fault, Waiting


\* processor.py:60-62: the client hears of the final, durable outcome only.
THEOREM ClientAgrees == Spec => []WebhookAgrees
<1>1. Init => WebhookAgrees
  BY DEF Init, WebhookAgrees
<1>2. IInv /\ WebhookAgrees /\ [Next]_vars => WebhookAgrees'
  BY AgreesStep
<1> QED
  BY <1>1, <1>2, Invariance, PTL DEF Spec

\* The webhook side: an answer to commit stands for a request that reached the
\* client, and the holder of the lock has not been overtaken.
DeliveryInv ==
    /\ \A h \in Handlers :
          /\ pc[h] = "commitDelivery" /\ res[h] = "ok"
                => told[P(h)] # {} /\ heard[P(h)] > 0
          /\ pc[h] \in Transaction2 /\ Holds(h, P(h)) => ~delivered[P(h)]
    /\ DeliveredConsistent

LEMMA DeliveryStep == IInv /\ DeliveryInv /\ [Next]_vars => DeliveryInv'
<1> SUFFICES ASSUME IInv /\ DeliveryInv, [Next]_vars PROVE DeliveryInv'
  OBVIOUS
<1> USE DEF IInv, TypeOK, LocalInv, LockInv, Transaction1, Transaction2, P, Holds, RowFree,
            IsPending, Goto, Raise, Finish, Release, Acquire, Requeue, broker, row, gate,
            client, DeliveryInv, DeliveredConsistent
<1>1. ASSUME NEW b \in Bodies, Publish(b) PROVE DeliveryInv'
  BY <1>1 DEF Publish
<1>2. ASSUME NEW m \in Messages, Expire(m) PROVE DeliveryInv'
  BY <1>2 DEF Expire
<1>3. ASSUME NEW h \in Handlers, NEW m \in Messages, Receive(h, m) PROVE DeliveryInv'
  BY <1>3, NoneAssumption DEF Receive
<1>4. ASSUME NEW h \in Handlers, NotFound(h) PROVE DeliveryInv'
  BY <1>4, NoneAssumption DEF NotFound
<1>5. ASSUME NEW h \in Handlers, AlreadyFinal(h) PROVE DeliveryInv'
  BY <1>5, NoneAssumption DEF AlreadyFinal
<1>6. ASSUME NEW h \in Handlers, LockPending(h) PROVE DeliveryInv'
  BY <1>6, NoneAssumption DEF LockPending
<1>7. ASSUME NEW h \in Handlers, Charge(h) PROVE DeliveryInv'
  BY <1>7, NoneAssumption DEF Charge
<1>8. ASSUME NEW h \in Handlers, CommitCharge(h) PROVE DeliveryInv'
  BY <1>8, NoneAssumption DEF CommitCharge, RecordCharge, Final
<1>9. ASSUME NEW h \in Handlers, CommitChargeFails(h) PROVE DeliveryInv'
  BY <1>9, NoneAssumption DEF CommitChargeFails, RecordCharge, Final
<1>10. ASSUME NEW h \in Handlers, NothingToSend(h) PROVE DeliveryInv'
  BY <1>10, NoneAssumption DEF NothingToSend
<1>11. ASSUME NEW h \in Handlers, LockForDelivery(h) PROVE DeliveryInv'
  BY <1>11, NoneAssumption DEF LockForDelivery
<1>12. ASSUME NEW h \in Handlers, Send(h) PROVE DeliveryInv'
  <2>1. P(h) \in Stored /\ pc[h] = "sending"
    BY <1>12 DEF Send
  <2>2. PICK outcome \in Verdicts \cup {"ok"} :
           /\ res' = [res EXCEPT ![h] = outcome]
           /\ heard' = IF outcome = "ok" THEN [heard EXCEPT ![P(h)] = @ + 1] ELSE heard
           /\ \/ told' = [told EXCEPT ![P(h)] = @ \cup {status[P(h)]}]
              \/ outcome = "transient" /\ UNCHANGED told
    BY <1>12, <2>1, SendOutcome
  <2>7. /\ \A p \in Stored : told[p] # {} => told'[p] # {}
        /\ \A p \in Stored : heard[p] > 0 => heard'[p] > 0
    BY <2>1, <2>2
  <2>3. res'[h] = "ok" => told'[P(h)] # {} /\ heard'[P(h)] > 0
    <3>1. res'[h] = outcome
      BY <2>2
    <3>2. SUFFICES ASSUME outcome = "ok"
                   PROVE  told'[P(h)] # {} /\ heard'[P(h)] > 0
      BY <3>1
    <3>3. status[P(h)] \in told'[P(h)]
      BY <2>1, <2>2, <3>2 DEF Verdicts
    <3>4. heard'[P(h)] = heard[P(h)] + 1 /\ heard[P(h)] \in Nat
      BY <2>1, <2>2, <3>2
    <3> QED
      BY <3>3, <3>4
  <2>4. \A g \in Handlers \ {h} : pc'[g] = pc[g] /\ res'[g] = res[g]
    BY <1>12, <2>2 DEF Send
  <2>5. UNCHANGED <<row, lock, msg>>
    BY <1>12 DEF Send
  <2>6. \A g \in Handlers : pc'[g] \in Transaction2 => pc[g] \in Transaction2
    BY <2>1, <2>4
  <2> QED
    BY <2>1, <2>3, <2>4, <2>5, <2>6, <2>7
<1>13. ASSUME NEW h \in Handlers, CommitDelivery(h) PROVE DeliveryInv'
  BY <1>13, NoneAssumption DEF CommitDelivery, RecordDelivery
<1>14. ASSUME NEW h \in Handlers, CommitDeliveryFails(h) PROVE DeliveryInv'
  <2>1. CASE UNCHANGED row
    BY <1>14, <2>1, NoneAssumption DEF CommitDeliveryFails
  <2>2. CASE Holds(h, P(h)) /\ RecordDelivery(h)
    BY <1>14, <2>2, NoneAssumption DEF CommitDeliveryFails, RecordDelivery
  <2> QED
    BY <1>14, <2>1, <2>2 DEF CommitDeliveryFails
<1>15. ASSUME NEW h \in Handlers, Route(h) PROVE DeliveryInv'
  BY <1>15, NoneAssumption DEF Route
<1>16. ASSUME NEW h \in Handlers, RouteFails(h) PROVE DeliveryInv'
  BY <1>16, NoneAssumption DEF RouteFails
<1>17. ASSUME NEW h \in Handlers, Ack(h) PROVE DeliveryInv'
  BY <1>17, NoneAssumption DEF Ack
<1>18. ASSUME NEW h \in Handlers, AckFails(h) PROVE DeliveryInv'
  BY <1>18, NoneAssumption DEF AckFails
<1>19. ASSUME NEW h \in Handlers, Nack(h) PROVE DeliveryInv'
  BY <1>19, NoneAssumption DEF Nack
<1>20. ASSUME NEW h \in Handlers, SelectFails(h) PROVE DeliveryInv'
  BY <1>20, NoneAssumption DEF SelectFails
<1>21. ASSUME NEW h \in Handlers, SessionLost(h) PROVE DeliveryInv'
  BY <1>21, NoneAssumption DEF SessionLost
<1>22. ASSUME NEW h \in Handlers, ChannelLost(h) PROVE DeliveryInv'
  BY <1>22, NoneAssumption DEF ChannelLost
<1>23. ASSUME NEW h \in Handlers, Crash(h) PROVE DeliveryInv'
  BY <1>23, NoneAssumption DEF Crash
<1>24. CASE UNCHANGED vars
  BY <1>24 DEF vars
<1> QED
  BY <1>1, <1>2, <1>3, <1>4, <1>5, <1>6, <1>7, <1>8, <1>9, <1>10, <1>11, <1>12,
     <1>13, <1>14, <1>15, <1>16, <1>17, <1>18, <1>19, <1>20, <1>21, <1>22, <1>23, <1>24
     DEF Next, Step, Fault, Waiting


LEMMA DeliveryInvariance == Spec => []DeliveryInv
<1>1. Init => DeliveryInv
  BY DEF Init, DeliveryInv, DeliveredConsistent, Transaction2
<1>2. IInv /\ DeliveryInv /\ [Next]_vars => DeliveryInv'
  BY DeliveryStep
<1> QED
  BY <1>1, <1>2, Invariance, PTL DEF Spec

\* processor.py:120-129: a row that says "delivered" has a 2xx answer behind it
\* and no error on it.
THEOREM DeliveredIsConsistent == Spec => []DeliveredConsistent
<1>1. DeliveryInv => DeliveredConsistent
  BY DEF DeliveryInv
<1> QED
  BY <1>1, DeliveryInvariance, PTL

-----------------------------------------------------------------------------
(* No event is lost. *)

\* Publishing to a retry queue or to the DLQ takes nothing away and leaves a
\* copy of the event there.
LEMMA ForwardKeeps ==
    ASSUME IInv, NEW h \in Handlers, pc[h] = "route", Forward(h)
    PROVE  /\ \A m \in Messages : retry[m] > 0 => retry'[m] > 0
           /\ \A m \in Buried : dlq[m] > 0 => dlq'[m] > 0
           /\ \/ \E m \in Messages : m.body = P(h) /\ retry'[m] > 0
              \/ \E m \in Buried : m.body = P(h) /\ dlq'[m] > 0
<1>1. msg[h] \in Messages /\ res[h] \in Verdicts
  BY DEF IInv, LocalInv
<1>2. retry \in [Messages -> Nat] /\ dlq \in [Buried -> Nat]
  BY DEF IInv, TypeOK
<1> DEFINE grave == [body |-> P(h), attempt |-> msg[h].attempt, why |-> res[h]]
           again == [body |-> P(h), attempt |-> NextAttempt(h)]
<1>3. CASE /\ dlq' = [dlq EXCEPT ![grave] = @ + 1]
           /\ UNCHANGED retry
  <2>1. grave \in Buried /\ grave.body = P(h)
    BY <1>1 DEF Messages, Buried, P
  <2> QED
    BY <1>2, <1>3, <2>1
<1>4. CASE /\ ~Exhausted(h)
           /\ retry' = [retry EXCEPT ![again] = @ + 1]
           /\ UNCHANGED dlq
  <2>1. again \in Messages /\ again.body = P(h)
    BY <1>1, <1>4, MaxRetriesAssumption DEF Messages, P, Exhausted, NextAttempt
  <2> QED
    BY <1>2, <1>4, <2>1
<1> QED
  BY <1>3, <1>4 DEF Forward

LEMMA NoLossStep == IInv /\ NoLoss /\ [Next]_vars => NoLoss'
<1> SUFFICES ASSUME IInv /\ NoLoss, [Next]_vars PROVE NoLoss'
  OBVIOUS
<1> USE DEF IInv, TypeOK, LocalInv, LockInv, Transaction1, Transaction2, P, Holds, RowFree,
            IsPending, Goto, Raise, Finish, Release, Acquire, Requeue, broker, row, gate,
            client, NoLoss, Settled, Alive, InDlq
<1>1. ASSUME NEW b \in Bodies, Publish(b) PROVE NoLoss'
  <2> DEFINE new == [body |-> b, attempt |-> 0]
  <2>1. new \in Messages
    BY MaxRetriesAssumption DEF Messages
  <2>2. /\ ready'[new] > 0
        /\ \A m \in Messages : ready'[m] >= ready[m]
    BY <1>1, <2>1 DEF Publish
  <2>3. ASSUME NEW p \in Stored, p # b, published'[p] > 0
        PROVE  (Settled(p) \/ Alive(p))'
    <3>1. published[p] > 0
      BY <1>1, <2>3 DEF Publish
    <3> QED
      BY <1>1, <2>2, <3>1 DEF Publish
  <2>4. ASSUME b \in Stored
        PROVE  Alive(b)'
    BY <2>1, <2>2
  <2> HIDE DEF Settled, Alive
  <2> QED
    BY <2>3, <2>4
<1>2. ASSUME NEW m \in Messages, Expire(m) PROVE NoLoss'
  BY <1>2 DEF Expire
<1>3. ASSUME NEW h \in Handlers, NEW m \in Messages, Receive(h, m) PROVE NoLoss'
  <2>1. unacked'[h] /\ pc'[h] # "ack" /\ msg'[h] = m
    BY <1>3 DEF Receive
  <2>2. \A n \in Messages \ {m} : ready'[n] = ready[n]
    BY <1>3 DEF Receive
  <2>3. \A g \in Handlers \ {h} : unacked'[g] = unacked[g] /\ pc'[g] = pc[g] /\ msg'[g] = msg[g]
    BY <1>3 DEF Receive
  <2>4. ~unacked[h]
    BY <1>3 DEF Receive
  <2>5. UNCHANGED <<retry, dlq, row, published>>
    BY <1>3 DEF Receive
  <2> SUFFICES ASSUME NEW p \in Stored, published[p] > 0, ~Settled(p)
               PROVE  Alive(p)'
    BY <2>5
  <2>7. CASE InDlq(p)
    BY <2>7, <2>5
  <2>8. CASE \E n \in Messages : n.body = p /\ (ready[n] > 0 \/ retry[n] > 0)
    BY <2>8, <2>1, <2>2, <2>5
  <2>9. CASE \E g \in Handlers : unacked[g] /\ pc[g] # "ack" /\ P(g) = p
    BY <2>9, <2>3, <2>4
  <2> QED
    BY <2>7, <2>8, <2>9
<1>4. ASSUME NEW h \in Handlers, NotFound(h) PROVE NoLoss'
  BY <1>4 DEF NotFound
<1>5. ASSUME NEW h \in Handlers, AlreadyFinal(h) PROVE NoLoss'
  BY <1>5 DEF AlreadyFinal
<1>6. ASSUME NEW h \in Handlers, LockPending(h) PROVE NoLoss'
  BY <1>6 DEF LockPending
<1>7. ASSUME NEW h \in Handlers, Charge(h) PROVE NoLoss'
  BY <1>7 DEF Charge
<1>8. ASSUME NEW h \in Handlers, CommitCharge(h) PROVE NoLoss'
  BY <1>8 DEF CommitCharge, RecordCharge, Final
<1>9. ASSUME NEW h \in Handlers, CommitChargeFails(h) PROVE NoLoss'
  BY <1>9 DEF CommitChargeFails, RecordCharge, Final
<1>10. ASSUME NEW h \in Handlers, NothingToSend(h) PROVE NoLoss'
  BY <1>10 DEF NothingToSend
<1>11. ASSUME NEW h \in Handlers, LockForDelivery(h) PROVE NoLoss'
  BY <1>11 DEF LockForDelivery
<1>12. ASSUME NEW h \in Handlers, Send(h) PROVE NoLoss'
  BY <1>12 DEF Send
<1>13. ASSUME NEW h \in Handlers, CommitDelivery(h) PROVE NoLoss'
  BY <1>13 DEF CommitDelivery, RecordDelivery
<1>14. ASSUME NEW h \in Handlers, CommitDeliveryFails(h) PROVE NoLoss'
  BY <1>14 DEF CommitDeliveryFails, RecordDelivery
<1>15. ASSUME NEW h \in Handlers, Route(h) PROVE NoLoss'
  <2>1. /\ \A m \in Messages : retry[m] > 0 => retry'[m] > 0
        /\ \A m \in Buried : dlq[m] > 0 => dlq'[m] > 0
        /\ \/ \E m \in Messages : m.body = P(h) /\ retry'[m] > 0
           \/ \E m \in Buried : m.body = P(h) /\ dlq'[m] > 0
    BY <1>15, ForwardKeeps DEF Route
  <2>2. \A g \in Handlers \ {h} : pc'[g] = pc[g]
    BY <1>15 DEF Route
  <2>3. UNCHANGED <<ready, unacked, msg, row, published>>
    BY <1>15 DEF Route
  <2> SUFFICES ASSUME NEW p \in Stored, published[p] > 0, ~Settled(p)
               PROVE  Alive(p)'
    BY <2>3
  <2>7. CASE InDlq(p)
    BY <2>7, <2>1
  <2>8. CASE \E n \in Messages : n.body = p /\ (ready[n] > 0 \/ retry[n] > 0)
    BY <2>8, <2>1, <2>3
  <2>9. CASE \E g \in Handlers : unacked[g] /\ pc[g] # "ack" /\ P(g) = p
    BY <2>9, <2>1, <2>2, <2>3
  <2> QED
    BY <2>7, <2>8, <2>9
<1>16. ASSUME NEW h \in Handlers, RouteFails(h) PROVE NoLoss'
  <2>1. /\ \A m \in Messages : retry[m] > 0 => retry'[m] > 0
        /\ \A m \in Buried : dlq[m] > 0 => dlq'[m] > 0
    <3>1. CASE Forward(h)
      BY <1>16, <3>1, ForwardKeeps DEF RouteFails
    <3>2. CASE UNCHANGED <<retry, dlq>>
      BY <3>2
    <3> QED
      BY <1>16, <3>1, <3>2 DEF RouteFails
  <2>2. \A g \in Handlers : pc'[g] = pc[g] \/ pc'[g] = "nack"
    BY <1>16 DEF RouteFails
  <2>3. UNCHANGED <<ready, unacked, msg, row, published>>
    BY <1>16 DEF RouteFails
  <2> SUFFICES ASSUME NEW p \in Stored, published[p] > 0, ~Settled(p)
               PROVE  Alive(p)'
    BY <2>3
  <2>7. CASE InDlq(p)
    BY <2>7, <2>1
  <2>8. CASE \E n \in Messages : n.body = p /\ (ready[n] > 0 \/ retry[n] > 0)
    BY <2>8, <2>1, <2>3
  <2>9. CASE \E g \in Handlers : unacked[g] /\ pc[g] # "ack" /\ P(g) = p
    BY <2>9, <2>1, <2>2, <2>3
  <2> QED
    BY <2>7, <2>8, <2>9
<1>17. ASSUME NEW h \in Handlers, Ack(h) PROVE NoLoss'
  BY <1>17 DEF Ack
<1>18. ASSUME NEW h \in Handlers, AckFails(h) PROVE NoLoss'
  BY <1>18 DEF AckFails
<1>19. ASSUME NEW h \in Handlers, Nack(h) PROVE NoLoss'
  BY <1>19 DEF Nack
<1>20. ASSUME NEW h \in Handlers, SelectFails(h) PROVE NoLoss'
  BY <1>20 DEF SelectFails
<1>21. ASSUME NEW h \in Handlers, SessionLost(h) PROVE NoLoss'
  BY <1>21 DEF SessionLost
<1>22. ASSUME NEW h \in Handlers, ChannelLost(h) PROVE NoLoss'
  BY <1>22 DEF ChannelLost
<1>23. ASSUME NEW h \in Handlers, Crash(h) PROVE NoLoss'
  BY <1>23 DEF Crash
<1>24. CASE UNCHANGED vars
  BY <1>24 DEF vars
<1> QED
  BY <1>1, <1>2, <1>3, <1>4, <1>5, <1>6, <1>7, <1>8, <1>9, <1>10, <1>11, <1>12,
     <1>13, <1>14, <1>15, <1>16, <1>17, <1>18, <1>19, <1>20, <1>21, <1>22, <1>23, <1>24
     DEF Next, Step, Fault, Waiting

\* consumer.py:3-6, retry.py:59-61: whatever fails, a published event is settled
\* or a copy of it survives.
THEOREM EventsKept == Spec => []NoLoss
<1>1. Init => NoLoss
  BY PaymentsAssumption DEF Init, NoLoss, Bodies
<1>2. IInv /\ NoLoss /\ [Next]_vars => NoLoss'
  BY NoLossStep
<1> QED
  BY <1>1, <1>2, Invariance, PTL DEF Spec

-----------------------------------------------------------------------------
(* What is buried, and where retries go. *)

\* Nothing to repeat: no event, no payment, or a refusal for good.
NothingToRepeat(b) ==
    \/ b \notin Stored
    \/ b \in WithWebhook /\ status[b] # "pending" /\ refused[b]

\* No message has been tried more often than there are retry queues; a handler
\* that has met a permanent error has a reason for it.
AttemptInv ==
    /\ \A m \in Messages : ready[m] > 0 => m.attempt <= MaxRetries
    /\ \A h \in Handlers : pc[h] # "idle" => msg[h].attempt <= MaxRetries
    /\ \A h \in Handlers :
          pc[h] \in {"commitDelivery", "route"} /\ res[h] = "permanent" => NothingToRepeat(P(h))
    /\ DlqJustified

LEMMA ForwardJustified ==
    ASSUME IInv, AttemptInv, NEW h \in Handlers, pc[h] = "route", Forward(h)
    PROVE  /\ \A m \in Messages : retry'[m] > 0 => m.attempt \in 1..MaxRetries
           /\ \A m \in Buried : dlq'[m] > 0 =>
                 \/ m.why = "transient" /\ m.attempt = MaxRetries
                 \/ m.why = "permanent" /\ NothingToRepeat(m.body)
<1> USE MaxRetriesAssumption DEF IInv, TypeOK, LocalInv, AttemptInv, DlqJustified, NothingToRepeat
<1>1. msg[h] \in Messages /\ msg[h].attempt \in 0..MaxRetries
  BY DEF Messages
<1>2. CASE /\ res[h] = "permanent" \/ Exhausted(h)
           /\ dlq' = [dlq EXCEPT ![[body |-> P(h), attempt |-> msg[h].attempt, why |-> res[h]]] = @ + 1]
           /\ UNCHANGED retry
  <2>1. res[h] \in Verdicts
    OBVIOUS
  <2>2. \/ res[h] = "transient" /\ msg[h].attempt = MaxRetries
        \/ res[h] = "permanent" /\ NothingToRepeat(P(h))
    <3>1. CASE res[h] = "permanent"
      BY <3>1 DEF P
    <3>2. CASE res[h] = "transient"
      <4>1. msg[h].attempt + 1 > MaxRetries
        BY <1>2, <3>2 DEF Exhausted, NextAttempt
      <4>2. \A n \in 0..MaxRetries : n + 1 > MaxRetries => n = MaxRetries
        BY MaxRetriesAssumption
      <4> QED
        BY <1>1, <3>2, <4>1, <4>2
    <3> QED
      BY <2>1, <3>1, <3>2 DEF Verdicts
  <2>3. ASSUME NEW m \in Buried, dlq'[m] > 0, dlq[m] = 0
        PROVE  m.body = P(h) /\ m.attempt = msg[h].attempt /\ m.why = res[h]
    BY <1>2, <2>3
  <2>4. ASSUME NEW m \in Buried, dlq'[m] > 0
        PROVE  \/ m.why = "transient" /\ m.attempt = MaxRetries
               \/ m.why = "permanent" /\ NothingToRepeat(m.body)
    <3>1. CASE dlq[m] > 0
      BY <3>1
    <3>2. CASE dlq[m] = 0
      BY <2>2, <2>3, <2>4, <3>2
    <3> QED
      BY <3>1, <3>2
  <2> QED
    BY <1>2, <2>4
<1>3. CASE /\ res[h] # "permanent" /\ ~Exhausted(h)
           /\ retry' = [retry EXCEPT ![[body |-> P(h), attempt |-> NextAttempt(h)]] = @ + 1]
           /\ UNCHANGED dlq
  <2>1. NextAttempt(h) \in 1..MaxRetries
    BY <1>1, <1>3 DEF Exhausted, NextAttempt
  <2>2. ASSUME NEW m \in Messages, retry'[m] > 0, retry[m] = 0
        PROVE  m.attempt = NextAttempt(h)
    BY <1>3, <2>2
  <2>3. \A m \in Messages : retry'[m] > 0 => m.attempt \in 1..MaxRetries
    BY <2>1, <2>2
  <2> QED
    BY <1>3, <2>3
<1> QED
  BY <1>2, <1>3 DEF Forward

LEMMA AttemptStep == IInv /\ AttemptInv /\ [Next]_vars => AttemptInv'
<1> SUFFICES ASSUME IInv, AttemptInv, [Next]_vars PROVE AttemptInv'
  OBVIOUS
<1> USE MaxRetriesAssumption
    DEF IInv, TypeOK, LocalInv, LockInv, Transaction1, Transaction2, P, Holds, RowFree, Goto,
        Raise, Finish, Requeue, broker, row, gate, client, AttemptInv, DlqJustified,
        NothingToRepeat
<1>1. ASSUME NEW b \in Bodies, Publish(b) PROVE AttemptInv'
  BY <1>1 DEF Publish, Messages
<1>2. ASSUME NEW m \in Messages, Expire(m) PROVE AttemptInv'
  BY <1>2 DEF Expire
<1>3. ASSUME NEW h \in Handlers, NEW m \in Messages, Receive(h, m) PROVE AttemptInv'
  BY <1>3, PaymentsAssumption DEF Receive
<1>4. ASSUME NEW h \in Handlers, NotFound(h) PROVE AttemptInv'
  BY <1>4 DEF NotFound
<1>5. ASSUME NEW h \in Handlers, AlreadyFinal(h) PROVE AttemptInv'
  BY <1>5 DEF AlreadyFinal
<1>6. ASSUME NEW h \in Handlers, LockPending(h) PROVE AttemptInv'
  BY <1>6 DEF LockPending
<1>7. ASSUME NEW h \in Handlers, Charge(h) PROVE AttemptInv'
  BY <1>7 DEF Charge
<1>8. ASSUME NEW h \in Handlers, CommitCharge(h) PROVE AttemptInv'
  BY <1>8 DEF CommitCharge, RecordCharge, Final
<1>9. ASSUME NEW h \in Handlers, CommitChargeFails(h) PROVE AttemptInv'
  BY <1>9 DEF CommitChargeFails, RecordCharge, Final
<1>10. ASSUME NEW h \in Handlers, NothingToSend(h) PROVE AttemptInv'
  BY <1>10 DEF NothingToSend
<1>11. ASSUME NEW h \in Handlers, LockForDelivery(h) PROVE AttemptInv'
  BY <1>11 DEF LockForDelivery
<1>12. ASSUME NEW h \in Handlers, Send(h) PROVE AttemptInv'
  <2>1. P(h) \in Stored /\ P(h) \in WithWebhook /\ pc[h] = "sending" /\ status[P(h)] # "pending"
    BY <1>12 DEF Send
  <2>2. /\ UNCHANGED <<broker, row, msg>>
        /\ pc' = [pc EXCEPT ![h] = "commitDelivery"]
    BY <1>12 DEF Send
  <2>3. PICK outcome \in Verdicts \cup {"ok"} :
           /\ res' = [res EXCEPT ![h] = outcome]
           /\ \A p \in Stored : refused[p] => refused'[p]
           /\ outcome = "permanent" => refused'[P(h)]
    BY <1>12, <2>1, SendOutcome
  <2> QED
    BY <2>1, <2>2, <2>3, PaymentsAssumption
<1>13. ASSUME NEW h \in Handlers, CommitDelivery(h) PROVE AttemptInv'
  BY <1>13 DEF CommitDelivery, RecordDelivery
<1>14. ASSUME NEW h \in Handlers, CommitDeliveryFails(h) PROVE AttemptInv'
  BY <1>14 DEF CommitDeliveryFails, RecordDelivery
<1>15. ASSUME NEW h \in Handlers, Route(h) PROVE AttemptInv'
  <2>1. /\ pc[h] = "route"
        /\ UNCHANGED <<ready, unacked, row, msg, res, client>>
        /\ Forward(h) \/ UNCHANGED <<retry, dlq>>
        /\ pc' = [pc EXCEPT ![h] = "ack"] \/ pc' = [pc EXCEPT ![h] = "nack"]
    BY <1>15 DEF Route
  <2>2. DlqJustified'
    <3>1. CASE Forward(h)
      <4>1. /\ \A m \in Messages : retry'[m] > 0 => m.attempt \in 1..MaxRetries
            /\ \A m \in Buried : dlq'[m] > 0 =>
                  \/ m.why = "transient" /\ m.attempt = MaxRetries
                  \/ m.why = "permanent" /\ NothingToRepeat(m.body)
        BY <2>1, <3>1, ForwardJustified
      <4>2. UNCHANGED <<status, refused>>
        BY <2>1
      <4> QED
        BY <4>1, <4>2
    <3>2. CASE UNCHANGED <<retry, dlq>>
      BY <2>1, <3>2
    <3> QED
      BY <2>1, <3>1, <3>2
  <2> QED
    BY <2>1, <2>2
<1>16. ASSUME NEW h \in Handlers, RouteFails(h) PROVE AttemptInv'
  <2>1. /\ pc[h] = "route"
        /\ UNCHANGED <<ready, unacked, row, msg, res, client>>
        /\ Forward(h) \/ UNCHANGED <<retry, dlq>>
        /\ pc' = [pc EXCEPT ![h] = "ack"] \/ pc' = [pc EXCEPT ![h] = "nack"]
    BY <1>16 DEF RouteFails
  <2>2. DlqJustified'
    <3>1. CASE Forward(h)
      <4>1. /\ \A m \in Messages : retry'[m] > 0 => m.attempt \in 1..MaxRetries
            /\ \A m \in Buried : dlq'[m] > 0 =>
                  \/ m.why = "transient" /\ m.attempt = MaxRetries
                  \/ m.why = "permanent" /\ NothingToRepeat(m.body)
        BY <2>1, <3>1, ForwardJustified
      <4>2. UNCHANGED <<status, refused>>
        BY <2>1
      <4> QED
        BY <4>1, <4>2
    <3>2. CASE UNCHANGED <<retry, dlq>>
      BY <2>1, <3>2
    <3> QED
      BY <2>1, <3>1, <3>2
  <2> QED
    BY <2>1, <2>2
<1>17. ASSUME NEW h \in Handlers, Ack(h) PROVE AttemptInv'
  BY <1>17 DEF Ack
<1>18. ASSUME NEW h \in Handlers, AckFails(h) PROVE AttemptInv'
  BY <1>18 DEF AckFails
<1>19. ASSUME NEW h \in Handlers, Nack(h) PROVE AttemptInv'
  BY <1>19 DEF Nack
<1>20. ASSUME NEW h \in Handlers, SelectFails(h) PROVE AttemptInv'
  BY <1>20 DEF SelectFails
<1>21. ASSUME NEW h \in Handlers, SessionLost(h) PROVE AttemptInv'
  BY <1>21 DEF SessionLost
<1>22. ASSUME NEW h \in Handlers, ChannelLost(h) PROVE AttemptInv'
  BY <1>22 DEF ChannelLost
<1>23. ASSUME NEW h \in Handlers, Crash(h) PROVE AttemptInv'
  BY <1>23 DEF Crash
<1>24. CASE UNCHANGED vars
  BY <1>24 DEF vars
<1> QED
  BY <1>1, <1>2, <1>3, <1>4, <1>5, <1>6, <1>7, <1>8, <1>9, <1>10, <1>11, <1>12,
     <1>13, <1>14, <1>15, <1>16, <1>17, <1>18, <1>19, <1>20, <1>21, <1>22, <1>23, <1>24
     DEF Next, Step, Fault, Waiting

\* consumer.py:91, topology.py:92-99, design.md:174-182: what is buried has no
\* retry queue left or nothing to repeat, and every retry goes to a declared queue.
THEOREM BurialsJustified == Spec => []DlqJustified
<1>1. Init => AttemptInv
  BY DEF Init, AttemptInv, DlqJustified
<1>2. IInv /\ AttemptInv /\ [Next]_vars => AttemptInv'
  BY AttemptStep
<1>3. AttemptInv => DlqJustified
  BY DEF AttemptInv
<1> QED
  BY <1>1, <1>2, <1>3, Invariance, PTL DEF Spec

-----------------------------------------------------------------------------
(* Refinement. *)

LEMMA LifecycleStep == IInv /\ WebhookAgrees /\ DeliveryInv /\ [Next]_vars => [Lifecycle!Next]_(Lifecycle!vars)
<1> SUFFICES ASSUME IInv /\ WebhookAgrees /\ DeliveryInv, [Next]_vars PROVE [Lifecycle!Next]_(Lifecycle!vars)
  OBVIOUS
<1> USE DEF IInv, TypeOK, LocalInv, LockInv, Transaction1, Transaction2, P, Holds, RowFree,
            IsPending, Goto, Raise, Finish, Release, Acquire, Requeue, broker, row, gate,
            client, WebhookAgrees, DeliveryInv, Lifecycle!Next, Lifecycle!vars
<1>1. ASSUME NEW b \in Bodies, Publish(b) PROVE [Lifecycle!Next]_(Lifecycle!vars)
  BY <1>1 DEF Publish
<1>2. ASSUME NEW m \in Messages, Expire(m) PROVE [Lifecycle!Next]_(Lifecycle!vars)
  BY <1>2 DEF Expire
<1>3. ASSUME NEW h \in Handlers, NEW m \in Messages, Receive(h, m) PROVE [Lifecycle!Next]_(Lifecycle!vars)
  BY <1>3 DEF Receive
<1>4. ASSUME NEW h \in Handlers, NotFound(h) PROVE [Lifecycle!Next]_(Lifecycle!vars)
  BY <1>4 DEF NotFound
<1>5. ASSUME NEW h \in Handlers, AlreadyFinal(h) PROVE [Lifecycle!Next]_(Lifecycle!vars)
  BY <1>5 DEF AlreadyFinal
<1>6. ASSUME NEW h \in Handlers, LockPending(h) PROVE [Lifecycle!Next]_(Lifecycle!vars)
  BY <1>6 DEF LockPending
<1>7. ASSUME NEW h \in Handlers, Charge(h) PROVE [Lifecycle!Next]_(Lifecycle!vars)
  BY <1>7 DEF Charge
<1>8. ASSUME NEW h \in Handlers, CommitCharge(h) PROVE [Lifecycle!Next]_(Lifecycle!vars)
  <2>1. P(h) \in Stored /\ status[P(h)] = "pending" /\ res[h] \in Lifecycle!Final
    BY <1>8 DEF CommitCharge, Final, Lifecycle!Final
  <2>2. Lifecycle!Finalize(P(h))
    BY <1>8, <2>1 DEF CommitCharge, RecordCharge, Lifecycle!Finalize
  <2> QED
    BY <2>1, <2>2
<1>9. ASSUME NEW h \in Handlers, CommitChargeFails(h) PROVE [Lifecycle!Next]_(Lifecycle!vars)
  <2>1. CASE Holds(h, P(h)) /\ RecordCharge(h)
    <3>1. P(h) \in Stored /\ status[P(h)] = "pending" /\ res[h] \in Lifecycle!Final
      BY <1>9, <2>1 DEF CommitChargeFails, Final, Lifecycle!Final
    <3>2. UNCHANGED <<told, delivered>> /\ status' = [status EXCEPT ![P(h)] = res[h]]
      BY <1>9, <2>1 DEF CommitChargeFails, RecordCharge
    <3>3. Lifecycle!Finalize(P(h))
      BY <3>1, <3>2 DEF Lifecycle!Finalize
    <3> QED
      BY <3>1, <3>3
  <2>2. CASE UNCHANGED row
    BY <1>9, <2>2 DEF CommitChargeFails
  <2> QED
    BY <1>9, <2>1, <2>2 DEF CommitChargeFails
<1>10. ASSUME NEW h \in Handlers, NothingToSend(h) PROVE [Lifecycle!Next]_(Lifecycle!vars)
  BY <1>10 DEF NothingToSend
<1>11. ASSUME NEW h \in Handlers, LockForDelivery(h) PROVE [Lifecycle!Next]_(Lifecycle!vars)
  BY <1>11 DEF LockForDelivery
<1>12. ASSUME NEW h \in Handlers, Send(h) PROVE [Lifecycle!Next]_(Lifecycle!vars)
  <2>1. P(h) \in Stored /\ status[P(h)] \in Lifecycle!Final
    BY <1>12 DEF Send, Status, Lifecycle!Final
  <2>2. UNCHANGED <<status, delivered>>
    BY <1>12 DEF Send
  <2>3. told' = told \/ told' = [told EXCEPT ![P(h)] = @ \cup {status[P(h)]}]
    BY <1>12, <2>1, SendOutcome
  <2>4. CASE told[P(h)] = {}
    BY <2>1, <2>2, <2>3, <2>4 DEF Lifecycle!Notify
  <2>5. CASE told[P(h)] # {}
    <3>1. told[P(h)] = {status[P(h)]}
      BY <2>1, <2>5
    <3>2. told[P(h)] \cup {status[P(h)]} = told[P(h)]
      BY <3>1
    <3>3. [told EXCEPT ![P(h)] = told[P(h)]] = told
      OBVIOUS
    <3>4. told' = told
      BY <2>3, <3>2, <3>3
    <3> QED
      BY <2>2, <3>4
  <2> QED
    BY <2>4, <2>5
<1>13. ASSUME NEW h \in Handlers, CommitDelivery(h) PROVE [Lifecycle!Next]_(Lifecycle!vars)
  <2>1. P(h) \in Stored /\ (res[h] = "ok" => told[P(h)] # {})
    BY <1>13 DEF CommitDelivery
  <2>2. UNCHANGED <<status, told>>
    BY <1>13 DEF CommitDelivery, RecordDelivery
  <2>3. \/ delivered' = delivered
        \/ res[h] = "ok" /\ delivered' = [delivered EXCEPT ![P(h)] = TRUE]
    BY <1>13 DEF CommitDelivery, RecordDelivery
  <2> QED
    BY <2>1, <2>2, <2>3 DEF Lifecycle!Deliver
<1>14. ASSUME NEW h \in Handlers, CommitDeliveryFails(h) PROVE [Lifecycle!Next]_(Lifecycle!vars)
  <2>1. P(h) \in Stored /\ (res[h] = "ok" => told[P(h)] # {})
    BY <1>14 DEF CommitDeliveryFails
  <2>2. UNCHANGED <<status, told>>
    BY <1>14 DEF CommitDeliveryFails, RecordDelivery
  <2>3. \/ delivered' = delivered
        \/ res[h] = "ok" /\ delivered' = [delivered EXCEPT ![P(h)] = TRUE]
    BY <1>14 DEF CommitDeliveryFails, RecordDelivery
  <2> QED
    BY <2>1, <2>2, <2>3 DEF Lifecycle!Deliver
<1>15. ASSUME NEW h \in Handlers, Route(h) PROVE [Lifecycle!Next]_(Lifecycle!vars)
  BY <1>15 DEF Route
<1>16. ASSUME NEW h \in Handlers, RouteFails(h) PROVE [Lifecycle!Next]_(Lifecycle!vars)
  BY <1>16 DEF RouteFails
<1>17. ASSUME NEW h \in Handlers, Ack(h) PROVE [Lifecycle!Next]_(Lifecycle!vars)
  BY <1>17 DEF Ack
<1>18. ASSUME NEW h \in Handlers, AckFails(h) PROVE [Lifecycle!Next]_(Lifecycle!vars)
  BY <1>18 DEF AckFails
<1>19. ASSUME NEW h \in Handlers, Nack(h) PROVE [Lifecycle!Next]_(Lifecycle!vars)
  BY <1>19 DEF Nack
<1>20. ASSUME NEW h \in Handlers, SelectFails(h) PROVE [Lifecycle!Next]_(Lifecycle!vars)
  BY <1>20 DEF SelectFails
<1>21. ASSUME NEW h \in Handlers, SessionLost(h) PROVE [Lifecycle!Next]_(Lifecycle!vars)
  BY <1>21 DEF SessionLost
<1>22. ASSUME NEW h \in Handlers, ChannelLost(h) PROVE [Lifecycle!Next]_(Lifecycle!vars)
  BY <1>22 DEF ChannelLost
<1>23. ASSUME NEW h \in Handlers, Crash(h) PROVE [Lifecycle!Next]_(Lifecycle!vars)
  BY <1>23 DEF Crash
<1>24. CASE UNCHANGED vars
  BY <1>24 DEF vars
<1> QED
  BY <1>1, <1>2, <1>3, <1>4, <1>5, <1>6, <1>7, <1>8, <1>9, <1>10, <1>11, <1>12,
     <1>13, <1>14, <1>15, <1>16, <1>17, <1>18, <1>19, <1>20, <1>21, <1>22, <1>23, <1>24
     DEF Next, Step, Fault, Waiting

\* enums.py:9, processor.py:8-13: the consumers implement the lifecycle of a
\* payment.
THEOREM LifecycleImplemented == Spec => ImplementsLifecycle
<1>1. Init => Lifecycle!Init
  BY DEF Init, Lifecycle!Init
<1>2. IInv /\ WebhookAgrees /\ DeliveryInv /\ [Next]_vars => [Lifecycle!Next]_(Lifecycle!vars)
  BY LifecycleStep
<1> QED
  BY <1>1, <1>2, Invariance, ClientAgrees, DeliveryInvariance, PTL
     DEF Spec, ImplementsLifecycle, Lifecycle!Spec

-----------------------------------------------------------------------------
(* Nothing is handled that was not published. *)

\* Every message, delivery and charge goes back to a publication.
Asked ==
    /\ \A m \in Messages : ready[m] > 0 \/ retry[m] > 0 => published[m.body] > 0
    /\ \A h \in Handlers : pc[h] # "idle" => published[P(h)] > 0
    /\ \A p \in Stored : charges[p] > 0 => published[p] > 0

LEMMA AskedStep == IInv /\ Asked /\ [Next]_vars => Asked'
<1> SUFFICES ASSUME IInv, Asked, [Next]_vars PROVE Asked'
  OBVIOUS
<1> USE PaymentsAssumption DEF IInv, TypeOK, LocalInv, Asked, P, Goto, Raise, Finish, Requeue,
        Messages, Bodies, broker, row, gate, client
<1>1. ASSUME NEW b \in Bodies, Publish(b) PROVE Asked'
  BY <1>1 DEF Publish
<1>2. ASSUME NEW m \in Messages, Expire(m) PROVE Asked'
  BY <1>2 DEF Expire
<1>3. ASSUME NEW h \in Handlers, NEW m \in Messages, Receive(h, m) PROVE Asked'
  BY <1>3 DEF Receive
<1>4. ASSUME NEW h \in Handlers, Charge(h) PROVE Asked'
  BY <1>4 DEF Charge, Transaction1
<1>5. ASSUME NEW h \in Handlers, Route(h) \/ RouteFails(h) PROVE Asked'
  <2>1. UNCHANGED <<ready, unacked, msg, published, charges>> /\ pc[h] = "route"
    BY <1>5 DEF Route, RouteFails
  <2>2. \A g \in Handlers : pc'[g] # "idle" => pc[g] # "idle"
    BY <1>5 DEF Route, RouteFails
  <2>3. \A m \in Messages : retry'[m] > 0 => retry[m] > 0 \/ m.body = P(h)
    BY <1>5 DEF Route, RouteFails, Forward
  <2> QED
    BY <2>1, <2>2, <2>3
<1>6. ASSUME NEW h \in Handlers, Ack(h) \/ AckFails(h) \/ Nack(h) PROVE Asked'
  BY <1>6 DEF Ack, AckFails, Nack
<1>7. ASSUME NEW h \in Handlers, ChannelLost(h) \/ Crash(h) PROVE Asked'
  BY <1>7 DEF ChannelLost, Crash
<1>8. ASSUME NEW h \in Handlers,
             NotFound(h) \/ AlreadyFinal(h) \/ LockPending(h) \/ CommitCharge(h)
             \/ CommitChargeFails(h) \/ SelectFails(h) \/ SessionLost(h)
      PROVE  Asked'
  BY <1>8 DEF NotFound, AlreadyFinal, LockPending, CommitCharge, CommitChargeFails, SelectFails,
              SessionLost
<1>9. ASSUME NEW h \in Handlers,
             NothingToSend(h) \/ LockForDelivery(h) \/ Send(h) \/ CommitDelivery(h)
             \/ CommitDeliveryFails(h)
      PROVE  Asked'
  BY <1>9 DEF NothingToSend, LockForDelivery, Send, CommitDelivery, CommitDeliveryFails
<1>10. CASE UNCHANGED vars
  BY <1>10 DEF vars
<1> QED
  BY <1>1, <1>2, <1>3, <1>4, <1>5, <1>6, <1>7, <1>8, <1>9, <1>10
     DEF Next, Step, Fault, Waiting

\* processor.py:75-90: the gateway is called only for an event that was published.
THEOREM ChargedIsPublished == Spec => []\A p \in Stored : charges[p] > 0 => published[p] > 0
<1>1. Init => Asked
  BY DEF Init, Asked
<1>2. Asked => \A p \in Stored : charges[p] > 0 => published[p] > 0
  BY DEF Asked
<1> QED
  BY <1>1, <1>2, AskedStep, Invariance, PTL DEF Spec

-----------------------------------------------------------------------------
(***************************************************************************)
(* How many requests a client gets, and how often a payment is charged.    *)
(*                                                                         *)
(* Every copy of an event in flight stands for the requests it may still   *)
(* lead to, one for each attempt it has left.  These are its credits.  A   *)
(* publication gives MaxRetries + 1 of them, and so does a crash or a      *)
(* broker fault, which leave a copy more; a request takes one; what moves  *)
(* a copy keeps its credits.  For the repeats see the last part.           *)
(***************************************************************************)

CopiesOf(queue, p, a) == 1..queue[[body |-> p, attempt |-> a]]

\* The credits of the copies in a queue: attempt, copy, attempt to be made.
QueueCredits(queue, p) ==
    UNION {({a} \X CopiesOf(queue, p, a)) \X (a..MaxRetries) : a \in 0..MaxRetries}

\* The credits of the handlers, the first attempt of each being given.
HandlerCredits(first) == UNION {{h} \X (first[h]..MaxRetries) : h \in Handlers}

\* A delivery about to be acknowledged has been passed on or is done with; one
\* about to be handed back may be requeued as it came.
Handled(h, p) == pc[h] \notin {"idle", "ack"} /\ P(h) = p

\* The labels at which the request of this attempt, if any, has been made.
Requested == {"commitDelivery", "route"}

\* The first attempt for which a handler has a credit.
FirstCredit(p) ==
    [h \in Handlers |-> IF ~Handled(h, p) THEN MaxRetries + 1
                        ELSE IF pc[h] \in Requested THEN NextAttempt(h) ELSE msg[h].attempt]

-----------------------------------------------------------------------------
(* Finite sets that lose some elements and gain others. *)

LEMMA Replaced ==
    ASSUME NEW S, IsFiniteSet(S), NEW A, IsFiniteSet(A), NEW B, IsFiniteSet(B),
           A \subseteq S, NEW T, T \subseteq (S \ A) \cup B
    PROVE  IsFiniteSet(T) /\ Cardinality(T) <= Cardinality(S) - Cardinality(A) + Cardinality(B)
<1>1. IsFiniteSet(S \ A) /\ Cardinality(S \ A) = Cardinality(S) - Cardinality(S \cap A)
  BY FS_Difference
<1>2. Cardinality(S \cap A) = Cardinality(A)
  <2>1. S \cap A = A
    OBVIOUS
  <2> QED
    BY <2>1
<1>3. /\ IsFiniteSet((S \ A) \cup B)
      /\ Cardinality((S \ A) \cup B)
            = Cardinality(S \ A) + Cardinality(B) - Cardinality((S \ A) \cap B)
  BY <1>1, FS_Union
<1>4. IsFiniteSet((S \ A) \cap B)
  BY <1>1, FS_Intersection
<1>5. /\ IsFiniteSet(T)
      /\ Cardinality(T) <= Cardinality((S \ A) \cup B)
  BY <1>3, FS_Subset
<1>6. /\ Cardinality(T) \in Nat /\ Cardinality(S) \in Nat /\ Cardinality(A) \in Nat
      /\ Cardinality(B) \in Nat /\ Cardinality((S \ A) \cap B) \in Nat
  BY <1>4, <1>5, FS_CardinalityType
<1>7. Cardinality(S \ A) \in Nat
  BY <1>1, FS_CardinalityType
<1> QED
  BY <1>1, <1>2, <1>3, <1>5, <1>6, <1>7

\* The credits of one copy.
LEMMA CopyCredits ==
    ASSUME NEW c, NEW a \in 0..(MaxRetries + 1)
    PROVE  /\ IsFiniteSet({c} \X (a..MaxRetries))
           /\ Cardinality({c} \X (a..MaxRetries)) = MaxRetries + 1 - a
<1>1. MaxRetries \in Nat
  BY MaxRetriesAssumption
<1>2. IsFiniteSet(a..MaxRetries) /\ Cardinality(a..MaxRetries) = MaxRetries + 1 - a
  BY <1>1, FS_Interval
<1>3. IsFiniteSet({c}) /\ Cardinality({c}) = 1
  BY FS_Singleton
<1>4. /\ IsFiniteSet({c} \X (a..MaxRetries))
      /\ Cardinality({c} \X (a..MaxRetries)) = 1 * Cardinality(a..MaxRetries)
  BY <1>2, <1>3, FS_Product
<1> QED
  BY <1>1, <1>2, <1>4

-----------------------------------------------------------------------------
(* What a copy more, or less, in a queue does to its credits. *)

LEMMA InQueue ==
    ASSUME NEW queue, NEW p, NEW t
    PROVE  t \in QueueCredits(queue, p) <=>
              \E a \in 0..MaxRetries : \E i \in CopiesOf(queue, p, a), j \in a..MaxRetries :
                  t = <<<<a, i>>, j>>
BY DEF QueueCredits

LEMMA Enqueue ==
    ASSUME NEW queue \in [Messages -> Nat], NEW p \in Bodies, NEW a \in 0..MaxRetries,
           IsFiniteSet(QueueCredits(queue, p)),
           NEW new, new = [queue EXCEPT ![[body |-> p, attempt |-> a]] = @ + 1]
    PROVE  /\ IsFiniteSet(QueueCredits(new, p))
           /\ Cardinality(QueueCredits(new, p))
                 <= Cardinality(QueueCredits(queue, p)) + (MaxRetries + 1 - a)
<1> USE MaxRetriesAssumption
<1>1. DEFINE m == [body |-> p, attempt |-> a]
             added == {<<a, queue[m] + 1>>} \X (a..MaxRetries)
<1>2. \A b \in 0..MaxRetries : [body |-> p, attempt |-> b] \in Messages
  BY DEF Messages
<1>3. IsFiniteSet(added) /\ Cardinality(added) = MaxRetries + 1 - a
  <2>1. a \in 0..(MaxRetries + 1)
    OBVIOUS
  <2> QED
    BY <2>1, CopyCredits
<1>4. ASSUME NEW t \in QueueCredits(new, p)
      PROVE  t \in (QueueCredits(queue, p) \ {}) \cup added
  <2>1. PICK b \in 0..MaxRetries : \E i \in CopiesOf(new, p, b), j \in b..MaxRetries :
                  t = <<<<b, i>>, j>>
    BY InQueue
  <2>2. PICK i \in CopiesOf(new, p, b), j \in b..MaxRetries : t = <<<<b, i>>, j>>
    BY <2>1
  <2>3. CASE i \in CopiesOf(queue, p, b)
    BY <2>2, <2>3, InQueue
  <2>4. CASE i \notin CopiesOf(queue, p, b)
    <3>1. CopiesOf(queue, p, b) = 1..queue[[body |-> p, attempt |-> b]]
          /\ CopiesOf(new, p, b) = 1..new[[body |-> p, attempt |-> b]]
      BY DEF CopiesOf
    <3>2. b = a
      BY <1>2, <2>2, <2>4, <3>1
    <3>3. i = queue[m] + 1
      BY <1>2, <2>2, <2>4, <3>1, <3>2
    <3> QED
      BY <2>2, <3>2, <3>3
  <2> QED
    BY <2>3, <2>4
<1>5. IsFiniteSet({}) /\ Cardinality({}) = 0
  BY FS_EmptySet
<1>6. /\ IsFiniteSet(QueueCredits(new, p))
      /\ Cardinality(QueueCredits(new, p))
            <= Cardinality(QueueCredits(queue, p)) - Cardinality({}) + Cardinality(added)
  <2> HIDE DEF added
  <2>1. /\ {} \subseteq QueueCredits(queue, p)
        /\ QueueCredits(new, p) \subseteq (QueueCredits(queue, p) \ {}) \cup added
    BY <1>4
  <2> QED
    BY <1>3, <1>5, <2>1, Replaced
<1>7. Cardinality(QueueCredits(queue, p)) \in Nat
  BY FS_CardinalityType
<1> HIDE DEF added
<1> QED
  BY <1>3, <1>5, <1>6, <1>7

LEMMA Dequeue ==
    ASSUME NEW queue \in [Messages -> Nat], NEW p \in Bodies, NEW a \in 0..MaxRetries,
           IsFiniteSet(QueueCredits(queue, p)), queue[[body |-> p, attempt |-> a]] > 0,
           NEW new, new = [queue EXCEPT ![[body |-> p, attempt |-> a]] = @ - 1]
    PROVE  /\ IsFiniteSet(QueueCredits(new, p))
           /\ Cardinality(QueueCredits(new, p))
                 <= Cardinality(QueueCredits(queue, p)) - (MaxRetries + 1 - a)
<1> USE MaxRetriesAssumption
<1>1. DEFINE m == [body |-> p, attempt |-> a]
             removed == {<<a, queue[m]>>} \X (a..MaxRetries)
<1>2. \A b \in 0..MaxRetries : [body |-> p, attempt |-> b] \in Messages
  BY DEF Messages
<1>3. IsFiniteSet(removed) /\ Cardinality(removed) = MaxRetries + 1 - a
  <2>1. a \in 0..(MaxRetries + 1)
    OBVIOUS
  <2> QED
    BY <2>1, CopyCredits
<1>4. ASSUME NEW t \in removed
      PROVE  t \in QueueCredits(queue, p)
  <2>1. PICK j \in a..MaxRetries : t = <<<<a, queue[m]>>, j>>
    OBVIOUS
  <2>2. queue[m] \in CopiesOf(queue, p, a)
    BY <1>2 DEF CopiesOf
  <2> QED
    BY <2>1, <2>2, InQueue
<1>5. ASSUME NEW t \in QueueCredits(new, p)
      PROVE  t \in QueueCredits(queue, p) \ removed
  <2>1. PICK b \in 0..MaxRetries : \E i \in CopiesOf(new, p, b), j \in b..MaxRetries :
                  t = <<<<b, i>>, j>>
    BY InQueue
  <2>2. PICK i \in CopiesOf(new, p, b), j \in b..MaxRetries : t = <<<<b, i>>, j>>
    BY <2>1
  <2>3. CopiesOf(queue, p, b) = 1..queue[[body |-> p, attempt |-> b]]
        /\ CopiesOf(new, p, b) = 1..new[[body |-> p, attempt |-> b]]
    BY DEF CopiesOf
  <2>4. i \in CopiesOf(queue, p, b) /\ (b = a => i # queue[m])
    BY <1>2, <2>2, <2>3
  <2>5. t \in QueueCredits(queue, p)
    BY <2>2, <2>4, InQueue
  <2>6. t \notin removed
    BY <2>2, <2>4
  <2> QED
    BY <2>5, <2>6
<1>6. IsFiniteSet({}) /\ Cardinality({}) = 0
  BY FS_EmptySet
<1>7. /\ removed \subseteq QueueCredits(queue, p)
      /\ QueueCredits(new, p) \subseteq (QueueCredits(queue, p) \ removed) \cup {}
  BY <1>4, <1>5
<1> HIDE DEF removed
<1>8. /\ IsFiniteSet(QueueCredits(new, p))
      /\ Cardinality(QueueCredits(new, p))
            <= Cardinality(QueueCredits(queue, p)) - Cardinality(removed) + Cardinality({})
  BY <1>3, <1>6, <1>7, Replaced
<1>9. Cardinality(QueueCredits(queue, p)) \in Nat
  BY FS_CardinalityType
<1> QED
  BY <1>3, <1>6, <1>8, <1>9

\* The credits of a payment depend only on the copies of its own event.
LEMMA SameCopies ==
    ASSUME NEW queue, NEW new, NEW p,
           \A a \in 0..MaxRetries :
              new[[body |-> p, attempt |-> a]] = queue[[body |-> p, attempt |-> a]]
    PROVE  QueueCredits(new, p) = QueueCredits(queue, p)
<1>1. ASSUME NEW a \in 0..MaxRetries
      PROVE  CopiesOf(new, p, a) = CopiesOf(queue, p, a)
  BY <1>1 DEF CopiesOf
<1>2. \A t : t \in QueueCredits(new, p) <=> t \in QueueCredits(queue, p)
  BY <1>1, InQueue
<1> QED
  BY <1>2

-----------------------------------------------------------------------------
(* What a handler gets, or gives away. *)

LEMMA HandOver ==
    ASSUME NEW old \in [Handlers -> 0..(MaxRetries + 1)],
           NEW new \in [Handlers -> 0..(MaxRetries + 1)],
           NEW h \in Handlers, \A g \in Handlers \ {h} : new[g] = old[g],
           IsFiniteSet(HandlerCredits(old))
    PROVE  /\ IsFiniteSet(HandlerCredits(new))
           /\ Cardinality(HandlerCredits(new)) <= Cardinality(HandlerCredits(old)) + old[h] - new[h]
<1> USE MaxRetriesAssumption
<1>1. DEFINE removed == {h} \X (old[h]..MaxRetries)
             added == {h} \X (new[h]..MaxRetries)
<1>2. /\ IsFiniteSet(removed) /\ Cardinality(removed) = MaxRetries + 1 - old[h]
      /\ IsFiniteSet(added) /\ Cardinality(added) = MaxRetries + 1 - new[h]
  BY CopyCredits
<1>3. removed \subseteq HandlerCredits(old)
  BY DEF HandlerCredits
<1>4. ASSUME NEW t \in HandlerCredits(new)
      PROVE  t \in (HandlerCredits(old) \ removed) \cup added
  <2>1. PICK g \in Handlers : t \in {g} \X (new[g]..MaxRetries)
    BY DEF HandlerCredits
  <2>2. CASE g = h
    BY <2>1, <2>2
  <2>3. CASE g # h
    BY <2>1, <2>3 DEF HandlerCredits
  <2> QED
    BY <2>2, <2>3
<1>5. HandlerCredits(new) \subseteq (HandlerCredits(old) \ removed) \cup added
  BY <1>4
<1> HIDE DEF removed, added
<1>6. /\ IsFiniteSet(HandlerCredits(new))
      /\ Cardinality(HandlerCredits(new))
            <= Cardinality(HandlerCredits(old)) - Cardinality(removed) + Cardinality(added)
  BY <1>2, <1>3, <1>5, Replaced
<1>7. Cardinality(HandlerCredits(old)) \in Nat /\ Cardinality(HandlerCredits(new)) \in Nat
  BY <1>6, FS_CardinalityType
<1>8. old[h] \in Nat /\ new[h] \in Nat
  OBVIOUS
<1> QED
  BY <1>2, <1>6, <1>7, <1>8

-----------------------------------------------------------------------------
(* The inductive invariant. *)

\* The requests the client may get for all that was published or put back.
Allowance(p) == (published[p] + Spent("crash") + Spent("broker")) * (MaxRetries + 1)

Outstanding(p) ==
    Cardinality(QueueCredits(ready, p)) + Cardinality(QueueCredits(retry, p))
    + Cardinality(HandlerCredits(FirstCredit(p)))

\* Requests made and credits left are covered by the allowance.
Covered(p) ==
    /\ IsFiniteSet(QueueCredits(ready, p))
    /\ IsFiniteSet(QueueCredits(retry, p))
    /\ IsFiniteSet(HandlerCredits(FirstCredit(p)))
    /\ posts[p] + Outstanding(p) <= Allowance(p)

CreditInv == \A p \in Stored : Covered(p)

LEMMA FirstCreditType ==
    ASSUME IInv, AttemptInv, NEW p \in Stored
    PROVE  FirstCredit(p) \in [Handlers -> 0..(MaxRetries + 1)]
<1> USE MaxRetriesAssumption
<1>1. ASSUME NEW h \in Handlers, Handled(h, p)
      PROVE  msg[h].attempt \in 0..MaxRetries
  <2>1. msg[h] \in Messages /\ msg[h].attempt <= MaxRetries
    BY <1>1 DEF IInv, LocalInv, AttemptInv, Handled
  <2> QED
    BY <2>1 DEF Messages
<1> QED
  BY <1>1 DEF FirstCredit, NextAttempt

LEMMA FirstCreditStep ==
    ASSUME IInv, AttemptInv, IInv', AttemptInv', NEW p \in Stored
    PROVE  /\ FirstCredit(p) \in [Handlers -> 0..(MaxRetries + 1)]
           /\ FirstCredit(p)' \in [Handlers -> 0..(MaxRetries + 1)]
<1>1. (IInv /\ AttemptInv => FirstCredit(p) \in [Handlers -> 0..(MaxRetries + 1)])'
  BY FirstCreditType, PTL
<1> QED
  BY <1>1, FirstCreditType

LEMMA AllowanceGrows ==
    ASSUME NEW n \in Int
    PROVE  (n + 1) * (MaxRetries + 1) = n * (MaxRetries + 1) + (MaxRetries + 1)
BY MaxRetriesAssumption

\* What each part of the account gains is covered by what is allowed in addition.
LEMMA Balanced ==
    ASSUME IInv, NEW p \in Stored, Covered(p),
           NEW dReady \in Int, NEW dRetry \in Int, NEW dHandlers \in Int, NEW dPosts \in Int,
           NEW dAllowance \in Int,
           IsFiniteSet(QueueCredits(ready, p)'),
           IsFiniteSet(QueueCredits(retry, p)'),
           IsFiniteSet(HandlerCredits(FirstCredit(p))'),
           Cardinality(QueueCredits(ready, p)') <= Cardinality(QueueCredits(ready, p)) + dReady,
           Cardinality(QueueCredits(retry, p)') <= Cardinality(QueueCredits(retry, p)) + dRetry,
           Cardinality(HandlerCredits(FirstCredit(p))')
              <= Cardinality(HandlerCredits(FirstCredit(p))) + dHandlers,
           posts'[p] = posts[p] + dPosts,
           Allowance(p)' = Allowance(p) + dAllowance,
           dReady + dRetry + dHandlers + dPosts <= dAllowance
    PROVE  Covered(p)'
<1>1. /\ Cardinality(QueueCredits(ready, p)) \in Nat
      /\ Cardinality(QueueCredits(retry, p)) \in Nat
      /\ Cardinality(HandlerCredits(FirstCredit(p))) \in Nat
      /\ Cardinality(QueueCredits(ready, p)') \in Nat
      /\ Cardinality(QueueCredits(retry, p)') \in Nat
      /\ Cardinality(HandlerCredits(FirstCredit(p))') \in Nat
  BY FS_CardinalityType DEF Covered
<1>2. posts[p] \in Nat
  BY DEF IInv, TypeOK
<1>3. Allowance(p) \in Int
  <2>1. published[p] \in Nat /\ Spent("crash") \in Int /\ Spent("broker") \in Int
    BY PaymentsAssumption, BudgetAssumption DEF IInv, TypeOK, Spent, Faults, Bodies
  <2> QED
    BY <2>1, MaxRetriesAssumption DEF Allowance
<1>4. posts'[p] + Outstanding(p)' <= Allowance(p)'
  BY <1>1, <1>2, <1>3 DEF Covered, Outstanding
<1> QED
  BY <1>4 DEF Covered

\* Only the handler that makes the step gains or loses credits.
LEMMA OwnCredits ==
    ASSUME IInv, AttemptInv, IInv', AttemptInv', NEW p \in Stored, Covered(p), NEW h \in Handlers,
           \A g \in Handlers \ {h} : pc'[g] = pc[g] /\ msg'[g] = msg[g]
    PROVE  /\ IsFiniteSet(HandlerCredits(FirstCredit(p))')
           /\ Cardinality(HandlerCredits(FirstCredit(p))')
                 <= Cardinality(HandlerCredits(FirstCredit(p)))
                       + (FirstCredit(p)[h] - FirstCredit(p)'[h])
<1>1. FirstCredit(p) \in [Handlers -> 0..(MaxRetries + 1)]
  BY FirstCreditStep
<1>2. FirstCredit(p)' \in [Handlers -> 0..(MaxRetries + 1)]
  BY FirstCreditStep
<1>3. \A g \in Handlers \ {h} : FirstCredit(p)'[g] = FirstCredit(p)[g]
  BY DEF FirstCredit, Handled, P, NextAttempt
<1>4. /\ IsFiniteSet(HandlerCredits(FirstCredit(p)'))
      /\ Cardinality(HandlerCredits(FirstCredit(p)'))
            <= Cardinality(HandlerCredits(FirstCredit(p))) + FirstCredit(p)[h] - FirstCredit(p)'[h]
  BY <1>1, <1>2, <1>3, HandOver DEF Covered
<1>5. HandlerCredits(FirstCredit(p))' = HandlerCredits(FirstCredit(p)')
  BY DEF HandlerCredits
<1>6. /\ FirstCredit(p)[h] \in Int /\ FirstCredit(p)'[h] \in Int
      /\ Cardinality(HandlerCredits(FirstCredit(p))) \in Nat
  BY <1>1, <1>2, FS_CardinalityType DEF Covered
<1> QED
  BY <1>4, <1>5, <1>6

-----------------------------------------------------------------------------
(* The steps of a handler. *)

\* A message in flight is one the lemmas on queues speak of.
LEMMA InFlight ==
    ASSUME IInv, AttemptInv, NEW h \in Handlers, pc[h] # "idle"
    PROVE  /\ msg[h] \in Messages
           /\ P(h) \in Bodies
           /\ msg[h].attempt \in 0..MaxRetries
           /\ msg[h] = [body |-> P(h), attempt |-> msg[h].attempt]
<1> USE MaxRetriesAssumption
<1>1. msg[h] \in Messages /\ msg[h].attempt <= MaxRetries
  BY DEF IInv, LocalInv, AttemptInv
<1> QED
  BY <1>1 DEF Messages, P

LEMMA AllowanceType ==
    ASSUME IInv, NEW p \in Stored
    PROVE  Allowance(p) \in Int
<1>1. published[p] \in Nat /\ Spent("crash") \in Int /\ Spent("broker") \in Int
  BY PaymentsAssumption, BudgetAssumption DEF IInv, TypeOK, Spent, Faults, Bodies
<1> QED
  BY <1>1, MaxRetriesAssumption DEF Allowance

\* A queue whose copies of the event are the same.
LEMMA Untouched ==
    ASSUME NEW p \in Stored, Covered(p)
    PROVE  /\ (\A a \in 0..MaxRetries : ready'[[body |-> p, attempt |-> a]]
                                         = ready[[body |-> p, attempt |-> a]]) =>
              /\ IsFiniteSet(QueueCredits(ready, p)')
              /\ Cardinality(QueueCredits(ready, p)') <= Cardinality(QueueCredits(ready, p)) + 0
           /\ (\A a \in 0..MaxRetries : retry'[[body |-> p, attempt |-> a]]
                                         = retry[[body |-> p, attempt |-> a]]) =>
              /\ IsFiniteSet(QueueCredits(retry, p)')
              /\ Cardinality(QueueCredits(retry, p)') <= Cardinality(QueueCredits(retry, p)) + 0
<1>1. /\ Cardinality(QueueCredits(ready, p)) \in Nat
      /\ Cardinality(QueueCredits(retry, p)) \in Nat
  BY FS_CardinalityType DEF Covered
<1>2. QueueCredits(ready, p)' = QueueCredits(ready', p)
      /\ QueueCredits(retry, p)' = QueueCredits(retry', p)
  BY DEF QueueCredits, CopiesOf
<1>3. ASSUME \A a \in 0..MaxRetries : ready'[[body |-> p, attempt |-> a]]
                                       = ready[[body |-> p, attempt |-> a]]
      PROVE  QueueCredits(ready, p)' = QueueCredits(ready, p)
  BY <1>2, <1>3, SameCopies
<1>4. ASSUME \A a \in 0..MaxRetries : retry'[[body |-> p, attempt |-> a]]
                                       = retry[[body |-> p, attempt |-> a]]
      PROVE  QueueCredits(retry, p)' = QueueCredits(retry, p)
  BY <1>2, <1>4, SameCopies
<1>5. IsFiniteSet(QueueCredits(ready, p)) /\ IsFiniteSet(QueueCredits(retry, p))
  BY DEF Covered
<1>6. \A n \in Nat : n <= n + 0
  OBVIOUS
<1> HIDE DEF QueueCredits
<1> QED
  BY <1>1, <1>3, <1>4, <1>5, <1>6, Zenon

LEMMA Kept ==
    ASSUME NEW p \in Stored, Covered(p)
    PROVE  /\ UNCHANGED ready =>
              /\ IsFiniteSet(QueueCredits(ready, p)')
              /\ Cardinality(QueueCredits(ready, p)') <= Cardinality(QueueCredits(ready, p)) + 0
           /\ UNCHANGED retry =>
              /\ IsFiniteSet(QueueCredits(retry, p)')
              /\ Cardinality(QueueCredits(retry, p)') <= Cardinality(QueueCredits(retry, p)) + 0
BY Untouched

\* A step of one handler keeps the account if it does not take more than it gives.
LEMMA Accounted ==
    ASSUME IInv, AttemptInv, IInv', AttemptInv', NEW p \in Stored, Covered(p), NEW h \in Handlers,
           \A g \in Handlers \ {h} : pc'[g] = pc[g] /\ msg'[g] = msg[g],
           NEW dReady \in Int, NEW dRetry \in Int, NEW dPosts \in Int, NEW dAllowance \in Int,
           IsFiniteSet(QueueCredits(ready, p)'),
           IsFiniteSet(QueueCredits(retry, p)'),
           Cardinality(QueueCredits(ready, p)') <= Cardinality(QueueCredits(ready, p)) + dReady,
           Cardinality(QueueCredits(retry, p)') <= Cardinality(QueueCredits(retry, p)) + dRetry,
           posts'[p] = posts[p] + dPosts,
           Allowance(p)' = Allowance(p) + dAllowance,
           FirstCredit(p)[h] + dReady + dRetry + dPosts <= FirstCredit(p)'[h] + dAllowance
    PROVE  Covered(p)'
<1>1. DEFINE d == FirstCredit(p)[h] - FirstCredit(p)'[h]
<1>2. d \in Int /\ dReady + dRetry + d + dPosts <= dAllowance
  <2>1. FirstCredit(p)[h] \in Int /\ FirstCredit(p)'[h] \in Int
    BY FirstCreditStep
  <2> QED
    BY <2>1
<1>3. /\ IsFiniteSet(HandlerCredits(FirstCredit(p))')
      /\ Cardinality(HandlerCredits(FirstCredit(p))')
            <= Cardinality(HandlerCredits(FirstCredit(p))) + d
  BY OwnCredits
<1> HIDE DEF d
<1> QED
  BY <1>2, <1>3, Balanced

\* Steps that neither move a copy nor make a request.
LEMMA Quiet ==
    ASSUME IInv, AttemptInv, IInv', AttemptInv', NEW p \in Stored, Covered(p), NEW h \in Handlers,
           \A g \in Handlers \ {h} : pc'[g] = pc[g] /\ msg'[g] = msg[g],
           FirstCredit(p)'[h] >= FirstCredit(p)[h],
           UNCHANGED <<ready, retry, posts, published>>,
           budget'["crash"] = budget["crash"], budget'["broker"] = budget["broker"]
    PROVE  Covered(p)'
<1>1. /\ IsFiniteSet(QueueCredits(ready, p)')
      /\ Cardinality(QueueCredits(ready, p)') <= Cardinality(QueueCredits(ready, p)) + 0
      /\ IsFiniteSet(QueueCredits(retry, p)')
      /\ Cardinality(QueueCredits(retry, p)') <= Cardinality(QueueCredits(retry, p)) + 0
  BY Kept
<1>2. Allowance(p)' = Allowance(p) + 0
  BY AllowanceType DEF Allowance, Spent
<1>3. posts'[p] = posts[p] + 0
  BY DEF IInv, TypeOK
<1>4. FirstCredit(p)[h] + 0 + 0 + 0 <= FirstCredit(p)'[h] + 0
  <2>1. FirstCredit(p)[h] \in Int /\ FirstCredit(p)'[h] \in Int
    BY FirstCreditStep
  <2> QED
    BY <2>1
<1>5. 0 \in Int
  OBVIOUS
<1> QED
  BY <1>1, <1>2, <1>3, <1>4, <1>5, Accounted, Zenon

-----------------------------------------------------------------------------
(* The steps that move copies, take credits or give them. *)

\* The credits of a message that counts for payment p.
Worth(m, p) == IF m.body = p THEN MaxRetries + 1 - m.attempt ELSE 0

LEMMA WorthType ==
    ASSUME NEW m \in Messages, m.attempt <= MaxRetries, NEW p
    PROVE  /\ Worth(m, p) \in Int
           /\ 0 <= Worth(m, p) /\ Worth(m, p) <= MaxRetries + 1
BY MaxRetriesAssumption DEF Worth, Messages

LEMMA Added ==
    ASSUME IInv, NEW p \in Stored, Covered(p), NEW m \in Messages, m.attempt <= MaxRetries
    PROVE  /\ ready' = [ready EXCEPT ![m] = @ + 1] =>
              /\ IsFiniteSet(QueueCredits(ready, p)')
              /\ Cardinality(QueueCredits(ready, p)')
                    <= Cardinality(QueueCredits(ready, p)) + Worth(m, p)
           /\ retry' = [retry EXCEPT ![m] = @ + 1] =>
              /\ IsFiniteSet(QueueCredits(retry, p)')
              /\ Cardinality(QueueCredits(retry, p)')
                    <= Cardinality(QueueCredits(retry, p)) + Worth(m, p)
<1> USE MaxRetriesAssumption
<1>1. p \in Bodies /\ ready \in [Messages -> Nat] /\ retry \in [Messages -> Nat]
  BY PaymentsAssumption DEF Bodies, IInv, TypeOK
<1>2. QueueCredits(ready, p)' = QueueCredits(ready', p)
      /\ QueueCredits(retry, p)' = QueueCredits(retry', p)
  BY DEF QueueCredits, CopiesOf
<1>3. CASE m.body = p
  <2>1. PICK a \in 0..MaxRetries : m = [body |-> p, attempt |-> a]
    BY <1>3 DEF Messages
  <2>2. Worth(m, p) = MaxRetries + 1 - a
    BY <2>1 DEF Worth
  <2> QED
    BY <1>1, <1>2, <2>1, <2>2, Enqueue DEF Covered
<1>4. CASE m.body # p
  <2>1. Worth(m, p) = 0
    BY <1>4 DEF Worth
  <2>2. ASSUME ready' = [ready EXCEPT ![m] = @ + 1]
        PROVE  \A a \in 0..MaxRetries :
                  ready'[[body |-> p, attempt |-> a]] = ready[[body |-> p, attempt |-> a]]
    BY <1>1, <1>4, <2>2 DEF Messages
  <2>3. ASSUME retry' = [retry EXCEPT ![m] = @ + 1]
        PROVE  \A a \in 0..MaxRetries :
                  retry'[[body |-> p, attempt |-> a]] = retry[[body |-> p, attempt |-> a]]
    BY <1>1, <1>4, <2>3 DEF Messages
  <2> QED
    BY <2>1, <2>2, <2>3, Untouched
<1> QED
  BY <1>3, <1>4

LEMMA Removed ==
    ASSUME IInv, NEW p \in Stored, Covered(p), NEW m \in Messages, m.attempt <= MaxRetries
    PROVE  /\ ready[m] > 0 /\ ready' = [ready EXCEPT ![m] = @ - 1] =>
              /\ IsFiniteSet(QueueCredits(ready, p)')
              /\ Cardinality(QueueCredits(ready, p)')
                    <= Cardinality(QueueCredits(ready, p)) + (0 - Worth(m, p))
           /\ retry[m] > 0 /\ retry' = [retry EXCEPT ![m] = @ - 1] =>
              /\ IsFiniteSet(QueueCredits(retry, p)')
              /\ Cardinality(QueueCredits(retry, p)')
                    <= Cardinality(QueueCredits(retry, p)) + (0 - Worth(m, p))
<1> USE MaxRetriesAssumption
<1>1. p \in Bodies /\ ready \in [Messages -> Nat] /\ retry \in [Messages -> Nat]
  BY PaymentsAssumption DEF Bodies, IInv, TypeOK
<1>2. QueueCredits(ready, p)' = QueueCredits(ready', p)
      /\ QueueCredits(retry, p)' = QueueCredits(retry', p)
  BY DEF QueueCredits, CopiesOf
<1>3. CASE m.body = p
  <2>1. PICK a \in 0..MaxRetries : m = [body |-> p, attempt |-> a]
    BY <1>3 DEF Messages
  <2>2. Worth(m, p) = MaxRetries + 1 - a
    BY <2>1 DEF Worth
  <2>3. /\ Cardinality(QueueCredits(ready, p)) \in Nat
        /\ Cardinality(QueueCredits(retry, p)) \in Nat
    BY FS_CardinalityType DEF Covered
  <2>4. ASSUME NEW n \in Nat
        PROVE  n - (MaxRetries + 1 - a) = n + (0 - Worth(m, p))
    BY <2>2
  <2>5. ASSUME ready[m] > 0, ready' = [ready EXCEPT ![m] = @ - 1]
        PROVE  /\ IsFiniteSet(QueueCredits(ready', p))
               /\ Cardinality(QueueCredits(ready', p))
                     <= Cardinality(QueueCredits(ready, p)) - (MaxRetries + 1 - a)
    BY <1>1, <2>1, <2>5, Dequeue DEF Covered
  <2>6. ASSUME retry[m] > 0, retry' = [retry EXCEPT ![m] = @ - 1]
        PROVE  /\ IsFiniteSet(QueueCredits(retry', p))
               /\ Cardinality(QueueCredits(retry', p))
                     <= Cardinality(QueueCredits(retry, p)) - (MaxRetries + 1 - a)
    BY <1>1, <2>1, <2>6, Dequeue DEF Covered
  <2> QED
    BY <1>2, <2>3, <2>4, <2>5, <2>6
<1>4. CASE m.body # p
  <2>1. Worth(m, p) = 0 /\ 0 - 0 = 0
    BY <1>4 DEF Worth
  <2>2. ASSUME ready' = [ready EXCEPT ![m] = @ - 1]
        PROVE  \A a \in 0..MaxRetries :
                  ready'[[body |-> p, attempt |-> a]] = ready[[body |-> p, attempt |-> a]]
    BY <1>1, <1>4, <2>2 DEF Messages
  <2>3. ASSUME retry' = [retry EXCEPT ![m] = @ - 1]
        PROVE  \A a \in 0..MaxRetries :
                  retry'[[body |-> p, attempt |-> a]] = retry[[body |-> p, attempt |-> a]]
    BY <1>1, <1>4, <2>3 DEF Messages
  <2> QED
    BY <2>1, <2>2, <2>3, Untouched
<1> QED
  BY <1>3, <1>4

\* The steps that change no handler.
LEMMA SameHandlers ==
    ASSUME NEW p \in Stored, Covered(p), UNCHANGED <<pc, msg>>
    PROVE  /\ IsFiniteSet(HandlerCredits(FirstCredit(p))')
           /\ Cardinality(HandlerCredits(FirstCredit(p))')
                 <= Cardinality(HandlerCredits(FirstCredit(p))) + 0
<1>1. HandlerCredits(FirstCredit(p))' = HandlerCredits(FirstCredit(p))
  BY DEF HandlerCredits, FirstCredit, Handled, P, NextAttempt
<1>2. Cardinality(HandlerCredits(FirstCredit(p))) \in Nat
  BY FS_CardinalityType DEF Covered
<1>3. \A n \in Nat : n <= n + 0
  OBVIOUS
<1> QED
  BY <1>1, <1>2, <1>3, Zenon DEF Covered

LEMMA PublishCovered ==
    ASSUME IInv, NEW p \in Stored, Covered(p), NEW b \in Bodies, Publish(b)
    PROVE  Covered(p)'
<1> USE MaxRetriesAssumption
<1>1. DEFINE m == [body |-> b, attempt |-> 0]
<1>2. m \in Messages /\ m.attempt <= MaxRetries
  BY DEF Messages
<1>3. /\ ready' = [ready EXCEPT ![m] = @ + 1]
      /\ published' = [published EXCEPT ![b] = @ + 1]
      /\ UNCHANGED <<retry, posts, pc, msg>>
      /\ budget'["crash"] = budget["crash"] /\ budget'["broker"] = budget["broker"]
  BY DEF Publish, Spend, IInv, TypeOK, Faults, client
<1>4. p \in Bodies /\ published \in [Bodies -> Nat] /\ posts[p] \in Nat
  BY PaymentsAssumption DEF Bodies, IInv, TypeOK
<1>5. Allowance(p)' = Allowance(p) + Worth(m, p)
  <2>1. CASE b = p
    <3>1. published[p] + Spent("crash") + Spent("broker") \in Int
      BY <1>4, BudgetAssumption DEF IInv, TypeOK, Spent, Faults
    <3>2. published'[p] + Spent("crash")' + Spent("broker")'
             = (published[p] + Spent("crash") + Spent("broker")) + 1
      BY <1>3, <1>4, <2>1, BudgetAssumption DEF IInv, TypeOK, Spent, Faults
    <3>3. Worth(m, p) = MaxRetries + 1
      BY <2>1 DEF Worth
    <3> QED
      BY <3>1, <3>2, <3>3, AllowanceGrows DEF Allowance
  <2>2. CASE b # p
    BY <1>3, <1>4, <2>2, AllowanceType DEF Allowance, Spent, Worth
  <2> QED
    BY <2>1, <2>2
<1>6. posts'[p] = posts[p] + 0
  BY <1>3, <1>4
<1>7. Worth(m, p) \in Int
  BY <1>2, WorthType
<1>8. 0 \in Int /\ Worth(m, p) + 0 + 0 + 0 <= Worth(m, p)
  BY <1>7
<1> HIDE DEF m
<1> QED
  BY <1>2, <1>3, <1>5, <1>6, <1>7, <1>8, Added, Kept, SameHandlers, Balanced, Zenon

LEMMA ExpireCovered ==
    ASSUME IInv, AttemptInv, NEW p \in Stored, Covered(p), NEW m \in Messages, Expire(m)
    PROVE  Covered(p)'
<1>1. /\ retry[m] > 0
      /\ retry' = [retry EXCEPT ![m] = @ - 1]
      /\ ready' = [ready EXCEPT ![m] = @ + 1]
      /\ UNCHANGED <<published, budget, posts, pc, msg>>
  BY DEF Expire, client
<1>2. m.attempt <= MaxRetries
  BY <1>1, MaxRetriesAssumption DEF AttemptInv, DlqJustified
<1>3. posts'[p] = posts[p] + 0
  BY <1>1 DEF IInv, TypeOK
<1>4. Allowance(p)' = Allowance(p) + 0
  BY <1>1, AllowanceType DEF Allowance, Spent
<1>5. Worth(m, p) \in Int
  BY <1>2, WorthType
<1>6. 0 \in Int /\ 0 - Worth(m, p) \in Int /\ Worth(m, p) + (0 - Worth(m, p)) + 0 + 0 <= 0
  BY <1>5
<1> QED
  BY <1>1, <1>2, <1>3, <1>4, <1>5, <1>6, Added, Removed, SameHandlers, Balanced, Zenon

\* The credits a handler holds are those of its message, but for a request made.
LEMMA FirstCreditIs ==
    ASSUME IInv, AttemptInv, NEW p \in Stored, NEW h \in Handlers
    PROVE  /\ pc[h] \in {"idle", "ack"} => FirstCredit(p)[h] = MaxRetries + 1
           /\ pc[h] \notin {"idle", "ack"} =>
                /\ pc[h] \notin Requested =>
                      FirstCredit(p)[h] = MaxRetries + 1 - Worth(msg[h], p)
                /\ pc[h] \in Requested =>
                      FirstCredit(p)[h] = MaxRetries + 1 - Worth(msg[h], p)
                                             + (IF P(h) = p THEN 1 ELSE 0)
<1> USE MaxRetriesAssumption
<1>1. CASE pc[h] \in {"idle", "ack"}
  BY <1>1 DEF FirstCredit, Handled
<1>2. CASE pc[h] \notin {"idle", "ack"}
  <2>1. msg[h].attempt \in 0..MaxRetries
    BY <1>2, InFlight
  <2>2. CASE P(h) = p
    BY <1>2, <2>1, <2>2 DEF FirstCredit, Handled, Worth, P, NextAttempt, Requested
  <2>3. CASE P(h) # p
    BY <1>2, <2>3 DEF FirstCredit, Handled, Worth, P
  <2> QED
    BY <2>2, <2>3
<1> QED
  BY <1>1, <1>2

LEMMA FirstCreditBecomes ==
    ASSUME IInv', AttemptInv', NEW p \in Stored, NEW h \in Handlers
    PROVE  /\ pc'[h] \in {"idle", "ack"} => FirstCredit(p)'[h] = MaxRetries + 1
           /\ pc'[h] \notin {"idle", "ack"} =>
                /\ pc'[h] \notin Requested =>
                      FirstCredit(p)'[h] = MaxRetries + 1 - Worth(msg'[h], p)
                /\ pc'[h] \in Requested =>
                      FirstCredit(p)'[h] = MaxRetries + 1 - Worth(msg'[h], p)
                                              + (IF P(h)' = p THEN 1 ELSE 0)
<1>1. (IInv /\ AttemptInv =>
           /\ pc[h] \in {"idle", "ack"} => FirstCredit(p)[h] = MaxRetries + 1
           /\ pc[h] \notin {"idle", "ack"} =>
                /\ pc[h] \notin Requested =>
                      FirstCredit(p)[h] = MaxRetries + 1 - Worth(msg[h], p)
                /\ pc[h] \in Requested =>
                      FirstCredit(p)[h] = MaxRetries + 1 - Worth(msg[h], p)
                                             + (IF P(h) = p THEN 1 ELSE 0))'
  BY FirstCreditIs, PTL
<1>2. Worth(msg[h], p)' = Worth(msg'[h], p)
  BY DEF Worth
<1> QED
  BY <1>1, <1>2

LEMMA HeldWorth ==
    ASSUME IInv, AttemptInv, NEW p \in Stored, NEW h \in Handlers, pc[h] # "idle"
    PROVE  /\ msg[h] \in Messages /\ msg[h].attempt <= MaxRetries
           /\ Worth(msg[h], p) \in Int
           /\ 0 <= Worth(msg[h], p) /\ Worth(msg[h], p) <= MaxRetries + 1
           /\ P(h) = p => 1 <= Worth(msg[h], p)
<1>1. msg[h] \in Messages /\ msg[h].attempt \in 0..MaxRetries
  BY InFlight
<1>2. msg[h].attempt <= MaxRetries
  BY <1>1
<1>3. P(h) = p => Worth(msg[h], p) = MaxRetries + 1 - msg[h].attempt
  BY DEF Worth, P
<1>4. P(h) = p => 1 <= Worth(msg[h], p)
  BY <1>1, <1>3, MaxRetriesAssumption
<1> QED
  BY <1>1, <1>2, <1>4, WorthType

LEMMA ReceiveCovered ==
    ASSUME IInv, AttemptInv, IInv', AttemptInv', NEW p \in Stored, Covered(p), NEW h \in Handlers,
           NEW m \in Messages, Receive(h, m)
    PROVE  Covered(p)'
<1>1. /\ pc[h] = "idle"
      /\ ready[m] > 0
      /\ ready' = [ready EXCEPT ![m] = @ - 1]
      /\ UNCHANGED <<retry, published, budget, posts>>
      /\ \A g \in Handlers \ {h} : pc'[g] = pc[g] /\ msg'[g] = msg[g]
      /\ msg'[h] = m
      /\ pc'[h] \in {"finalize", "route"}
      /\ pc'[h] = "route" => m.body # p
  BY PaymentsAssumption DEF Receive, Raise, Goto, IInv, TypeOK, client
<1>2. m.attempt <= MaxRetries
  BY <1>1 DEF AttemptInv
<1>3. Worth(m, p) \in Int
  BY <1>2, WorthType
<1>4. FirstCredit(p)[h] = MaxRetries + 1
  BY <1>1, FirstCreditIs
<1>5. FirstCredit(p)'[h] = MaxRetries + 1 - Worth(m, p)
  <2>1. P(h)' = m.body
    BY <1>1 DEF P
  <2> QED
    BY <1>1, <1>3, <2>1, FirstCreditBecomes, MaxRetriesAssumption DEF Requested
<1>6. posts'[p] = posts[p] + 0
  BY <1>1 DEF IInv, TypeOK
<1>7. Allowance(p)' = Allowance(p) + 0
  BY <1>1, AllowanceType DEF Allowance, Spent
<1>8. /\ 0 \in Int /\ 0 - Worth(m, p) \in Int
      /\ FirstCredit(p)[h] + (0 - Worth(m, p)) + 0 + 0 <= FirstCredit(p)'[h] + 0
  BY <1>3, <1>4, <1>5, MaxRetriesAssumption
<1> QED
  BY <1>1, <1>2, <1>6, <1>7, <1>8, Removed, Kept, Accounted, Zenon

LEMMA SendCovered ==
    ASSUME IInv, AttemptInv, IInv', AttemptInv', NEW p \in Stored, Covered(p), NEW h \in Handlers,
           Send(h)
    PROVE  Covered(p)'
<1>1. /\ pc[h] = "sending" /\ pc'[h] = "commitDelivery"
      /\ posts' = [posts EXCEPT ![P(h)] = @ + 1]
      /\ UNCHANGED <<ready, retry, published, budget, msg>>
      /\ \A g \in Handlers \ {h} : pc'[g] = pc[g] /\ msg'[g] = msg[g]
  BY DEF Send, Goto, IInv, TypeOK, broker
<1>2. Worth(msg[h], p) \in Int
  BY <1>1, HeldWorth
<1>3. PICK one \in Int : one = IF P(h) = p THEN 1 ELSE 0
  OBVIOUS
<1>4. FirstCredit(p)[h] = MaxRetries + 1 - Worth(msg[h], p)
  BY <1>1, FirstCreditIs DEF Requested
<1>5. FirstCredit(p)'[h] = MaxRetries + 1 - Worth(msg[h], p) + one
  <2>1. P(h)' = P(h) /\ msg'[h] = msg[h]
    BY <1>1 DEF P
  <2> QED
    BY <1>1, <1>3, <2>1, FirstCreditBecomes DEF Requested
<1>6. posts'[p] = posts[p] + one
  BY <1>1, <1>3 DEF IInv, TypeOK
<1>7. Allowance(p)' = Allowance(p) + 0
  BY <1>1, AllowanceType DEF Allowance, Spent
<1>8. 0 \in Int /\ FirstCredit(p)[h] + 0 + 0 + one <= FirstCredit(p)'[h] + 0
  BY <1>2, <1>3, <1>4, <1>5, MaxRetriesAssumption
<1> QED
  BY <1>1, <1>3, <1>6, <1>7, <1>8, Kept, Accounted, Zenon

\* What handle_delivery publishes is worth no more than the handler has left.
LEMMA ForwardWorth ==
    ASSUME IInv, AttemptInv, NEW p \in Stored, Covered(p), NEW h \in Handlers, pc[h] = "route",
           Forward(h) \/ UNCHANGED retry,
           NEW one \in Int, one = IF P(h) = p THEN 1 ELSE 0
    PROVE  /\ IsFiniteSet(QueueCredits(retry, p)')
           /\ Cardinality(QueueCredits(retry, p)')
                 <= Cardinality(QueueCredits(retry, p)) + (Worth(msg[h], p) - one)
<1> USE MaxRetriesAssumption
<1>1. /\ msg[h] \in Messages /\ msg[h].attempt <= MaxRetries
      /\ Worth(msg[h], p) \in Int
      /\ 0 <= Worth(msg[h], p) /\ (P(h) = p => 1 <= Worth(msg[h], p))
  BY HeldWorth
<1>2. Cardinality(QueueCredits(retry, p)) \in Nat
  BY FS_CardinalityType DEF Covered
<1>3. CASE UNCHANGED retry
  <2>1. /\ IsFiniteSet(QueueCredits(retry, p)')
        /\ Cardinality(QueueCredits(retry, p)') <= Cardinality(QueueCredits(retry, p)) + 0
    BY <1>3, Kept
  <2>2. Cardinality(QueueCredits(retry, p)') \in Nat
    BY <2>1, FS_CardinalityType
  <2> QED
    BY <1>1, <1>2, <2>1, <2>2
<1>4. CASE /\ ~Exhausted(h)
           /\ retry' = [retry EXCEPT ![[body |-> P(h), attempt |-> NextAttempt(h)]] = @ + 1]
  <2>1. DEFINE m == [body |-> P(h), attempt |-> NextAttempt(h)]
  <2>2. m \in Messages /\ m.attempt <= MaxRetries
    BY <1>1, <1>4 DEF Messages, P, Exhausted, NextAttempt
  <2>3. Worth(m, p) = Worth(msg[h], p) - one
    BY <1>1 DEF Worth, P, NextAttempt, Messages
  <2> HIDE DEF m
  <2>4. retry' = [retry EXCEPT ![m] = @ + 1]
    BY <1>4 DEF m
  <2>5. /\ IsFiniteSet(QueueCredits(retry, p)')
        /\ Cardinality(QueueCredits(retry, p)') <= Cardinality(QueueCredits(retry, p)) + Worth(m, p)
    BY <2>2, <2>4, Added
  <2> QED
    BY <2>3, <2>5, Zenon
<1> QED
  BY <1>3, <1>4 DEF Forward

LEMMA RouteCovered ==
    ASSUME IInv, AttemptInv, IInv', AttemptInv', NEW p \in Stored, Covered(p), NEW h \in Handlers,
           Route(h)
    PROVE  Covered(p)'
<1>1. /\ pc[h] = "route" /\ pc'[h] = "ack"
      /\ Forward(h)
      /\ UNCHANGED <<ready, published, budget, posts, msg>>
      /\ \A g \in Handlers \ {h} : pc'[g] = pc[g] /\ msg'[g] = msg[g]
  BY DEF Route, Goto, IInv, TypeOK, client
<1>2. Worth(msg[h], p) \in Int
  BY <1>1, HeldWorth
<1>3. PICK one \in Int : one = IF P(h) = p THEN 1 ELSE 0
  OBVIOUS
<1>4. FirstCredit(p)[h] = MaxRetries + 1 - Worth(msg[h], p) + one
  BY <1>1, <1>3, FirstCreditIs DEF Requested
<1>5. FirstCredit(p)'[h] = MaxRetries + 1
  BY <1>1, FirstCreditBecomes
<1>6. posts'[p] = posts[p] + 0
  BY <1>1 DEF IInv, TypeOK
<1>7. Allowance(p)' = Allowance(p) + 0
  BY <1>1, AllowanceType DEF Allowance, Spent
<1>8. /\ 0 \in Int /\ Worth(msg[h], p) - one \in Int
      /\ FirstCredit(p)[h] + 0 + (Worth(msg[h], p) - one) + 0 <= FirstCredit(p)'[h] + 0
  BY <1>2, <1>3, <1>4, <1>5, MaxRetriesAssumption
<1>9. /\ IsFiniteSet(QueueCredits(retry, p)')
      /\ Cardinality(QueueCredits(retry, p)')
            <= Cardinality(QueueCredits(retry, p)) + (Worth(msg[h], p) - one)
  BY <1>1, <1>3, ForwardWorth
<1> QED
  BY <1>1, <1>6, <1>7, <1>8, <1>9, Kept, Accounted, Zenon

\* A broker fault or a crash allows one more series of requests.
LEMMA FaultAllows ==
    ASSUME IInv, NEW p \in Stored, UNCHANGED published, Spend("broker") \/ Spend("crash")
    PROVE  Allowance(p)' = Allowance(p) + (MaxRetries + 1)
<1>1. published[p] + Spent("crash") + Spent("broker") \in Int
  BY PaymentsAssumption, BudgetAssumption DEF IInv, TypeOK, Spent, Faults, Bodies
<1>2. published'[p] + Spent("crash")' + Spent("broker")'
         = (published[p] + Spent("crash") + Spent("broker")) + 1
  BY PaymentsAssumption, BudgetAssumption DEF IInv, TypeOK, Spend, Spent, Faults, Bodies
<1> QED
  BY <1>1, <1>2, AllowanceGrows DEF Allowance

LEMMA RouteFailsCovered ==
    ASSUME IInv, AttemptInv, IInv', AttemptInv', NEW p \in Stored, Covered(p), NEW h \in Handlers,
           RouteFails(h)
    PROVE  Covered(p)'
<1>1. /\ pc[h] = "route" /\ pc'[h] = "nack"
      /\ Forward(h) \/ UNCHANGED retry
      /\ Spend("broker")
      /\ UNCHANGED <<ready, published, posts, msg>>
      /\ \A g \in Handlers \ {h} : pc'[g] = pc[g] /\ msg'[g] = msg[g]
  BY DEF RouteFails, Goto, IInv, TypeOK, client
<1>2. Worth(msg[h], p) \in Int /\ Worth(msg[h], p) <= MaxRetries + 1
  BY <1>1, HeldWorth
<1>3. PICK one \in Int : one = IF P(h) = p THEN 1 ELSE 0
  OBVIOUS
<1>4. FirstCredit(p)[h] = MaxRetries + 1 - Worth(msg[h], p) + one
  BY <1>1, <1>3, FirstCreditIs DEF Requested
<1>5. FirstCredit(p)'[h] = MaxRetries + 1 - Worth(msg[h], p)
  BY <1>1, FirstCreditBecomes DEF Requested
<1>6. posts'[p] = posts[p] + 0
  BY <1>1 DEF IInv, TypeOK
<1>7. Allowance(p)' = Allowance(p) + (MaxRetries + 1)
  BY <1>1, FaultAllows
<1>8. /\ 0 \in Int /\ MaxRetries + 1 \in Int /\ Worth(msg[h], p) - one \in Int
      /\ FirstCredit(p)[h] + 0 + (Worth(msg[h], p) - one) + 0
            <= FirstCredit(p)'[h] + (MaxRetries + 1)
  BY <1>2, <1>3, <1>4, <1>5, MaxRetriesAssumption
<1>9. /\ IsFiniteSet(QueueCredits(retry, p)')
      /\ Cardinality(QueueCredits(retry, p)')
            <= Cardinality(QueueCredits(retry, p)) + (Worth(msg[h], p) - one)
  BY <1>1, <1>3, ForwardWorth
<1> QED
  BY <1>1, <1>6, <1>7, <1>8, <1>9, Kept, Accounted, Zenon

LEMMA AckFailsCovered ==
    ASSUME IInv, AttemptInv, IInv', AttemptInv', NEW p \in Stored, Covered(p), NEW h \in Handlers,
           AckFails(h)
    PROVE  Covered(p)'
<1>1. /\ pc[h] = "ack" /\ pc'[h] = "nack"
      /\ Spend("broker")
      /\ UNCHANGED <<ready, retry, published, posts, msg>>
      /\ \A g \in Handlers \ {h} : pc'[g] = pc[g] /\ msg'[g] = msg[g]
  BY DEF AckFails, Goto, IInv, TypeOK, client, broker
<1>2. Worth(msg[h], p) \in Int /\ Worth(msg[h], p) <= MaxRetries + 1
  BY <1>1, HeldWorth
<1>3. FirstCredit(p)[h] = MaxRetries + 1
  BY <1>1, FirstCreditIs
<1>4. FirstCredit(p)'[h] = MaxRetries + 1 - Worth(msg[h], p)
  BY <1>1, FirstCreditBecomes DEF Requested
<1>5. posts'[p] = posts[p] + 0
  BY <1>1 DEF IInv, TypeOK
<1>6. Allowance(p)' = Allowance(p) + (MaxRetries + 1)
  BY <1>1, FaultAllows
<1>7. /\ 0 \in Int /\ MaxRetries + 1 \in Int
      /\ FirstCredit(p)[h] + 0 + 0 + 0 <= FirstCredit(p)'[h] + (MaxRetries + 1)
  BY <1>2, <1>3, <1>4, MaxRetriesAssumption
<1> QED
  BY <1>1, <1>5, <1>6, <1>7, Kept, Accounted, Zenon

\* The broker takes a delivery back: a copy more, as it was received.
LEMMA RequeueWorth ==
    ASSUME IInv, AttemptInv, NEW p \in Stored, Covered(p), NEW h \in Handlers, pc[h] # "idle",
           Requeue(h)
    PROVE  /\ IsFiniteSet(QueueCredits(ready, p)')
           /\ Cardinality(QueueCredits(ready, p)')
                 <= Cardinality(QueueCredits(ready, p)) + Worth(msg[h], p)
<1>1. /\ msg[h] \in Messages /\ msg[h].attempt <= MaxRetries
      /\ Worth(msg[h], p) \in Int /\ 0 <= Worth(msg[h], p)
  BY HeldWorth
<1>2. CASE ready' = [ready EXCEPT ![msg[h]] = @ + 1]
  BY <1>1, <1>2, Added
<1>3. CASE UNCHANGED ready
  <2>1. /\ IsFiniteSet(QueueCredits(ready, p)')
        /\ Cardinality(QueueCredits(ready, p)') <= Cardinality(QueueCredits(ready, p)) + 0
    BY <1>3, Kept
  <2>2. /\ Cardinality(QueueCredits(ready, p)') \in Nat
        /\ Cardinality(QueueCredits(ready, p)) \in Nat
    BY <2>1, FS_CardinalityType DEF Covered
  <2> QED
    BY <1>1, <2>1, <2>2
<1> QED
  BY <1>2, <1>3 DEF Requeue

LEMMA NackCovered ==
    ASSUME IInv, AttemptInv, IInv', AttemptInv', NEW p \in Stored, Covered(p), NEW h \in Handlers,
           Nack(h)
    PROVE  Covered(p)'
<1>1. /\ pc[h] = "nack" /\ pc'[h] = "idle"
      /\ Requeue(h)
      /\ UNCHANGED <<retry, published, budget, posts>>
      /\ \A g \in Handlers \ {h} : pc'[g] = pc[g] /\ msg'[g] = msg[g]
  BY DEF Nack, Finish, Goto, IInv, TypeOK, client
<1>2. Worth(msg[h], p) \in Int
  BY <1>1, HeldWorth
<1>3. FirstCredit(p)[h] = MaxRetries + 1 - Worth(msg[h], p)
  BY <1>1, FirstCreditIs DEF Requested
<1>4. FirstCredit(p)'[h] = MaxRetries + 1
  BY <1>1, FirstCreditBecomes
<1>5. posts'[p] = posts[p] + 0
  BY <1>1 DEF IInv, TypeOK
<1>6. Allowance(p)' = Allowance(p) + 0
  BY <1>1, AllowanceType DEF Allowance, Spent
<1>7. /\ 0 \in Int
      /\ FirstCredit(p)[h] + Worth(msg[h], p) + 0 + 0 <= FirstCredit(p)'[h] + 0
  BY <1>2, <1>3, <1>4, MaxRetriesAssumption
<1>8. pc[h] # "idle"
  BY <1>1
<1> QED
  BY <1>1, <1>2, <1>5, <1>6, <1>7, <1>8, RequeueWorth, Kept, Accounted, Zenon

LEMMA ChannelLostCovered ==
    ASSUME IInv, AttemptInv, IInv', AttemptInv', NEW p \in Stored, Covered(p), NEW h \in Handlers,
           ChannelLost(h)
    PROVE  Covered(p)'
<1>1. /\ pc[h] # "idle"
      /\ Requeue(h)
      /\ Spend("broker")
      /\ UNCHANGED <<retry, published, posts, pc, msg>>
      /\ \A g \in Handlers \ {h} : pc'[g] = pc[g] /\ msg'[g] = msg[g]
  BY DEF ChannelLost, IInv, LocalInv, client
<1>2. Worth(msg[h], p) \in Int /\ Worth(msg[h], p) <= MaxRetries + 1
  BY <1>1, HeldWorth
<1>3. FirstCredit(p)'[h] = FirstCredit(p)[h] /\ FirstCredit(p)[h] \in Int
  <2>1. FirstCredit(p)'[h] = FirstCredit(p)[h]
    BY <1>1 DEF FirstCredit, Handled, P, NextAttempt
  <2> QED
    BY <2>1, FirstCreditType
<1>4. posts'[p] = posts[p] + 0
  BY <1>1 DEF IInv, TypeOK
<1>5. Allowance(p)' = Allowance(p) + (MaxRetries + 1)
  BY <1>1, FaultAllows
<1>6. /\ 0 \in Int /\ MaxRetries + 1 \in Int
      /\ FirstCredit(p)[h] + Worth(msg[h], p) + 0 + 0 <= FirstCredit(p)'[h] + (MaxRetries + 1)
  BY <1>2, <1>3, MaxRetriesAssumption
<1> QED
  BY <1>1, <1>2, <1>4, <1>5, <1>6, RequeueWorth, Kept, Accounted, Zenon

LEMMA CrashCovered ==
    ASSUME IInv, AttemptInv, IInv', AttemptInv', NEW p \in Stored, Covered(p), NEW h \in Handlers,
           Crash(h)
    PROVE  Covered(p)'
<1>1. /\ pc[h] # "idle" /\ pc'[h] = "idle"
      /\ Requeue(h)
      /\ Spend("crash")
      /\ UNCHANGED <<retry, published, posts>>
      /\ \A g \in Handlers \ {h} : pc'[g] = pc[g] /\ msg'[g] = msg[g]
  BY DEF Crash, Finish, Goto, IInv, TypeOK, client
<1>2. Worth(msg[h], p) \in Int /\ Worth(msg[h], p) <= MaxRetries + 1
  BY <1>1, HeldWorth
<1>3. FirstCredit(p)[h] \in 0..(MaxRetries + 1)
  BY FirstCreditType
<1>4. FirstCredit(p)'[h] = MaxRetries + 1
  BY <1>1, FirstCreditBecomes
<1>5. posts'[p] = posts[p] + 0
  BY <1>1 DEF IInv, TypeOK
<1>6. Allowance(p)' = Allowance(p) + (MaxRetries + 1)
  BY <1>1, FaultAllows
<1>7. /\ 0 \in Int /\ MaxRetries + 1 \in Int
      /\ FirstCredit(p)[h] + Worth(msg[h], p) + 0 + 0 <= FirstCredit(p)'[h] + (MaxRetries + 1)
  BY <1>2, <1>3, <1>4, MaxRetriesAssumption
<1> QED
  BY <1>1, <1>2, <1>5, <1>6, <1>7, RequeueWorth, Kept, Accounted, Zenon

\* The steps that keep the copy and make no request.
Silent(h) ==
    \/ NotFound(h) \/ AlreadyFinal(h) \/ LockPending(h)
    \/ Charge(h) \/ CommitCharge(h) \/ CommitChargeFails(h)
    \/ NothingToSend(h) \/ LockForDelivery(h)
    \/ CommitDelivery(h) \/ CommitDeliveryFails(h)
    \/ Ack(h) \/ SelectFails(h) \/ SessionLost(h)

\* What such a step does to the label of its handler.
Advance(h) ==
    \/ pc[h] = "ack" /\ pc'[h] = "idle"
    \/ /\ pc[h] # "idle" /\ msg'[h] = msg[h]
       /\ pc[h] \in Requested => pc'[h] \in Requested \cup {"ack"}
       /\ pc[h] = "ack" => pc'[h] = "ack"

LEMMA SilentAdvances ==
    ASSUME IInv, NEW h \in Handlers, Silent(h)
    PROVE  /\ \A g \in Handlers \ {h} : pc'[g] = pc[g] /\ msg'[g] = msg[g]
           /\ UNCHANGED <<ready, retry, posts, published>>
           /\ budget'["crash"] = budget["crash"] /\ budget'["broker"] = budget["broker"]
           /\ Advance(h)
<1> USE DEF IInv, TypeOK, LocalInv, Raise, Goto, Finish, Requested, Advance,
            broker, client, Faults, Spend
<1>1. CASE NotFound(h) \/ AlreadyFinal(h) \/ LockPending(h)
  BY <1>1 DEF NotFound, AlreadyFinal, LockPending
<1>2. CASE Charge(h) \/ CommitCharge(h)
  BY <1>2 DEF Charge, CommitCharge
<1>3. CASE CommitChargeFails(h)
  BY <1>3 DEF CommitChargeFails
<1>4. CASE NothingToSend(h) \/ LockForDelivery(h)
  BY <1>4 DEF NothingToSend, LockForDelivery
<1>5. CASE CommitDelivery(h)
  BY <1>5 DEF CommitDelivery
<1>6. CASE CommitDeliveryFails(h)
  BY <1>6 DEF CommitDeliveryFails
<1>7. CASE Ack(h)
  BY <1>7 DEF Ack
<1>8. CASE SelectFails(h)
  BY <1>8 DEF SelectFails
<1>9. CASE SessionLost(h)
  BY <1>9 DEF SessionLost
<1> QED
  BY <1>1, <1>2, <1>3, <1>4, <1>5, <1>6, <1>7, <1>8, <1>9 DEF Silent

LEMMA SilentCovered ==
    ASSUME IInv, AttemptInv, IInv', AttemptInv', NEW p \in Stored, Covered(p), NEW h \in Handlers,
           Silent(h)
    PROVE  Covered(p)'
<1>1. /\ \A g \in Handlers \ {h} : pc'[g] = pc[g] /\ msg'[g] = msg[g]
      /\ UNCHANGED <<ready, retry, posts, published>>
      /\ budget'["crash"] = budget["crash"] /\ budget'["broker"] = budget["broker"]
      /\ Advance(h)
  BY SilentAdvances
<1>2. FirstCredit(p)'[h] >= FirstCredit(p)[h]
  <2>1. FirstCredit(p)[h] \in 0..(MaxRetries + 1) /\ FirstCredit(p)'[h] \in 0..(MaxRetries + 1)
    BY FirstCreditStep
  <2>2. CASE pc'[h] \in {"idle", "ack"}
    BY <2>1, <2>2, FirstCreditBecomes, MaxRetriesAssumption
  <2>3. CASE pc'[h] \notin {"idle", "ack"}
    <3>1. /\ pc[h] \notin {"idle", "ack"} /\ msg'[h] = msg[h]
          /\ pc[h] \in Requested => pc'[h] \in Requested
      BY <1>1, <2>3 DEF Advance
    <3>2. P(h)' = P(h)
      BY <3>1 DEF P
    <3>3. Worth(msg[h], p) \in Int
      BY <3>1, HeldWorth
    <3> QED
      BY <2>3, <3>1, <3>2, <3>3, FirstCreditIs, FirstCreditBecomes, MaxRetriesAssumption
  <2> QED
    BY <2>2, <2>3
<1> QED
  BY <1>1, <1>2, Quiet

LEMMA CreditStep == IInv /\ AttemptInv /\ CreditInv /\ [Next]_vars => CreditInv'
<1> SUFFICES ASSUME IInv, AttemptInv, CreditInv, [Next]_vars, NEW p \in Stored
             PROVE  Covered(p)'
  BY DEF CreditInv
<1>1. IInv' /\ AttemptInv' /\ Covered(p)
  BY Inductive, AttemptStep DEF CreditInv
<1>2. ASSUME NEW b \in Bodies, Publish(b) PROVE Covered(p)'
  BY <1>1, <1>2, PublishCovered
<1>3. ASSUME NEW m \in Messages, Expire(m) PROVE Covered(p)'
  BY <1>1, <1>3, ExpireCovered
<1>4. ASSUME NEW h \in Handlers, NEW m \in Messages, Receive(h, m) PROVE Covered(p)'
  BY <1>1, <1>4, ReceiveCovered
<1>5. ASSUME NEW h \in Handlers, Silent(h) PROVE Covered(p)'
  BY <1>1, <1>5, SilentCovered
<1>6. ASSUME NEW h \in Handlers, Send(h) PROVE Covered(p)'
  BY <1>1, <1>6, SendCovered
<1>7. ASSUME NEW h \in Handlers, Route(h) PROVE Covered(p)'
  BY <1>1, <1>7, RouteCovered
<1>8. ASSUME NEW h \in Handlers, RouteFails(h) PROVE Covered(p)'
  BY <1>1, <1>8, RouteFailsCovered
<1>9. ASSUME NEW h \in Handlers, AckFails(h) PROVE Covered(p)'
  BY <1>1, <1>9, AckFailsCovered
<1>10. ASSUME NEW h \in Handlers, Nack(h) PROVE Covered(p)'
  BY <1>1, <1>10, NackCovered
<1>11. ASSUME NEW h \in Handlers, ChannelLost(h) PROVE Covered(p)'
  BY <1>1, <1>11, ChannelLostCovered
<1>12. ASSUME NEW h \in Handlers, Crash(h) PROVE Covered(p)'
  BY <1>1, <1>12, CrashCovered
<1>13. CASE UNCHANGED vars
  BY <1>1, <1>13 DEF vars, broker, row, gate, client, Covered, Outstanding, Allowance, Spent,
     QueueCredits, CopiesOf, HandlerCredits, FirstCredit, Handled, P, NextAttempt
<1> QED
  BY <1>2, <1>3, <1>4, <1>5, <1>6, <1>7, <1>8, <1>9, <1>10, <1>11, <1>12, <1>13
     DEF Next, Step, Fault, Waiting, Silent

LEMMA CreditInit == Init => CreditInv
<1> SUFFICES ASSUME Init, NEW p \in Stored PROVE Covered(p)
  BY DEF CreditInv
<1> USE MaxRetriesAssumption
<1>1. QueueCredits(ready, p) = {} /\ QueueCredits(retry, p) = {}
  <2>1. p \in Bodies
    BY PaymentsAssumption DEF Bodies
  <2>2. \A a \in 0..MaxRetries : CopiesOf(ready, p, a) = {} /\ CopiesOf(retry, p, a) = {}
    BY <2>1 DEF Init, CopiesOf, Messages
  <2> QED
    BY <2>2 DEF QueueCredits
<1>2. HandlerCredits(FirstCredit(p)) = {}
  BY DEF Init, HandlerCredits, FirstCredit, Handled
<1>3. IsFiniteSet({}) /\ Cardinality({}) = 0
  BY FS_EmptySet
<1>4. Outstanding(p) = 0
  BY <1>1, <1>2, <1>3 DEF Outstanding
<1>5. posts[p] = 0 /\ Allowance(p) = 0
  <2>1. published[p] = 0 /\ Spent("crash") = 0 /\ Spent("broker") = 0
    BY PaymentsAssumption, BudgetAssumption DEF Init, Bodies, Spent, Faults
  <2> QED
    BY <2>1 DEF Init, Allowance
<1> QED
  BY <1>1, <1>2, <1>3, <1>4, <1>5 DEF Covered

\* consumer.py:90-106: each published event makes the first delivery and
\* max_retries more, in whatever order copies are requeued, retried and buried,
\* and only a crash or a broker fault adds another such series of requests.
THEOREM RequestsBounded == Spec => []PostsBounded
<1>1. CreditInv /\ IInv => PostsBounded
  <2> SUFFICES ASSUME CreditInv, IInv, NEW p \in Stored PROVE posts[p] <= Allowance(p)
    BY DEF PostsBounded, Allowance
  <2>1. posts[p] + Outstanding(p) <= Allowance(p)
    BY DEF CreditInv, Covered
  <2>2. Outstanding(p) \in Nat
    <3>1. /\ Cardinality(QueueCredits(ready, p)) \in Nat
          /\ Cardinality(QueueCredits(retry, p)) \in Nat
          /\ Cardinality(HandlerCredits(FirstCredit(p))) \in Nat
      BY FS_CardinalityType DEF CreditInv, Covered
    <3> QED
      BY <3>1 DEF Outstanding
  <2>3. posts[p] \in Nat /\ Allowance(p) \in Int
    BY AllowanceType DEF IInv, TypeOK
  <2> QED
    BY <2>1, <2>2, <2>3
<1>2. Init => AttemptInv
  BY DEF Init, AttemptInv, DlqJustified
<1> QED
  BY <1>1, <1>2, CreditInit, CreditStep, AttemptStep, Invariance, PTL DEF Spec

-----------------------------------------------------------------------------
(* How often a payment is charged, and its webhook accepted so that the    *)
(* sender hears of it.  A handler whose session is gone goes on all the     *)
(* same: the charge or the request it will make is paid for when the        *)
(* session goes, and made later.                                            *)

\* Handlers about to do for p what they will not be able to commit.
Orphans(p, label) == {h \in Handlers : pc[h] = label /\ P(h) = p /\ ~Holds(h, p)}

Interruptions == Spent("crash") + Spent("db")

\* One charge, one request heard to be accepted: on the row, or about to be written there.
FirstCharge(p) == IF status[p] # "pending" \/ AnswerAwaitsCommit(p) THEN 1 ELSE 0

FirstAccept(p) ==
    IF delivered[p] \/ (RequestAwaitsCommit(p) /\ res[lock[p]] = "ok") THEN 1 ELSE 0

PaidFor(count, orphans, allowed) ==
    IsFiniteSet(orphans) /\ count + Cardinality(orphans) <= allowed

ChargesPaid(p) ==
    PaidFor(charges[p], Orphans(p, "charging"), Interruptions + FirstCharge(p))

AcceptsPaid(p) ==
    PaidFor(heard[p], Orphans(p, "sending"), Interruptions + FirstAccept(p))

\* Requests the row counts, or is about to.
Recorded(p) == attempts[p] + (IF RequestAwaitsCommit(p) THEN 1 ELSE 0)

RequestsPaid(p) ==
    /\ Recorded(p) <= posts[p]
    /\ PaidFor(posts[p], Orphans(p, "sending"), Interruptions + Recorded(p))

AllPaid(p) == ChargesPaid(p) /\ AcceptsPaid(p) /\ RequestsPaid(p)

RepeatInv == \A p \in Stored : AllPaid(p)

\* An orphan less gives one back, an orphan more takes one.
LEMMA StillPaid ==
    ASSUME NEW n \in Nat, NEW S, NEW a \in Int, PaidFor(n, S, a),
           NEW n2 \in Nat, NEW S2, NEW a2 \in Int,
           \/ S2 \subseteq S /\ n2 - n <= a2 - a
           \/ \E h \in S : S2 \subseteq S \ {h} /\ n2 - n - 1 <= a2 - a
    PROVE  PaidFor(n2, S2, a2)
<1>1. IsFiniteSet(S) /\ Cardinality(S) \in Nat
  BY FS_CardinalityType DEF PaidFor
<1>2. ASSUME S2 \subseteq S
      PROVE  IsFiniteSet(S2) /\ Cardinality(S2) \in Nat /\ Cardinality(S2) <= Cardinality(S)
  BY <1>1, <1>2, FS_Subset, FS_CardinalityType
<1>3. CASE S2 \subseteq S /\ n2 - n <= a2 - a
  BY <1>1, <1>2, <1>3 DEF PaidFor
<1>4. ASSUME NEW h \in S, S2 \subseteq S \ {h}, n2 - n - 1 <= a2 - a
      PROVE  PaidFor(n2, S2, a2)
  <2>1. S2 \subseteq S /\ S2 # S
    BY <1>4
  <2>2. Cardinality(S2) # Cardinality(S)
    BY <1>1, <2>1, FS_Subset
  <2> QED
    BY <1>1, <1>2, <1>4, <2>1, <2>2 DEF PaidFor
<1> QED
  BY <1>3, <1>4

LEMMA PaidForOneMore ==
    ASSUME NEW n \in Nat, NEW S, NEW a \in Int, PaidFor(n, S, a),
           NEW h, NEW S2, S2 \subseteq S \cup {h}, NEW a2 \in Int, a + 1 <= a2
    PROVE  PaidFor(n, S2, a2)
<1>1. IsFiniteSet(S) /\ Cardinality(S) \in Nat
  BY FS_CardinalityType DEF PaidFor
<1>2. IsFiniteSet({h}) /\ Cardinality({h}) = 1 /\ IsFiniteSet({}) /\ Cardinality({}) = 0
  BY FS_Singleton, FS_EmptySet
<1>3. {} \subseteq S /\ S2 \subseteq (S \ {}) \cup {h}
  OBVIOUS
<1>4. IsFiniteSet(S2) /\ Cardinality(S2) <= Cardinality(S) - Cardinality({}) + Cardinality({h})
  BY <1>1, <1>2, <1>3, Replaced
<1>5. Cardinality(S2) \in Nat
  BY <1>4, FS_CardinalityType
<1> QED
  BY <1>1, <1>2, <1>4, <1>5 DEF PaidFor

LEMMA InterruptionsGrow ==
    ASSUME IInv, [Next]_vars
    PROVE  /\ Interruptions \in Int /\ Interruptions' \in Int
           /\ Interruptions <= Interruptions'
           /\ Spend("crash") \/ Spend("db") => Interruptions' >= Interruptions + 1
<1>1. /\ budget \in [Faults -> Nat] /\ budget' \in [Faults -> Nat]
      /\ Budget \in [Faults -> Nat]
  BY TypeStep, BudgetAssumption DEF IInv, TypeOK
<1>2. UNCHANGED budget \/ \E fault \in Faults : Spend(fault)
  BY DEF Next, Step, Fault, Waiting, vars, Publish, Expire, Receive, NotFound, AlreadyFinal,
         LockPending, Charge, CommitCharge, CommitChargeFails, NothingToSend, LockForDelivery,
         Send, CommitDelivery, CommitDeliveryFails, Route, RouteFails, Ack, AckFails, Nack,
         SelectFails, SessionLost, ChannelLost, Crash, Faults
<1>3. \A fault \in Faults : Spend(fault) => budget' = [budget EXCEPT ![fault] = @ - 1]
  BY DEF Spend
<1> QED
  BY <1>1, <1>2, <1>3 DEF Interruptions, Spent, Faults

LEMMA FirstTypes ==
    \A p \in Stored : /\ FirstCharge(p) \in 0..1 /\ FirstCharge(p)' \in 0..1
                      /\ FirstAccept(p) \in 0..1 /\ FirstAccept(p)' \in 0..1
BY DEF FirstCharge, FirstAccept

LEMMA RecordedType ==
    ASSUME IInv, [Next]_vars, NEW p \in Stored
    PROVE  /\ Recorded(p) \in Nat /\ Recorded(p)' \in Nat
           /\ posts[p] \in Nat /\ posts'[p] \in Nat
BY TypeStep DEF IInv, TypeOK, Recorded

\* What neither charges, nor sends, nor takes a record away.
ChargesUntroubled(p) ==
    /\ charges'[p] = charges[p]
    /\ Orphans(p, "charging")' \subseteq Orphans(p, "charging")
    /\ FirstCharge(p) <= FirstCharge(p)'

AcceptsUntroubled(p) ==
    /\ heard'[p] = heard[p]
    /\ Orphans(p, "sending")' \subseteq Orphans(p, "sending")
    /\ FirstAccept(p) <= FirstAccept(p)'

RequestsUntroubled(p) ==
    /\ posts'[p] = posts[p]
    /\ Orphans(p, "sending")' \subseteq Orphans(p, "sending")
    /\ Recorded(p)' = Recorded(p)

Untroubled(p) == ChargesUntroubled(p) /\ AcceptsUntroubled(p) /\ RequestsUntroubled(p)

LEMMA ChargesUntroubledStep ==
    ASSUME IInv, [Next]_vars, NEW p \in Stored, ChargesPaid(p), ChargesUntroubled(p)
    PROVE  ChargesPaid(p)'
<1>1. charges[p] \in Nat /\ charges'[p] \in Nat
  BY TypeStep DEF IInv, TypeOK
<1> QED
  BY <1>1, StillPaid, InterruptionsGrow, FirstTypes DEF ChargesPaid, ChargesUntroubled

LEMMA AcceptsUntroubledStep ==
    ASSUME IInv, [Next]_vars, NEW p \in Stored, AcceptsPaid(p), AcceptsUntroubled(p)
    PROVE  AcceptsPaid(p)'
<1>1. heard[p] \in Nat /\ heard'[p] \in Nat
  BY TypeStep DEF IInv, TypeOK
<1> QED
  BY <1>1, StillPaid, InterruptionsGrow, FirstTypes DEF AcceptsPaid, AcceptsUntroubled

LEMMA RequestsUntroubledStep ==
    ASSUME IInv, [Next]_vars, NEW p \in Stored, RequestsPaid(p), RequestsUntroubled(p)
    PROVE  RequestsPaid(p)'
BY StillPaid, InterruptionsGrow, RecordedType DEF RequestsPaid, RequestsUntroubled

LEMMA AcceptKept ==
    ASSUME NEW p \in Stored, delivered[p] => delivered'[p],
           RequestAwaitsCommit(p) /\ res[lock[p]] = "ok"
              => RequestAwaitsCommit(p)' /\ res'[lock'[p]] = "ok"
    PROVE  FirstAccept(p) <= FirstAccept(p)'
<1>1. FirstAccept(p) = 1 => delivered[p] \/ (RequestAwaitsCommit(p) /\ res[lock[p]] = "ok")
  BY DEF FirstAccept
<1>2. delivered'[p] \/ (RequestAwaitsCommit(p)' /\ res'[lock'[p]] = "ok")
         => FirstAccept(p)' = 1
  BY DEF FirstAccept
<1>3. FirstAccept(p) = 1 => FirstAccept(p)' = 1
  BY <1>1, <1>2, Zenon
<1> QED
  BY <1>3, FirstTypes

\* A record stays, unless its holder gives the lock up.
LEMMA FirstsKept ==
    ASSUME IInv, NEW h \in Handlers, NEW p \in Stored, lock[p] # h,
           lock'[p] = lock[p] \/ lock[p] = None,
           \A g \in Handlers \ {h} : pc'[g] = pc[g] /\ res'[g] = res[g],
           status[p] # "pending" => status'[p] # "pending",
           delivered[p] => delivered'[p]
    PROVE  /\ FirstCharge(p) <= FirstCharge(p)'
           /\ FirstAccept(p) <= FirstAccept(p)'
<1>1. lock[p] \in Handlers \cup {None}
  BY DEF IInv, TypeOK
<1>2. AnswerAwaitsCommit(p) => AnswerAwaitsCommit(p)'
  BY <1>1 DEF AnswerAwaitsCommit
<1>3. RequestAwaitsCommit(p) /\ res[lock[p]] = "ok"
         => RequestAwaitsCommit(p)' /\ res'[lock'[p]] = "ok"
  BY <1>1 DEF RequestAwaitsCommit
<1>4. FirstCharge(p) = 1 => FirstCharge(p)' = 1
  BY <1>2 DEF FirstCharge
<1>5. FirstAccept(p) <= FirstAccept(p)'
  BY <1>3, AcceptKept
<1> QED
  BY <1>4, <1>5, FirstTypes

LEMMA RecordedKept ==
    ASSUME IInv, NEW h \in Handlers, NEW p \in Stored, lock[p] # h,
           \/ lock'[p] = lock[p]
           \/ lock[p] = None /\ lock'[p] = h /\ pc'[h] # "commitDelivery",
           \A g \in Handlers \ {h} : pc'[g] = pc[g],
           attempts'[p] = attempts[p]
    PROVE  Recorded(p)' = Recorded(p)
BY DEF IInv, TypeOK, Recorded, RequestAwaitsCommit

\* The steps that are nothing to the gateway and the client: no handler in a
\* transaction does them, and none of them takes a lock away.
Aside(h) ==
    \/ \E m \in Messages : Receive(h, m)
    \/ NotFound(h) \/ AlreadyFinal(h) \/ NothingToSend(h)
    \/ Route(h) \/ RouteFails(h) \/ Ack(h) \/ AckFails(h) \/ Nack(h)
    \/ SelectFails(h)

LEMMA AsideUntroubled ==
    ASSUME IInv, NEW h \in Handlers, Aside(h), NEW p \in Stored
    PROVE  Untroubled(p)
<1> USE DEF IInv, TypeOK, Goto, Raise, Finish, Requeue, row, gate, client, broker
<1>1. /\ UNCHANGED <<charges, heard, posts, status, attempts, delivered, lock>>
      /\ pc[h] \notin Transaction1 \cup Transaction2
      /\ pc'[h] \notin Transaction1 \cup Transaction2
      /\ \A g \in Handlers \ {h} : pc'[g] = pc[g] /\ msg'[g] = msg[g] /\ res'[g] = res[g]
  BY DEF Aside, Receive, NotFound, AlreadyFinal, NothingToSend, Route, RouteFails, Ack, AckFails,
         Nack, SelectFails, Transaction1, Transaction2
<1>2. lock[p] # h
  BY <1>1 DEF LockInv, Holds
<1>3. /\ Orphans(p, "charging")' \subseteq Orphans(p, "charging")
      /\ Orphans(p, "sending")' \subseteq Orphans(p, "sending")
  BY <1>1 DEF Orphans, P, Holds, Transaction1, Transaction2
<1>4. FirstCharge(p) <= FirstCharge(p)' /\ FirstAccept(p) <= FirstAccept(p)'
  BY <1>1, <1>2, FirstsKept
<1>5. Recorded(p)' = Recorded(p)
  BY <1>1, <1>2, RecordedKept
<1> QED
  BY <1>1, <1>3, <1>4, <1>5
     DEF Untroubled, ChargesUntroubled, AcceptsUntroubled, RequestsUntroubled

\* A handler takes the lock of a row that is free.
LEMMA LockingUntroubled ==
    ASSUME IInv, NEW h \in Handlers, LockPending(h) \/ LockForDelivery(h), NEW p \in Stored
    PROVE  Untroubled(p)
<1> USE DEF IInv, TypeOK, Goto, Acquire, row, gate, client, broker
<1>1. /\ UNCHANGED <<charges, heard, posts, status, attempts, delivered, msg, res>>
      /\ P(h) \in Stored /\ lock[P(h)] = None
      /\ lock' = [lock EXCEPT ![P(h)] = h]
      /\ pc[h] \notin Transaction1 \cup Transaction2 /\ pc'[h] # "commitDelivery"
      /\ \A g \in Handlers \ {h} : pc'[g] = pc[g]
  BY DEF LockPending, LockForDelivery, RowFree, Transaction1, Transaction2, LocalInv
<1>2. lock[p] # h
  BY <1>1 DEF LockInv, Holds
<1>3. /\ Orphans(p, "charging")' \subseteq Orphans(p, "charging")
      /\ Orphans(p, "sending")' \subseteq Orphans(p, "sending")
  BY <1>1, NoneAssumption DEF Orphans, P, Holds
<1>4. FirstCharge(p) <= FirstCharge(p)' /\ FirstAccept(p) <= FirstAccept(p)'
  BY <1>1, <1>2, FirstsKept
<1>5. Recorded(p)' = Recorded(p)
  BY <1>1, <1>2, RecordedKept
<1> QED
  BY <1>1, <1>3, <1>4, <1>5
     DEF Untroubled, ChargesUntroubled, AcceptsUntroubled, RequestsUntroubled

\* The end of a transaction of h; what becomes of its record is another matter.
LEMMA EndingKeeps ==
    ASSUME IInv, NEW h \in Handlers, Release(h), NEW p \in Stored,
           pc'[h] \notin Transaction1 \cup Transaction2,
           \A g \in Handlers \ {h} : pc'[g] = pc[g] /\ msg'[g] = msg[g] /\ res'[g] = res[g],
           status[p] # "pending" => status'[p] # "pending",
           delivered[p] => delivered'[p]
    PROVE  /\ Orphans(p, "charging")' \subseteq Orphans(p, "charging")
           /\ Orphans(p, "sending")' \subseteq Orphans(p, "sending")
           /\ lock[p] # h => /\ FirstCharge(p) <= FirstCharge(p)'
                             /\ FirstAccept(p) <= FirstAccept(p)'
<1> USE DEF IInv, TypeOK
<1>1. \A q \in Stored : lock'[q] = IF lock[q] = h THEN None ELSE lock[q]
  BY DEF Release
<1>2. /\ Orphans(p, "charging")' \subseteq Orphans(p, "charging")
      /\ Orphans(p, "sending")' \subseteq Orphans(p, "sending")
  BY <1>1, NoneAssumption DEF Orphans, P, Holds, Transaction1, Transaction2, LocalInv
<1>3. lock[p] # h => /\ FirstCharge(p) <= FirstCharge(p)'
                     /\ FirstAccept(p) <= FirstAccept(p)'
  BY <1>1, FirstsKept
<1> QED
  BY <1>2, <1>3

\* The steps of queues and channels.
LEMMA QueuesUntroubled ==
    ASSUME UNCHANGED <<charges, heard, posts, row, lock, pc, msg, res>>, NEW p \in Stored
    PROVE  Untroubled(p)
<1>1. /\ FirstCharge(p)' = FirstCharge(p) /\ FirstAccept(p)' = FirstAccept(p)
      /\ Recorded(p)' = Recorded(p)
  BY DEF FirstCharge, FirstAccept, Recorded, AnswerAwaitsCommit, RequestAwaitsCommit, row
<1>2. /\ Orphans(p, "charging")' = Orphans(p, "charging")
      /\ Orphans(p, "sending")' = Orphans(p, "sending")
  BY DEF Orphans, P, Holds
<1> QED
  BY <1>1, <1>2, FirstTypes
     DEF Untroubled, ChargesUntroubled, AcceptsUntroubled, RequestsUntroubled

\* The gateway answers: the first charge if the lock is held, an orphan's if not.
LEMMA ChargePaid ==
    ASSUME IInv, [Next]_vars, NEW h \in Handlers, Charge(h), NEW p \in Stored, ChargesPaid(p)
    PROVE  ChargesPaid(p)' /\ AcceptsUntroubled(p) /\ RequestsUntroubled(p)
<1> USE DEF IInv, TypeOK, Goto, row, client, broker
<1>1. /\ pc[h] = "charging" /\ pc' = [pc EXCEPT ![h] = "commitCharge"]
      /\ charges' = [charges EXCEPT ![P(h)] = @ + 1]
      /\ \A g \in Handlers \ {h} : pc'[g] = pc[g] /\ res'[g] = res[g]
      /\ UNCHANGED <<heard, posts, status, attempts, delivered, lock, msg>>
      /\ P(h) \in Stored
  BY DEF Charge, LocalInv, Transaction1
<1>2. Orphans(p, "charging")' \subseteq Orphans(p, "charging") \ {h}
  BY <1>1 DEF Orphans, P, Holds
<1>3. Orphans(p, "sending")' \subseteq Orphans(p, "sending")
  BY <1>1 DEF Orphans, P, Holds
<1>4. FirstCharge(p) <= FirstCharge(p)'
  BY <1>1 DEF FirstCharge, AnswerAwaitsCommit
<1>5. FirstAccept(p) <= FirstAccept(p)'
  <2>1. RequestAwaitsCommit(p) /\ res[lock[p]] = "ok"
           => RequestAwaitsCommit(p)' /\ res'[lock'[p]] = "ok"
    BY <1>1 DEF RequestAwaitsCommit
  <2> QED
    BY <1>1, <2>1, AcceptKept
<1>6. AcceptsUntroubled(p) /\ RequestsUntroubled(p)
  <2>1. Recorded(p)' = Recorded(p)
    BY <1>1 DEF Recorded, RequestAwaitsCommit
  <2> QED
    BY <1>1, <1>3, <1>5, <2>1, FirstTypes DEF AcceptsUntroubled, RequestsUntroubled
<1>7. CASE p # P(h)
  <2>1. ChargesUntroubled(p)
    BY <1>1, <1>2, <1>4, <1>7 DEF ChargesUntroubled
  <2> QED
    BY <1>6, <2>1, ChargesUntroubledStep
<1>8. CASE p = P(h)
  <2>1. charges[p] \in Nat /\ charges'[p] \in Nat /\ charges'[p] = charges[p] + 1
    BY <1>1, <1>8
  <2>2. CASE Holds(h, p)
    <3>1. FirstCharge(p) = 0 /\ FirstCharge(p)' = 1
      BY <1>1, <1>8, <2>2, NoneAssumption
         DEF FirstCharge, AnswerAwaitsCommit, LockInv, Transaction1, Holds
    <3> QED
      BY <1>2, <1>6, <2>1, <3>1, StillPaid, InterruptionsGrow DEF ChargesPaid
  <2>3. CASE ~Holds(h, p)
    <3>1. h \in Orphans(p, "charging")
      BY <1>1, <1>8, <2>3 DEF Orphans
    <3> DEFINE allowed == Interruptions + FirstCharge(p)
    <3>2. allowed \in Int /\ allowed' \in Int /\ allowed <= allowed'
      BY <1>4, FirstTypes, InterruptionsGrow
    <3>3. PaidFor(charges[p], Orphans(p, "charging"), allowed)
      BY DEF ChargesPaid
    <3> HIDE DEF allowed
    <3>4. PaidFor(charges'[p], Orphans(p, "charging")', allowed')
      BY <1>2, <2>1, <3>1, <3>2, <3>3, StillPaid
    <3> QED
      BY <1>6, <3>4 DEF ChargesPaid, allowed
  <2> QED
    BY <2>2, <2>3
<1> QED
  BY <1>7, <1>8

\* The client answers, likewise.
LEMMA SendPaid ==
    ASSUME IInv, DeliveryInv, [Next]_vars, NEW h \in Handlers, Send(h), NEW p \in Stored,
           AcceptsPaid(p), RequestsPaid(p)
    PROVE  ChargesUntroubled(p) /\ AcceptsPaid(p)' /\ RequestsPaid(p)'
<1> USE DEF IInv, TypeOK, Goto, row, gate, broker
<1>1. /\ pc[h] = "sending" /\ pc' = [pc EXCEPT ![h] = "commitDelivery"]
      /\ UNCHANGED <<charges, status, attempts, delivered, lock, msg>>
      /\ posts' = [posts EXCEPT ![P(h)] = @ + 1]
      /\ P(h) \in Stored
  BY DEF Send, LocalInv, Transaction2
<1>2. PICK outcome \in Verdicts \cup {"ok"} :
         /\ res' = [res EXCEPT ![h] = outcome]
         /\ heard' = IF outcome = "ok" THEN [heard EXCEPT ![P(h)] = @ + 1] ELSE heard
  BY <1>1, SendOutcome
<1>3. Orphans(p, "sending")' \subseteq Orphans(p, "sending") \ {h}
  BY <1>1 DEF Orphans, P, Holds
<1>4. Orphans(p, "charging")' \subseteq Orphans(p, "charging")
  BY <1>1 DEF Orphans, P, Holds
<1>5. FirstCharge(p) <= FirstCharge(p)'
  BY <1>1 DEF FirstCharge, AnswerAwaitsCommit
<1>6. ChargesUntroubled(p)
  BY <1>1, <1>4, <1>5 DEF ChargesUntroubled
<1>7. FirstAccept(p) <= FirstAccept(p)'
  <2>1. RequestAwaitsCommit(p) /\ res[lock[p]] = "ok"
           => RequestAwaitsCommit(p)' /\ res'[lock'[p]] = "ok"
    BY <1>1, <1>2 DEF RequestAwaitsCommit
  <2> QED
    BY <1>1, <2>1, AcceptKept
<1>8. heard[p] \in Nat /\ heard'[p] \in Nat
  BY <1>1, <1>2
<1>9. RequestsPaid(p)'
  <2>1. CASE p # P(h)
    <3>1. Recorded(p)' = Recorded(p)
      BY <1>1, <2>1 DEF Recorded, RequestAwaitsCommit, LockInv, Holds
    <3> QED
      BY <1>1, <1>3, <2>1, <3>1, RequestsUntroubledStep DEF RequestsUntroubled
  <2>2. CASE p = P(h) /\ Holds(h, p)
    <3>1. Recorded(p)' = Recorded(p) + 1
      BY <1>1, <2>2, NoneAssumption DEF Recorded, RequestAwaitsCommit, Holds
    <3>2. posts'[p] = posts[p] + 1
      BY <1>1, <2>2
    <3> QED
      BY <1>3, <3>1, <3>2, StillPaid, InterruptionsGrow, RecordedType DEF RequestsPaid
  <2>3. CASE p = P(h) /\ ~Holds(h, p)
    <3>1. Recorded(p)' = Recorded(p)
      BY <1>1, <2>3 DEF Recorded, RequestAwaitsCommit, Holds
    <3>2. posts'[p] = posts[p] + 1 /\ h \in Orphans(p, "sending")
      BY <1>1, <2>3 DEF Orphans
    <3> QED
      BY <1>3, <3>1, <3>2, StillPaid, InterruptionsGrow, RecordedType DEF RequestsPaid
  <2> QED
    BY <2>1, <2>2, <2>3
<1>10. CASE heard'[p] = heard[p]
  <2>1. AcceptsUntroubled(p)
    BY <1>3, <1>7, <1>10, FirstTypes DEF AcceptsUntroubled
  <2> QED
    BY <1>6, <1>9, <2>1, AcceptsUntroubledStep
<1>11. CASE heard'[p] # heard[p]
  <2>1. p = P(h) /\ outcome = "ok" /\ heard'[p] = heard[p] + 1
    BY <1>1, <1>2, <1>11
  <2>2. CASE Holds(h, p)
    <3>1. ~delivered[p]
      BY <1>1, <2>1, <2>2 DEF DeliveryInv, Transaction2
    <3>2. ~RequestAwaitsCommit(p)
      BY <1>1, <2>1, <2>2 DEF RequestAwaitsCommit, Holds
    <3>3. RequestAwaitsCommit(p)' /\ res'[lock'[p]] = "ok"
      BY <1>1, <1>2, <2>1, <2>2, NoneAssumption DEF RequestAwaitsCommit, Holds
    <3>4. FirstAccept(p) = 0
      BY <3>1, <3>2, Zenon DEF FirstAccept
    <3>5. FirstAccept(p)' = 1
      BY <3>3, Zenon DEF FirstAccept
    <3> QED
      BY <1>3, <1>6, <1>8, <1>9, <2>1, <3>4, <3>5, StillPaid, InterruptionsGrow DEF AcceptsPaid
  <2>3. CASE ~Holds(h, p)
    <3>1. h \in Orphans(p, "sending")
      BY <1>1, <2>1, <2>3 DEF Orphans
    <3> QED
      BY <1>3, <1>6, <1>7, <1>8, <1>9, <2>1, <3>1, FirstTypes, StillPaid, InterruptionsGrow
         DEF AcceptsPaid
  <2> QED
    BY <2>2, <2>3
<1> QED
  BY <1>10, <1>11

\* A fault pays for a record that is taken away.
LEMMA FaultPays ==
    ASSUME IInv, [Next]_vars, NEW p \in Stored, ChargesPaid(p), AcceptsPaid(p), RequestsPaid(p),
           Spend("crash") \/ Spend("db"), charges'[p] = charges[p], heard'[p] = heard[p],
           posts'[p] = posts[p], Recorded(p) - 1 <= Recorded(p)', Recorded(p)' <= Recorded(p),
           Orphans(p, "charging")' \subseteq Orphans(p, "charging"),
           Orphans(p, "sending")' \subseteq Orphans(p, "sending")
    PROVE  ChargesPaid(p)' /\ AcceptsPaid(p)' /\ RequestsPaid(p)'
<1>1. charges[p] \in Nat /\ heard[p] \in Nat
  BY DEF IInv, TypeOK
<1>2. ChargesPaid(p)'
  BY <1>1, StillPaid, InterruptionsGrow, FirstTypes DEF ChargesPaid
<1>3. AcceptsPaid(p)'
  BY <1>1, StillPaid, InterruptionsGrow, FirstTypes DEF AcceptsPaid
<1>4. RequestsPaid(p)'
  BY StillPaid, InterruptionsGrow, RecordedType DEF RequestsPaid
<1> QED
  BY <1>2, <1>3, <1>4

LEMMA ReleaseKeepsCount ==
    ASSUME IInv, NEW h \in Handlers, Release(h), NEW p \in Stored, lock[p] # h,
           \A g \in Handlers \ {h} : pc'[g] = pc[g], attempts'[p] = attempts[p]
    PROVE  Recorded(p)' = Recorded(p)
<1>1. lock'[p] = lock[p]
  BY DEF Release
<1> QED
  BY <1>1, RecordedKept

LEMMA CommitsUntroubled ==
    ASSUME IInv, NEW h \in Handlers, CommitCharge(h) \/ CommitDelivery(h), NEW p \in Stored
    PROVE  Untroubled(p)
<1> USE DEF IInv, TypeOK, Goto, gate, client, broker
<1>1. /\ Release(h) /\ Holds(h, P(h))
      /\ pc'[h] \notin Transaction1 \cup Transaction2
      /\ \A g \in Handlers \ {h} : pc'[g] = pc[g] /\ msg'[g] = msg[g] /\ res'[g] = res[g]
      /\ UNCHANGED <<charges, heard, posts>>
      /\ P(h) \in Stored
  BY DEF CommitCharge, CommitDelivery, LocalInv, Transaction1, Transaction2
<1>2. CASE CommitCharge(h)
  <2>1. /\ pc[h] = "commitCharge" /\ UNCHANGED <<attempts, delivered>>
        /\ status' = [status EXCEPT ![P(h)] = res[h]] /\ res[h] # "pending"
    BY <1>2 DEF CommitCharge, RecordCharge, LocalInv, Final
  <2>2. status[p] # "pending" => status'[p] # "pending"
    BY <1>1, <2>1
  <2>3. CASE lock[p] # h
    <3>1. Recorded(p)' = Recorded(p)
      BY <1>1, <2>1, <2>3, ReleaseKeepsCount
    <3> QED
      BY <1>1, <2>1, <2>2, <2>3, <3>1, EndingKeeps
         DEF Untroubled, ChargesUntroubled, AcceptsUntroubled, RequestsUntroubled
  <2>4. CASE lock[p] = h
    <3>1. p = P(h)
      BY <2>4 DEF LockInv, Holds
    <3>2. FirstCharge(p)' = 1
      BY <1>1, <2>1, <3>1 DEF FirstCharge
    <3>3. FirstAccept(p) = 1 => delivered[p]
      BY <2>1, <2>4 DEF FirstAccept, RequestAwaitsCommit
    <3>4. delivered'[p] => FirstAccept(p)' = 1
      BY DEF FirstAccept
    <3>5. FirstAccept(p) = 1 => FirstAccept(p)' = 1
      BY <2>1, <3>3, <3>4, Zenon
    <3>6. Recorded(p)' = Recorded(p)
      BY <1>1, <2>1, <2>4, NoneAssumption DEF Release, Recorded, RequestAwaitsCommit
    <3> QED
      BY <1>1, <2>1, <2>2, <3>2, <3>5, <3>6, EndingKeeps, FirstTypes
         DEF Untroubled, ChargesUntroubled, AcceptsUntroubled, RequestsUntroubled
  <2> QED
    BY <2>3, <2>4
<1>3. CASE CommitDelivery(h)
  <2>1. /\ pc[h] = "commitDelivery" /\ status' = status
        /\ attempts' = [attempts EXCEPT ![P(h)] = @ + 1]
        /\ delivered' = IF res[h] = "ok" THEN [delivered EXCEPT ![P(h)] = TRUE] ELSE delivered
    BY <1>3 DEF CommitDelivery, RecordDelivery
  <2>2. delivered[p] => delivered'[p]
    BY <1>1, <2>1
  <2>3. CASE lock[p] # h
    <3>1. Recorded(p)' = Recorded(p)
      BY <1>1, <2>1, <2>3, ReleaseKeepsCount DEF Holds
    <3> QED
      BY <1>1, <2>1, <2>2, <2>3, <3>1, EndingKeeps
         DEF Untroubled, ChargesUntroubled, AcceptsUntroubled, RequestsUntroubled
  <2>4. CASE lock[p] = h
    <3>1. p = P(h)
      BY <2>4 DEF LockInv, Holds
    <3>2. FirstCharge(p) <= FirstCharge(p)'
      BY <2>1, <2>4 DEF FirstCharge, AnswerAwaitsCommit
    <3>3. FirstAccept(p) = 1 => delivered[p] \/ res[h] = "ok"
      BY <2>4 DEF FirstAccept
    <3>4. res[h] = "ok" => delivered'[p]
      BY <1>1, <2>1, <3>1
    <3>5. delivered'[p] => FirstAccept(p)' = 1
      BY DEF FirstAccept
    <3>6. FirstAccept(p) = 1 => FirstAccept(p)' = 1
      BY <2>2, <3>3, <3>4, <3>5, Zenon
    <3>7. Recorded(p)' = Recorded(p)
      BY <1>1, <2>1, <2>4, <3>1, NoneAssumption DEF Release, Recorded, RequestAwaitsCommit
    <3> QED
      BY <1>1, <2>1, <2>2, <3>2, <3>6, <3>7, EndingKeeps, FirstTypes
         DEF Untroubled, ChargesUntroubled, AcceptsUntroubled, RequestsUntroubled
  <2> QED
    BY <2>3, <2>4
<1> QED
  BY <1>2, <1>3

LEMMA FailedCommitsPaid ==
    ASSUME IInv, [Next]_vars, NEW h \in Handlers,
           CommitChargeFails(h) \/ CommitDeliveryFails(h),
           NEW p \in Stored, ChargesPaid(p), AcceptsPaid(p), RequestsPaid(p)
    PROVE  ChargesPaid(p)' /\ AcceptsPaid(p)' /\ RequestsPaid(p)'
<1> USE DEF IInv, TypeOK, Goto, Raise, client, broker
<1>1. /\ Release(h)
      /\ pc'[h] \notin Transaction1 \cup Transaction2
      /\ \A g \in Handlers \ {h} : pc'[g] = pc[g] /\ msg'[g] = msg[g] /\ res'[g] = res[g]
      /\ UNCHANGED <<charges, heard, posts>>
      /\ P(h) \in Stored
  BY DEF CommitChargeFails, CommitDeliveryFails, LocalInv, Transaction1, Transaction2, gate
<1>2. /\ status[p] # "pending" => status'[p] # "pending"
      /\ delivered[p] => delivered'[p]
  <2>1. CASE UNCHANGED row
    BY <2>1 DEF row
  <2>2. CASE CommitChargeFails(h) /\ RecordCharge(h)
    BY <1>1, <2>2 DEF CommitChargeFails, RecordCharge, LocalInv, Final
  <2>3. CASE RecordDelivery(h)
    BY <1>1, <2>3 DEF RecordDelivery
  <2> QED
    BY <2>1, <2>2, <2>3 DEF CommitChargeFails, CommitDeliveryFails
<1>3. /\ Orphans(p, "charging")' \subseteq Orphans(p, "charging")
      /\ Orphans(p, "sending")' \subseteq Orphans(p, "sending")
      /\ lock[p] # h => /\ FirstCharge(p) <= FirstCharge(p)'
                        /\ FirstAccept(p) <= FirstAccept(p)'
  BY <1>1, <1>2, EndingKeeps
<1>4. ASSUME lock[p] # h, attempts'[p] = attempts[p] PROVE Recorded(p)' = Recorded(p)
  BY <1>1, <1>4, ReleaseKeepsCount
<1>5. CASE Spend("db") /\ Holds(h, P(h))
  <2>1. Recorded(p) - 1 <= Recorded(p)' /\ Recorded(p)' <= Recorded(p)
    <3>1. CASE lock[p] # h
      <4>1. attempts'[p] = attempts[p]
        BY <1>1, <1>5, <3>1
           DEF CommitChargeFails, CommitDeliveryFails, RecordCharge, RecordDelivery,
           Holds, row
      <4> QED
        BY <1>4, <3>1, <4>1, RecordedType
    <3>2. CASE lock[p] = h
      <4>1. p = P(h) /\ lock'[p] = None
        BY <1>1, <3>2 DEF LockInv, Holds, Release
      <4>2. \/ attempts'[p] = attempts[p]
            \/ pc[h] = "commitDelivery" /\ attempts'[p] = attempts[p] + 1
        BY <1>1, <4>1 DEF CommitChargeFails, CommitDeliveryFails, RecordCharge, RecordDelivery, row
      <4> QED
        BY <3>2, <4>1, <4>2, NoneAssumption DEF Recorded, RequestAwaitsCommit
    <3> QED
      BY <3>1, <3>2
  <2> QED
    BY <1>1, <1>3, <1>5, <2>1, FaultPays
<1>6. CASE ~Holds(h, P(h)) /\ UNCHANGED row
  <2>1. lock[p] # h
    BY <1>6 DEF LockInv, Holds
  <2>2. Recorded(p)' = Recorded(p)
    BY <1>4, <1>6, <2>1 DEF row
  <2> QED
    BY <1>1, <1>3, <2>1, <2>2, ChargesUntroubledStep, AcceptsUntroubledStep, RequestsUntroubledStep
       DEF ChargesUntroubled, AcceptsUntroubled, RequestsUntroubled
<1> QED
  BY <1>5, <1>6 DEF CommitChargeFails, CommitDeliveryFails

LEMMA CrashPaid ==
    ASSUME IInv, [Next]_vars, NEW h \in Handlers, Crash(h),
           NEW p \in Stored, ChargesPaid(p), AcceptsPaid(p), RequestsPaid(p)
    PROVE  ChargesPaid(p)' /\ AcceptsPaid(p)' /\ RequestsPaid(p)'
<1>1. /\ Release(h) /\ Spend("crash")
      /\ pc'[h] \notin Transaction1 \cup Transaction2
      /\ \A g \in Handlers \ {h} : pc'[g] = pc[g] /\ msg'[g] = msg[g] /\ res'[g] = res[g]
      /\ UNCHANGED <<charges, heard, posts, status, attempts, delivered>>
  BY DEF IInv, TypeOK, Crash, Finish, Goto, row, client, Transaction1, Transaction2
<1>2. /\ Orphans(p, "charging")' \subseteq Orphans(p, "charging")
      /\ Orphans(p, "sending")' \subseteq Orphans(p, "sending")
  BY <1>1, EndingKeeps
<1>3. Recorded(p) - 1 <= Recorded(p)' /\ Recorded(p)' <= Recorded(p)
  BY <1>1, NoneAssumption DEF IInv, TypeOK, Release, Recorded, RequestAwaitsCommit
<1> QED
  BY <1>1, <1>2, <1>3, FaultPays

\* The session of h is gone: h becomes an orphan, or its record is lost.
LEMMA SessionLostPaid ==
    ASSUME IInv, [Next]_vars, NEW h \in Handlers, SessionLost(h),
           NEW p \in Stored, ChargesPaid(p), AcceptsPaid(p), RequestsPaid(p)
    PROVE  ChargesPaid(p)' /\ AcceptsPaid(p)' /\ RequestsPaid(p)'
<1>1. /\ Spend("db")
      /\ \A q \in Stored : lock'[q] = IF lock[q] = h THEN None ELSE lock[q]
      /\ UNCHANGED <<charges, heard, posts, status, attempts, delivered, pc, msg, res>>
  BY DEF SessionLost, Release, row, client
<1>2. charges[p] \in Nat /\ heard[p] \in Nat
  BY DEF IInv, TypeOK
<1>3. ASSUME NEW label \in {"charging", "sending"}
      PROVE  /\ Orphans(p, label)' \subseteq Orphans(p, label) \cup {h}
             /\ pc[h] # label => Orphans(p, label)' \subseteq Orphans(p, label)
  <2>1. \A g \in Handlers \ {h} : Holds(g, p) => Holds(g, p)'
    BY <1>1 DEF Holds
  <2> QED
    BY <1>1, <2>1 DEF Orphans, P
<1>4. /\ Interruptions \in Int /\ Interruptions' \in Int
      /\ Interruptions' >= Interruptions + 1
  BY <1>1, InterruptionsGrow
<1>5. ChargesPaid(p)'
  <2>1. CASE pc[h] = "charging"
    <3>1. FirstCharge(p) <= FirstCharge(p)'
      BY <1>1, <2>1 DEF FirstCharge, AnswerAwaitsCommit
    <3> QED
      <4>1. Orphans(p, "charging")' \subseteq Orphans(p, "charging") \cup {h}
        BY <1>3
      <4>2. charges'[p] = charges[p]
        BY <1>1
      <4> DEFINE allowed == Interruptions + FirstCharge(p)
      <4>3. allowed \in Int /\ allowed' \in Int /\ allowed + 1 <= allowed'
        BY <1>4, <3>1, FirstTypes
      <4>4. PaidFor(charges[p], Orphans(p, "charging"), allowed)
        BY DEF ChargesPaid
      <4> HIDE DEF allowed
      <4>5. PaidFor(charges[p], Orphans(p, "charging")', allowed')
        BY <1>2, <4>1, <4>3, <4>4, PaidForOneMore
      <4> QED
        BY <4>2, <4>5 DEF ChargesPaid, allowed
  <2>2. CASE pc[h] # "charging"
    <3>1. Orphans(p, "charging")' \subseteq Orphans(p, "charging")
      BY <1>3, <2>2
    <3> QED
      BY <1>1, <1>2, <1>4, <3>1, StillPaid, FirstTypes DEF ChargesPaid
  <2> QED
    BY <2>1, <2>2
<1>6. AcceptsPaid(p)'
  <2>1. CASE pc[h] = "sending"
    <3>1. lock[p] \in Handlers \cup {None}
      BY DEF IInv, TypeOK
    <3>2. RequestAwaitsCommit(p) /\ res[lock[p]] = "ok"
             => RequestAwaitsCommit(p)' /\ res'[lock'[p]] = "ok"
      BY <1>1, <2>1, <3>1 DEF RequestAwaitsCommit
    <3>3. FirstAccept(p) <= FirstAccept(p)'
      BY <1>1, <3>2, AcceptKept
    <3> QED
      <4>1. Orphans(p, "sending")' \subseteq Orphans(p, "sending") \cup {h}
        BY <1>3
      <4>2. heard'[p] = heard[p]
        BY <1>1
      <4> DEFINE allowed == Interruptions + FirstAccept(p)
      <4>3. allowed \in Int /\ allowed' \in Int /\ allowed + 1 <= allowed'
        BY <1>4, <3>3, FirstTypes
      <4>4. PaidFor(heard[p], Orphans(p, "sending"), allowed)
        BY DEF AcceptsPaid
      <4> HIDE DEF allowed
      <4>5. PaidFor(heard[p], Orphans(p, "sending")', allowed')
        BY <1>2, <4>1, <4>3, <4>4, PaidForOneMore
      <4> QED
        BY <4>2, <4>5 DEF AcceptsPaid, allowed
  <2>2. CASE pc[h] # "sending"
    <3>1. Orphans(p, "sending")' \subseteq Orphans(p, "sending")
      BY <1>3, <2>2
    <3> QED
      BY <1>1, <1>2, <1>4, <3>1, StillPaid, FirstTypes DEF AcceptsPaid
  <2> QED
    BY <2>1, <2>2
<1>7. RequestsPaid(p)'
  <2>1. CASE pc[h] = "sending"
    <3>1. Recorded(p)' = Recorded(p)
      BY <1>1, <2>1 DEF IInv, TypeOK, Recorded, RequestAwaitsCommit
    <3> DEFINE allowed == Interruptions + Recorded(p)
    <3>2. allowed \in Int /\ allowed' \in Int /\ allowed + 1 <= allowed'
      BY <1>4, <3>1, RecordedType
    <3>3. PaidFor(posts[p], Orphans(p, "sending"), allowed)
      BY DEF RequestsPaid
    <3>4. Orphans(p, "sending")' \subseteq Orphans(p, "sending") \cup {h}
      BY <1>3
    <3> HIDE DEF allowed
    <3>5. PaidFor(posts[p], Orphans(p, "sending")', allowed')
      BY <3>2, <3>3, <3>4, PaidForOneMore, RecordedType
    <3>6. posts'[p] = posts[p] /\ Recorded(p)' <= posts[p]
      BY <1>1, <3>1 DEF RequestsPaid
    <3> QED
      BY <3>5, <3>6 DEF RequestsPaid, allowed
  <2>2. CASE pc[h] # "sending"
    <3>1. Orphans(p, "sending")' \subseteq Orphans(p, "sending")
      BY <1>3, <2>2
    <3>2. Recorded(p) - 1 <= Recorded(p)' /\ Recorded(p)' <= Recorded(p)
      BY <1>1, NoneAssumption DEF IInv, TypeOK, Recorded, RequestAwaitsCommit
    <3> QED
      BY <1>1, <1>4, <3>1, <3>2, StillPaid, RecordedType DEF RequestsPaid
  <2> QED
    BY <2>1, <2>2
<1> QED
  BY <1>5, <1>6, <1>7

LEMMA RepeatStep == IInv /\ DeliveryInv /\ RepeatInv /\ [Next]_vars => RepeatInv'
<1> SUFFICES ASSUME IInv, DeliveryInv, RepeatInv, [Next]_vars, NEW p \in Stored
             PROVE  AllPaid(p)'
  BY DEF RepeatInv
<1>1. ChargesPaid(p) /\ AcceptsPaid(p) /\ RequestsPaid(p)
  BY DEF RepeatInv, AllPaid
<1>2. /\ ChargesUntroubled(p) => ChargesPaid(p)'
      /\ AcceptsUntroubled(p) => AcceptsPaid(p)'
      /\ RequestsUntroubled(p) => RequestsPaid(p)'
  BY <1>1, ChargesUntroubledStep, AcceptsUntroubledStep, RequestsUntroubledStep
<1>3. Untroubled(p) => AllPaid(p)'
  BY <1>2 DEF Untroubled, AllPaid
<1>4. ASSUME NEW b \in Bodies, Publish(b) PROVE AllPaid(p)'
  BY <1>3, <1>4, QueuesUntroubled DEF Publish, gate, client
<1>5. ASSUME NEW m \in Messages, Expire(m) PROVE AllPaid(p)'
  BY <1>3, <1>5, QueuesUntroubled DEF Expire, gate, client
<1>6. ASSUME NEW h \in Handlers, ChannelLost(h) PROVE AllPaid(p)'
  BY <1>3, <1>6, QueuesUntroubled DEF ChannelLost, gate, client
<1>7. ASSUME NEW h \in Handlers, Aside(h) PROVE AllPaid(p)'
  BY <1>3, <1>7, AsideUntroubled
<1>8. ASSUME NEW h \in Handlers, LockPending(h) \/ LockForDelivery(h)
      PROVE  AllPaid(p)'
  BY <1>3, <1>8, LockingUntroubled
<1>9. ASSUME NEW h \in Handlers, Charge(h) PROVE AllPaid(p)'
  BY <1>1, <1>2, <1>9, ChargePaid DEF AllPaid
<1>10. ASSUME NEW h \in Handlers, Send(h) PROVE AllPaid(p)'
  BY <1>1, <1>2, <1>10, SendPaid DEF AllPaid
<1>11. ASSUME NEW h \in Handlers, CommitCharge(h) \/ CommitDelivery(h)
       PROVE  AllPaid(p)'
  BY <1>3, <1>11, CommitsUntroubled
<1>12. ASSUME NEW h \in Handlers, CommitChargeFails(h) \/ CommitDeliveryFails(h)
       PROVE  AllPaid(p)'
  BY <1>1, <1>12, FailedCommitsPaid DEF AllPaid
<1>13. ASSUME NEW h \in Handlers, SessionLost(h) PROVE AllPaid(p)'
  BY <1>1, <1>13, SessionLostPaid DEF AllPaid
<1>14. ASSUME NEW h \in Handlers, Crash(h) PROVE AllPaid(p)'
  BY <1>1, <1>14, CrashPaid DEF AllPaid
<1>15. CASE UNCHANGED vars
  BY <1>3, <1>15, QueuesUntroubled DEF vars, gate, client
<1> QED
  BY <1>4, <1>5, <1>6, <1>7, <1>8, <1>9, <1>10, <1>11, <1>12, <1>13, <1>14, <1>15
     DEF Next, Step, Fault, Waiting, Aside

LEMMA RepeatInit == Init => RepeatInv
<1> SUFFICES ASSUME Init, NEW p \in Stored PROVE AllPaid(p)
  BY DEF RepeatInv
<1>1. Orphans(p, "charging") = {} /\ Orphans(p, "sending") = {}
  BY DEF Init, Orphans
<1>2. Interruptions = 0 /\ charges[p] = 0 /\ heard[p] = 0 /\ posts[p] = 0
  BY BudgetAssumption DEF Init, Interruptions, Spent, Faults
<1>3. Recorded(p) = 0
  BY DEF Init, Recorded, RequestAwaitsCommit
<1> QED
  BY <1>1, <1>2, <1>3, FirstTypes, FS_EmptySet
     DEF AllPaid, ChargesPaid, AcceptsPaid, RequestsPaid, PaidFor

LEMMA RepeatInvariance == Spec => [](IInv /\ RepeatInv)
BY RepeatInit, RepeatStep, Invariance, DeliveryInvariance, PTL DEF Spec

\* What the invariant leaves when the orphans are forgotten.
LEMMA RepeatBounds ==
    ASSUME IInv, RepeatInv, NEW p \in Stored
    PROVE  /\ Spent("crash") \in Int /\ Spent("db") \in Int
           /\ charges[p] <= 1 + Spent("crash") + Spent("db")
           /\ heard[p] <= 1 + Spent("crash") + Spent("db")
           /\ Recorded(p) <= posts[p]
           /\ posts[p] <= Recorded(p) + Spent("crash") + Spent("db")
<1>1. /\ Cardinality(Orphans(p, "charging")) \in Nat
      /\ Cardinality(Orphans(p, "sending")) \in Nat
  BY FS_CardinalityType DEF RepeatInv, AllPaid, ChargesPaid, AcceptsPaid, PaidFor
<1>2. /\ charges[p] \in Nat /\ heard[p] \in Nat /\ posts[p] \in Nat /\ Recorded(p) \in Nat
      /\ Spent("crash") \in Int /\ Spent("db") \in Int
  BY BudgetAssumption DEF IInv, TypeOK, Recorded, Spent, Faults
<1> QED
  BY <1>1, <1>2, FirstTypes
     DEF RepeatInv, AllPaid, ChargesPaid, AcceptsPaid, RequestsPaid, PaidFor, Interruptions

\* processor.py:60-64, 104-107: however many copies of the event and retries there
\* are, the gateway is called once for a payment, and once more at most for each
\* crash and each database fault; the client accepts the webhook once, and once more
\* at most for each crash, each database fault and each 2xx that was late or lost.
THEOREM RepeatsArePaidFor == Spec => []RepeatsPaidFor
<1>1. IInv /\ RepeatInv => RepeatsPaidFor
  <2> SUFFICES ASSUME IInv, RepeatInv, NEW p \in Stored
               PROVE  /\ charges[p] <= 1 + Spent("crash") + Spent("db")
                      /\ Accepted(p) <= 1 + Spent("crash") + Spent("db") + unheard[p]
    BY DEF RepeatsPaidFor
  <2>1. heard[p] \in Nat /\ unheard[p] \in Nat
    BY DEF IInv, TypeOK
  <2> QED
    BY <2>1, RepeatBounds DEF Accepted
<1> QED
  BY <1>1, RepeatInvariance, PTL

\* processor.py:75-77: hence without crashes and database faults any number of
\* copies, in any order, with any failures of the broker and of the client, makes
\* one call of the gateway.
THEOREM ChargedOnce ==
    Budget["crash"] = 0 /\ Budget["db"] = 0 => (Spec => []ChargedAtMostOnce)
<1> SUFFICES ASSUME Budget["crash"] = 0, Budget["db"] = 0 PROVE Spec => []ChargedAtMostOnce
  OBVIOUS
<1>1. IInv /\ RepeatInv => ChargedAtMostOnce
  <2> SUFFICES ASSUME IInv, RepeatInv, NEW p \in Stored PROVE charges[p] <= 1
    BY DEF ChargedAtMostOnce
  <2>1. charges[p] <= 1 + Spent("crash") + Spent("db")
    BY RepeatBounds
  <2>2. /\ charges[p] \in Nat /\ budget["crash"] \in Nat /\ budget["db"] \in Nat
        /\ Spent("crash") = 0 - budget["crash"] /\ Spent("db") = 0 - budget["db"]
    BY DEF IInv, TypeOK, Faults, Spent
  <2> QED
    BY <2>1, <2>2
<1> QED
  BY <1>1, RepeatInvariance, PTL

\* processor.py:106-107: the row counts the requests the client got, but for one
\* for each crash and each database fault.
THEOREM RequestsCounted == Spec => []AttemptsRecorded
<1>1. IInv /\ RepeatInv => AttemptsRecorded
  BY RepeatBounds DEF AttemptsRecorded, Recorded
<1> QED
  BY <1>1, RepeatInvariance, PTL

====

---------------------------- MODULE IntakeProofs ----------------------------
(***************************************************************************)
(* Theorems about Intake, for any requests, keys, bodies and fault budget. *)
(***************************************************************************)
EXTENDS Intake, TLAPS

\* What an open transaction has inserted, and that its key is still free.
TransactionInv ==
    /\ \A r \in Requests, k \in Keys :
          index[k] = r => /\ k = KeyOf[r]
                          /\ Stored(k) = {}
                          /\ pc[r] \in {"insertEvent", "commit"}
    /\ \A r \in Requests :
          InTransaction(r) =>
              /\ pc[r] = "insertEvent" => tx[r] = {"payment"}
              /\ pc[r] = "commit" => tx[r] = {"payment", "event"}

\* A call whose payment is stored is past its transaction.
MakerInv == \A r \in payments : pc[r] \in {"respond", "end"}

\* What a request knows: the payment create returned, whether it has made it
\* itself, and that a winner exists.
ResultInv ==
    /\ \A r \in Requests :
          result[r] # None => /\ result[r].payment \in Stored(KeyOf[r])
                              /\ result[r].replayed <=> result[r].payment # r
    /\ WinnerFound

\* What a client was told.  Only the request that made a payment names it as
\* its own.
ReplyInv ==
    /\ ReplyTruthful
    /\ \A r \in Requests :
          /\ pc[r] # "end" => reply[r] = None
          /\ reply[r] # None /\ reply[r].code = 202 =>
                (reply[r].replayed <=> reply[r].payment # r)

IInv == TypeOK /\ OnePaymentPerKey /\ PaymentIffEvent
          /\ TransactionInv /\ MakerInv /\ ResultInv /\ ReplyInv

LEMMA InitIInv == Init => IInv
<1> SUFFICES ASSUME Init PROVE IInv
  OBVIOUS
<1>1. TypeOK
  BY BudgetAssumption DEF Init, TypeOK
<1>2. OnePaymentPerKey /\ PaymentIffEvent
  BY DEF Init, OnePaymentPerKey, PaymentIffEvent
<1>3. TransactionInv
  BY RequestsAssumption, NoneAssumption DEF Init, TransactionInv, InTransaction
<1>4. MakerInv /\ ResultInv /\ ReplyInv
  BY DEF Init, MakerInv, ResultInv, ReplyInv, WinnerFound, ReplyTruthful
<1> QED
  BY <1>1, <1>2, <1>3, <1>4 DEF IInv

-----------------------------------------------------------------------------
(* Lemmas about the operators the actions are built from *)

\* Committing a transaction keeps the table a function of the key, and payment
\* and event together.
LEMMA ApplyKeeps ==
    ASSUME IInv, NEW r \in Requests, pc[r] = "commit", InTransaction(r), Apply(r)
    PROVE  /\ payments' = payments \cup {r} /\ events' = events \cup {r}
           /\ Stored(KeyOf[r]) = {}
           /\ OnePaymentPerKey' /\ PaymentIffEvent'
<1>1. tx[r] = {"payment", "event"} /\ Stored(KeyOf[r]) = {}
  BY RequestsAssumption DEF IInv, TransactionInv, InTransaction
<1>2. payments' = payments \cup {r} /\ events' = events \cup {r}
  BY <1>1 DEF Apply
<1>3. OnePaymentPerKey'
  BY <1>1, <1>2 DEF IInv, OnePaymentPerKey, Stored
<1> QED
  BY <1>1, <1>2, <1>3 DEF IInv, PaymentIffEvent

\* A payment is never deleted, hence what was found stays to be found.
LEMMA StoredGrows ==
    ASSUME payments \subseteq payments'
    PROVE  \A k : Stored(k) \subseteq Stored(k)'
BY DEF Stored

-----------------------------------------------------------------------------
LEMMA NextCases ==
    ASSUME [Next]_vars
    PROVE  \/ \E r \in Requests :
                 \/ Arrive(r) \/ Lookup(r) \/ InsertPayment(r) \/ KeyTaken(r) \/ InsertEvent(r)
                 \/ Commit(r) \/ Recover(r) \/ Respond(r) \/ QueryFails(r)
                 \/ SessionLost(r) \/ Abort(r)
           \/ UNCHANGED vars
BY DEF Next, Step, Served

LEMMA TypeStep == IInv /\ [Next]_vars => TypeOK'
<1> SUFFICES ASSUME IInv, [Next]_vars PROVE TypeOK'
  OBVIOUS
<1> USE RequestsAssumption DEF IInv, TypeOK, tables, Spend, Goto, Close, Apply, Faults
<1>refuse. ASSUME NEW r \in Requests, NEW code \in Codes, Refuse(r, code)
           PROVE  reply' \in [Requests -> Replies \cup {None}] /\ pc' = [pc EXCEPT ![r] = "end"]
  <2>1. [code |-> code, payment |-> None, replayed |-> FALSE] \in Replies
    BY DEF Replies
  <2> QED
    BY <1>refuse, <2>1 DEF Refuse
<1>accept. ASSUME NEW r \in Requests, result[r] # None, Accept(r)
           PROVE  reply' \in [Requests -> Replies \cup {None}] /\ pc' = [pc EXCEPT ![r] = "end"]
  <2>1. result[r].payment \in Requests /\ result[r].replayed \in BOOLEAN
    BY <1>accept DEF Results
  <2>2. [code |-> 202, payment |-> result[r].payment, replayed |-> result[r].replayed] \in Replies
    BY <2>1 DEF Replies, Codes
  <2> QED
    BY <1>accept, <2>2 DEF Accept
<1>return. ASSUME NEW r \in Requests, NEW p \in Requests, Created(r) \/ Found(r, p)
           PROVE  /\ result' \in [Requests -> Results \cup {None}]
                  /\ pc' = [pc EXCEPT ![r] = "respond"]
  <2>1. [payment |-> r, replayed |-> FALSE] \in Results /\ [payment |-> p, replayed |-> TRUE] \in Results
    BY DEF Results
  <2>2. PICK x \in Results : result' = [result EXCEPT ![r] = x]
    BY <1>return, <2>1, Zenon DEF Created, Found
  <2>3. pc' = [pc EXCEPT ![r] = "respond"]
    BY <1>return, Zenon DEF Created, Found, Goto
  <2>4. result' \in [Requests -> Results \cup {None}]
    BY <2>2
  <2> QED
    BY <2>3, <2>4
<1>2. ASSUME NEW r \in Requests, Arrive(r) PROVE TypeOK'
  BY <1>refuse, <1>2 DEF Arrive, Codes
<1>3. ASSUME NEW r \in Requests, Lookup(r) PROVE TypeOK'
  BY <1>return, <1>3 DEF Lookup, Stored
<1>4. ASSUME NEW r \in Requests, InsertPayment(r) PROVE TypeOK'
  BY <1>4 DEF InsertPayment
<1>5. ASSUME NEW r \in Requests, KeyTaken(r) PROVE TypeOK'
  BY <1>5 DEF KeyTaken
<1>6. ASSUME NEW r \in Requests, InsertEvent(r) PROVE TypeOK'
  BY <1>6 DEF InsertEvent
<1>7. ASSUME NEW r \in Requests, Commit(r) PROVE TypeOK'
  BY <1>return, <1>7 DEF Commit
<1>8. ASSUME NEW r \in Requests, Recover(r) PROVE TypeOK'
  BY <1>return, <1>8 DEF Recover, Stored
<1>9. ASSUME NEW r \in Requests, Respond(r) PROVE TypeOK'
  BY <1>accept, <1>refuse, <1>9 DEF Respond, Codes
<1>10. ASSUME NEW r \in Requests, QueryFails(r) PROVE TypeOK'
  BY <1>10 DEF QueryFails
<1>11. ASSUME NEW r \in Requests, SessionLost(r) PROVE TypeOK'
  BY <1>11 DEF SessionLost
<1>12. ASSUME NEW r \in Requests, Abort(r) PROVE TypeOK'
  BY <1>12 DEF Abort
<1>13. CASE UNCHANGED vars
  BY <1>13 DEF vars
<1> QED
  BY <1>2, <1>3, <1>4, <1>5, <1>6, <1>7, <1>8, <1>9, <1>10, <1>11, <1>12, <1>13, NextCases

(* The tables change by a commit only, and then by one payment with its     *)
(* event under a free key.                                                  *)
LEMMA TableStep ==
    ASSUME IInv, [Next]_vars
    PROVE  /\ OnePaymentPerKey' /\ PaymentIffEvent'
           /\ \/ UNCHANGED tables
              \/ \E r \in Requests : /\ pc[r] = "commit" /\ InTransaction(r)
                                     /\ Stored(KeyOf[r]) = {}
                                     /\ payments' = payments \cup {r}
                                     /\ events' = events \cup {r}
<1>1. ASSUME UNCHANGED tables PROVE OnePaymentPerKey' /\ PaymentIffEvent'
  BY <1>1 DEF IInv, OnePaymentPerKey, PaymentIffEvent, tables
<1>2. \/ UNCHANGED tables
      \/ \E r \in Requests : pc[r] = "commit" /\ InTransaction(r) /\ Apply(r)
  BY NextCases DEF Arrive, Lookup, InsertPayment, KeyTaken, InsertEvent, Commit, Recover, Respond,
                   QueryFails, SessionLost, Abort, vars, tables
<1> QED
  BY <1>1, <1>2, ApplyKeeps

LEMMA TransactionStep == IInv /\ [Next]_vars => TransactionInv'
<1> SUFFICES ASSUME IInv, [Next]_vars PROVE TransactionInv'
  OBVIOUS
<1> USE RequestsAssumption, NoneAssumption
        DEF IInv, TypeOK, TransactionInv, InTransaction, tables, Goto, Close
\* A transaction that commits is the only one that has inserted its key.
<1>1. ASSUME NEW r \in Requests, pc[r] = "commit", InTransaction(r), Apply(r), Close(r),
             Goto(r, "respond")
      PROVE  TransactionInv'
  <2>1. payments' = payments \cup {r}
    BY <1>1, ApplyKeeps
  <2>2. \A k \in Keys : k # KeyOf[r] => Stored(k)' = Stored(k)
    BY <2>1 DEF Stored
  <2> QED
    BY <1>1, <2>2
<1>2. ASSUME UNCHANGED tables PROVE \A k : Stored(k)' = Stored(k)
  BY <1>2 DEF Stored
<1>3. ASSUME NEW r \in Requests, Arrive(r) PROVE TransactionInv'
  BY <1>2, <1>3 DEF Arrive, Refuse
<1>4. ASSUME NEW r \in Requests, Lookup(r) PROVE TransactionInv'
  BY <1>2, <1>4 DEF Lookup, Found
<1>5. ASSUME NEW r \in Requests, InsertPayment(r) PROVE TransactionInv'
  BY <1>2, <1>5 DEF InsertPayment, KeyFree
<1>6. ASSUME NEW r \in Requests, KeyTaken(r) PROVE TransactionInv'
  BY <1>2, <1>6 DEF KeyTaken
<1>7. ASSUME NEW r \in Requests, InsertEvent(r) PROVE TransactionInv'
  BY <1>2, <1>7 DEF InsertEvent
<1>8. ASSUME NEW r \in Requests, Commit(r) PROVE TransactionInv'
  BY <1>1, <1>8 DEF Commit, Created
<1>9. ASSUME NEW r \in Requests, Recover(r) PROVE TransactionInv'
  BY <1>2, <1>9 DEF Recover, Found
<1>10. ASSUME NEW r \in Requests, Respond(r) PROVE TransactionInv'
  BY <1>2, <1>10 DEF Respond, Accept, Refuse
<1>11. ASSUME NEW r \in Requests, QueryFails(r) PROVE TransactionInv'
  <2>1. CASE UNCHANGED tables
    BY <1>2, <1>11, <2>1 DEF QueryFails
  <2>2. CASE pc[r] = "commit" /\ InTransaction(r) /\ Apply(r)
    BY <1>1, <1>11, <2>2 DEF QueryFails
  <2> QED
    BY <1>11, <2>1, <2>2 DEF QueryFails
<1>12. ASSUME NEW r \in Requests, SessionLost(r) PROVE TransactionInv'
  BY <1>2, <1>12 DEF SessionLost
<1>13. ASSUME NEW r \in Requests, Abort(r) PROVE TransactionInv'
  BY <1>2, <1>13 DEF Abort
<1>14. CASE UNCHANGED vars
  BY <1>2, <1>14 DEF vars
<1> QED
  BY <1>3, <1>4, <1>5, <1>6, <1>7, <1>8, <1>9, <1>10, <1>11, <1>12, <1>13, <1>14, NextCases

LEMMA MakerStep == IInv /\ [Next]_vars => MakerInv'
<1> SUFFICES ASSUME IInv, [Next]_vars PROVE MakerInv'
  OBVIOUS
<1> USE DEF IInv, TypeOK, MakerInv, Goto
<1>1. ASSUME NEW r \in Requests, Apply(r), Goto(r, "respond") PROVE MakerInv'
  BY <1>1 DEF Apply
<1>2. ASSUME NEW r \in Requests, Commit(r) PROVE MakerInv'
  BY <1>1, <1>2 DEF Commit, Created
<1>3. ASSUME NEW r \in Requests, QueryFails(r) PROVE MakerInv'
  BY <1>1, <1>3 DEF QueryFails, tables
<1>4. ASSUME NEW r \in Requests, Arrive(r) \/ Lookup(r) \/ Recover(r) \/ Respond(r)
      PROVE  MakerInv'
  BY <1>4 DEF Arrive, Lookup, Recover, Respond, Found, Accept, Refuse, tables
<1>5. ASSUME NEW r \in Requests, InsertPayment(r) \/ KeyTaken(r) \/ InsertEvent(r) PROVE MakerInv'
  BY <1>5 DEF InsertPayment, KeyTaken, InsertEvent, tables
<1>6. ASSUME NEW r \in Requests, SessionLost(r) \/ Abort(r) PROVE MakerInv'
  BY <1>6 DEF SessionLost, Abort, tables
<1>7. CASE UNCHANGED vars
  BY <1>7 DEF vars, tables
<1> QED
  BY <1>2, <1>3, <1>4, <1>5, <1>6, <1>7, NextCases

LEMMA ResultStep == IInv /\ [Next]_vars => ResultInv'
<1> SUFFICES ASSUME IInv, [Next]_vars PROVE ResultInv'
  OBVIOUS
<1> USE RequestsAssumption DEF IInv, TypeOK, ResultInv, WinnerFound, Goto
<1>1. \A k : Stored(k) \subseteq Stored(k)'
  BY TableStep, StoredGrows DEF tables
<1>2. ASSUME NEW r \in Requests, Commit(r) PROVE ResultInv'
  <2>1. r \in Stored(KeyOf[r])'
    BY <1>2, ApplyKeeps DEF Commit, Stored
  <2> QED
    BY <1>1, <1>2, <2>1 DEF Commit, Created
\* Who still looks has made no payment: what it finds is another call's.
<1>found. ASSUME NEW r \in Requests, pc[r] \in {"lookup", "recover"}, NEW p \in Stored(KeyOf[r]),
                 Found(r, p)
          PROVE  ResultInv'
  <2>1. p # r
    BY <1>found DEF MakerInv, Stored
  <2>2. /\ result'[r].payment = p /\ result'[r].replayed = TRUE
        /\ \A q \in Requests \ {r} : result'[q] = result[q]
        /\ pc' = [pc EXCEPT ![r] = "respond"]
    BY <1>found DEF Found
  <2>4. ASSUME NEW q \in Requests, result'[q] # None
        PROVE  /\ result'[q].payment \in Stored(KeyOf[q])'
               /\ result'[q].replayed <=> result'[q].payment # q
    <3>1. CASE q = r
      BY <1>1, <2>1, <2>2, <3>1
    <3>2. CASE q # r
      <4>1. result'[q] = result[q] /\ result[q] # None
        BY <2>2, <2>4, <3>2
      <4> QED
        BY <1>1, <4>1
    <3> QED
      BY <3>1, <3>2
  <2> QED
    BY <1>1, <2>2, <2>4
<1>3. ASSUME NEW r \in Requests, Lookup(r) PROVE ResultInv'
  BY <1>1, <1>found, <1>3 DEF Lookup
<1>4. ASSUME NEW r \in Requests, Recover(r) PROVE ResultInv'
  BY <1>found, <1>4 DEF Recover
<1>5. ASSUME NEW r \in Requests, Arrive(r) \/ Respond(r) PROVE ResultInv'
  BY <1>1, <1>5 DEF Arrive, Respond, Accept, Refuse
<1>6. ASSUME NEW r \in Requests, InsertPayment(r) \/ KeyTaken(r) \/ InsertEvent(r)
      PROVE ResultInv'
  BY <1>1, <1>6 DEF InsertPayment, KeyTaken, InsertEvent
<1>7. ASSUME NEW r \in Requests, QueryFails(r) \/ SessionLost(r) \/ Abort(r) PROVE ResultInv'
  BY <1>1, <1>7 DEF QueryFails, SessionLost, Abort
<1>8. CASE UNCHANGED vars
  BY <1>1, <1>8 DEF vars
<1> QED
  BY <1>2, <1>3, <1>4, <1>5, <1>6, <1>7, <1>8, NextCases

LEMMA ReplyStep == IInv /\ [Next]_vars => ReplyInv'
<1> SUFFICES ASSUME IInv, [Next]_vars PROVE ReplyInv'
  OBVIOUS
<1> USE RequestsAssumption DEF IInv, TypeOK, ReplyInv, ReplyTruthful, Goto
<1>1. payments \subseteq payments'
  BY TableStep DEF tables
<1>2. ASSUME UNCHANGED reply, \A r \in Requests : pc[r] = "end" => pc'[r] = "end" PROVE ReplyInv'
  BY <1>1, <1>2
<1>3. ASSUME NEW r \in Requests, Arrive(r) PROVE ReplyInv'
  BY <1>1, <1>3 DEF Arrive, Refuse
<1>4. ASSUME NEW r \in Requests, Respond(r) PROVE ReplyInv'
  BY <1>1, <1>4 DEF Respond, Accept, Refuse, SameBody, ResultInv, Stored
<1>5. ASSUME NEW r \in Requests, Lookup(r) \/ InsertPayment(r) \/ KeyTaken(r) \/ InsertEvent(r)
      PROVE ReplyInv'
  BY <1>2, <1>5 DEF Lookup, Found, InsertPayment, KeyTaken, InsertEvent
<1>6. ASSUME NEW r \in Requests, Commit(r) \/ Recover(r) \/ QueryFails(r) \/ SessionLost(r) \/ Abort(r)
      PROVE ReplyInv'
  BY <1>2, <1>6 DEF Commit, Recover, Created, Found, QueryFails, SessionLost, Abort
<1>7. CASE UNCHANGED vars
  BY <1>2, <1>7 DEF vars
<1> QED
  BY <1>3, <1>4, <1>5, <1>6, <1>7, NextCases

LEMMA Invariance == Spec => []IInv
<1>1. IInv /\ [Next]_vars => IInv'
  BY TypeStep, TableStep, TransactionStep, MakerStep, ResultStep, ReplyStep DEF IInv
<1> QED
  BY <1>1, InitIInv, PTL DEF Spec

-----------------------------------------------------------------------------
\* Tables, transactions and answers keep their types.
THEOREM TypeCorrect == Spec => []TypeOK
<1>1. IInv => TypeOK
  BY DEF IInv
<1> QED
  BY <1>1, Invariance, PTL

\* models.py:49, payment_service.py:115-128: a key stands for one payment,
\* whatever the interleaving, the faults and the number of requests.
THEOREM KeysAreUnique == Spec => []OnePaymentPerKey
<1>1. IInv => OnePaymentPerKey
  BY DEF IInv
<1> QED
  BY <1>1, Invariance, PTL

\* payment_service.py:112-113: payment and event exist together.
THEOREM NoPaymentWithoutEvent == Spec => []PaymentIffEvent
<1>1. IInv => PaymentIffEvent
  BY DEF IInv
<1> QED
  BY <1>1, Invariance, PTL

\* routes/payments.py:55-60: the answers are about the payment of the request's
\* key and body.
THEOREM AnswersAreTrue == Spec => []ReplyTruthful
<1>1. IInv => ReplyTruthful
  BY DEF IInv, ReplyInv
<1> QED
  BY <1>1, Invariance, PTL

\* payment_service.py:120-122: the loser of a race finds the winner.
THEOREM LosersRecover == Spec => []WinnerFound
<1>1. IInv => WinnerFound
  BY DEF IInv, ResultInv
<1> QED
  BY <1>1, Invariance, PTL

\* payment_service.py:83, 128, 136: of the accepted requests with one key at most
\* one is told that it made the payment, it has, and all the others hear of that
\* payment and that they are replays.
THEOREM CreatorIsUnique == Spec => []OneCreator
<1>1. IInv => OneCreator
  <2> SUFFICES ASSUME IInv, NEW r \in Requests, NEW q \in Requests,
                      reply[r] # None, reply[q] # None, KeyOf[r] = KeyOf[q],
                      reply[r].code = 202, reply[q].code = 202, ~reply[r].replayed
               PROVE  reply[q].payment = r /\ (reply[q].replayed <=> q # r)
    BY DEF OneCreator
  <2>1. /\ reply[r].payment = r
        /\ reply[q].replayed <=> reply[q].payment # q
    BY DEF IInv, ReplyInv
  <2>2. /\ r \in payments /\ reply[q].payment \in payments
        /\ KeyOf[reply[q].payment] = KeyOf[r]
    BY <2>1 DEF IInv, ReplyInv, ReplyTruthful
  <2>3. reply[q].payment = r
    BY <2>2 DEF IInv, OnePaymentPerKey
  <2> QED
    BY <2>1, <2>3
<1> QED
  BY <1>1, Invariance, PTL

-----------------------------------------------------------------------------
(* The interleaved transactions implement the atomic registry. *)

LEMMA OwnerOfKey ==
    ASSUME OnePaymentPerKey, NEW k \in Keys, NEW p \in Stored(k)
    PROVE  Owner[k] = p
<1>1. \A q \in Stored(k) : q = p
  BY DEF OnePaymentPerKey, Stored
<1> QED
  BY <1>1 DEF Owner

LEMMA RegistryStep == IInv /\ [Next]_vars => [Registry!Next]_(Registry!vars)
<1> SUFFICES ASSUME IInv, [Next]_vars PROVE [Registry!Next]_(Registry!vars)
  OBVIOUS
<1> USE RequestsAssumption, NoneAssumption DEF IInv, TypeOK
\* A commit creates; nothing else writes to the tables.
<1>1. ASSUME NEW r \in Requests, Stored(KeyOf[r]) = {}, payments' = payments \cup {r},
             events' = events \cup {r}, UNCHANGED reply
      PROVE  Registry!Create(r)
  <2>1. \A k \in Keys : Stored(k)' = IF k = KeyOf[r] THEN {r} ELSE Stored(k)
    BY <1>1 DEF Stored
  <2>2. Owner[KeyOf[r]] = None
    BY <1>1 DEF Owner
  <2>3. \A k \in Keys : Owner'[k] = IF k = KeyOf[r] THEN r ELSE Owner[k]
    <3> SUFFICES ASSUME NEW k \in Keys PROVE Owner'[k] = IF k = KeyOf[r] THEN r ELSE Owner[k]
      OBVIOUS
    <3>1. CASE k = KeyOf[r]
      <4>1. Owner'[k] = CHOOSE p \in {r} : TRUE
        BY <2>1, <3>1 DEF Owner
      <4> QED
        BY <3>1, <4>1
    <3>2. CASE k # KeyOf[r]
      <4>1. Stored(k)' = Stored(k)
        BY <2>1, <3>2
      <4> QED
        BY <3>2, <4>1 DEF Owner
    <3> QED
      BY <3>1, <3>2
  <2>4. Owner' = [Owner EXCEPT ![KeyOf[r]] = r]
    <3>1. KeyOf[r] \in Keys
      OBVIOUS
    <3> QED
      BY ONLY <2>3, <3>1 DEF Owner
  <2> QED
    BY <1>1, <2>2, <2>4 DEF Registry!Create, Owner
<1>2. ASSUME UNCHANGED tables PROVE Owner' = Owner /\ events' = events
  BY <1>2 DEF Owner, Stored, tables
<1>refuse. ASSUME NEW r \in Requests, NEW code \in Registry!Refusals,
                  reply[r] = None, Owner' = Owner, events' = events,
                  code = 409 => /\ Owner[KeyOf[r]] # None
                                /\ PrintOf[Owner[KeyOf[r]]] # PrintOf[r],
                  Refuse(r, code)
           PROVE  Registry!Refuse(r)
  <2>1. reply' = [reply EXCEPT ![r] = [code |-> code, payment |-> None, replayed |-> FALSE]]
    BY <1>refuse DEF Refuse
  <2>2. UNCHANGED <<Owner, events>>
    BY <1>refuse
  <2> QED
    BY <1>refuse, <2>1, <2>2, Zenon DEF Registry!Refuse, Owner
<1>3. ASSUME NEW r \in Requests, Respond(r) PROVE Registry!Accept(r) \/ Registry!Refuse(r)
  <2>1. reply[r] = None /\ Owner' = Owner /\ events' = events
    BY <1>2, <1>3 DEF Respond, ReplyInv
  <2>2. CASE result[r] = None /\ Refuse(r, 500)
    <3>1. 500 \in Registry!Refusals
      BY DEF Registry!Refusals
    <3> QED
      BY <1>refuse, <2>1, <2>2, <3>1
  <2>3. CASE result[r] # None
    <3>1. /\ Owner[KeyOf[r]] = result[r].payment /\ result[r].payment \in Requests
          /\ result[r].replayed <=> result[r].payment # r
      BY <2>3, OwnerOfKey DEF ResultInv, Stored
    <3>2. CASE SameBody(r) /\ Accept(r)
      <4>1. reply' = [reply EXCEPT ![r] = [code |-> 202, payment |-> result[r].payment,
                                           replayed |-> result[r].payment # r]]
        <5>1. result[r].replayed \in BOOLEAN
          BY <2>3 DEF Results
        <5>2. result[r].replayed = (result[r].payment # r)
          BY <3>1, <5>1
        <5> QED
          BY <3>2, <5>2, Zenon DEF Accept
      <4> QED
        BY <2>1, <3>1, <3>2, <4>1 DEF Registry!Accept, SameBody, Owner
    <3>3. CASE ~SameBody(r) /\ Refuse(r, 409)
      <4>1. PrintOf[Owner[KeyOf[r]]] # PrintOf[r]
        BY <3>1, <3>3 DEF SameBody
      <4>2. 409 \in Registry!Refusals
        BY DEF Registry!Refusals
      <4> QED
        BY <1>refuse, <2>1, <3>1, <3>3, <4>1, <4>2
    <3> QED
      BY <1>3, <2>3, <3>2, <3>3 DEF Respond
  <2> QED
    BY <1>3, <2>2, <2>3 DEF Respond
<1>4. ASSUME NEW r \in Requests, Arrive(r), reply' # reply PROVE Registry!Refuse(r)
  <2>1. reply[r] = None /\ Owner' = Owner /\ events' = events
    BY <1>2, <1>4 DEF Arrive, ReplyInv
  <2>2. /\ RefusalOf[r] \in Registry!Refusals /\ RefusalOf[r] # 409
        /\ Refuse(r, RefusalOf[r])
    BY <1>4 DEF Arrive, Registry!Refusals
  <2> QED
    BY <1>refuse, <2>1, <2>2
<1>5. CASE UNCHANGED <<tables, reply>>
  BY <1>2, <1>5 DEF Registry!vars, Owner
<1>6. CASE \E r \in Requests : Respond(r)
  BY <1>3, <1>6 DEF Registry!Next
<1>7. CASE \E r \in Requests : Arrive(r)
  <2>1. UNCHANGED tables
    BY <1>7 DEF Arrive
  <2> QED
    BY <1>4, <1>5, <1>7, <2>1 DEF Registry!Next
<1>8. CASE UNCHANGED reply
  <2>1. CASE UNCHANGED tables
    BY <1>5, <1>8, <2>1
  <2>2. CASE \E r \in Requests : /\ Stored(KeyOf[r]) = {} /\ payments' = payments \cup {r}
                                 /\ events' = events \cup {r}
    BY <1>1, <1>8, <2>2 DEF Registry!Next
  <2> QED
    BY <2>1, <2>2, TableStep
<1>9. \/ UNCHANGED reply
      \/ \E r \in Requests : Respond(r) \/ Arrive(r)
  BY NextCases DEF Lookup, InsertPayment, KeyTaken, InsertEvent, Commit, Recover, QueryFails,
                   SessionLost, Abort, vars
<1> QED
  BY <1>6, <1>7, <1>8, <1>9

\* routes/payments.py:55-60: lookups, races, rollbacks and recoveries together
\* are one atomic registration per key.
THEOREM RegistryImplemented == Spec => ImplementsRegistry
<1>1. Init => Registry!Init
  BY DEF Init, Registry!Init, Owner, Stored
<1>2. IInv /\ [Next]_vars => [Registry!Next]_(Registry!vars)
  BY RegistryStep
<1> QED
  BY <1>1, <1>2, Invariance, PTL DEF Spec, ImplementsRegistry, Registry!Spec

=============================================================================

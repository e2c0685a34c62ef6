------------------------------- MODULE Intake -------------------------------
(***************************************************************************)
(* POST /payments: create_payment in api/routes/payments.py and            *)
(* PaymentService.create in services/payment_service.py, against the       *)
(* unique index on payments.idempotency_key.                               *)
(*                                                                         *)
(* Every HTTP call is one member of Requests, a client's retry another one *)
(* with the same key and body.  A payment is named by the request whose    *)
(* uuid4 it carries; the fingerprint of a body is its identity.            *)
(*                                                                         *)
(* session.commit() flushes the two INSERTs and commits.  The first INSERT *)
(* waits while another open transaction has inserted the key, and fails    *)
(* once the key is committed (READ COMMITTED).                             *)
(***************************************************************************)
EXTENDS Naturals

CONSTANTS
    Requests, Keys, Prints,
    KeyOf,       \* Idempotency-Key of a request
    PrintOf,     \* fingerprint of its body
    RefusalOf,   \* what the checks before the first query say: 202, or a status code
    None,
    Budget       \* how often each fault may happen

Faults == {"crash", "db"}

ASSUME RequestsAssumption ==
    /\ KeyOf \in [Requests -> Keys]
    /\ PrintOf \in [Requests -> Prints]
    /\ RefusalOf \in [Requests -> {202, 400, 401, 422}]
ASSUME NoneAssumption == None \notin Requests
ASSUME BudgetAssumption == Budget \in [Faults -> Nat]

\* CreatePaymentResult
Results == [payment : Requests, replayed : BOOLEAN]

Codes == {202, 400, 401, 409, 422, 500}
Replies == [code : Codes, payment : Requests \cup {None}, replayed : BOOLEAN]

VARIABLES
    payments,  \* committed rows of the table payments
    events,    \* payments with a committed row in outbox_messages
    index,     \* open transaction that has inserted the key
    pc,
    tx,        \* what the open transaction of a request has inserted
    result,    \* what PaymentService.create returns
    reply,     \* answer given to the client
    budget

tables == <<payments, events>>
vars   == <<tables, index, pc, tx, result, reply, budget>>

TypeOK ==
    /\ payments \subseteq Requests
    /\ events \subseteq Requests
    /\ index \in [Keys -> Requests \cup {None}]
    /\ pc \in [Requests -> {"new", "lookup", "insertPayment", "insertEvent", "commit",
                            "recover", "respond", "end"}]
    /\ tx \in [Requests -> SUBSET {"payment", "event"}]
    /\ result \in [Requests -> Results \cup {None}]
    /\ reply \in [Requests -> Replies \cup {None}]
    /\ budget \in [Faults -> Nat]

Init ==
    /\ payments = {}
    /\ events = {}
    /\ index = [k \in Keys |-> None]
    /\ pc = [r \in Requests |-> "new"]
    /\ tx = [r \in Requests |-> {}]
    /\ result = [r \in Requests |-> None]
    /\ reply = [r \in Requests |-> None]
    /\ budget = Budget

-----------------------------------------------------------------------------
(* Helpers *)

Spend(fault) ==
    /\ budget[fault] > 0
    /\ budget' = [budget EXCEPT ![fault] = @ - 1]

Goto(r, label) == pc' = [pc EXCEPT ![r] = label]

\* get_by_idempotency_key: committed rows only.
Stored(k) == {p \in payments : KeyOf[p] = k}

\* Mutant: no unique index on idempotency_key.
NoUniqueIndex(k) == TRUE

\* The INSERT neither waits for an open transaction nor violates the index.
KeyFree(k) == Stored(k) = {} /\ index[k] = None

\* The transaction ends: its index entry is free.
Close(r) ==
    /\ index' = [k \in Keys |-> IF index[k] = r THEN None ELSE index[k]]
    /\ tx' = [tx EXCEPT ![r] = {}]

Apply(r) ==
    /\ payments' = IF "payment" \in tx[r] THEN payments \cup {r} ELSE payments
    /\ events' = IF "event" \in tx[r] THEN events \cup {r} ELSE events

InTransaction(r) == index[KeyOf[r]] = r

\* create returns the payment it has made, or hands one it has found to _replay.
Created(r) ==
    /\ result' = [result EXCEPT ![r] = [payment |-> r, replayed |-> FALSE]]
    /\ Goto(r, "respond")

Found(r, p) ==
    /\ result' = [result EXCEPT ![r] = [payment |-> p, replayed |-> TRUE]]
    /\ Goto(r, "respond")

Accept(r) ==
    /\ reply' = [reply EXCEPT ![r] = [code |-> 202, payment |-> result[r].payment,
                                      replayed |-> result[r].replayed]]
    /\ Goto(r, "end")

Refuse(r, code) ==
    /\ reply' = [reply EXCEPT ![r] = [code |-> code, payment |-> None, replayed |-> FALSE]]
    /\ Goto(r, "end")

\* Mutant: _replay does not compare the fingerprints.
AnyBody(r) == TRUE

SameBody(r) == PrintOf[result[r].payment] = PrintOf[r]

-----------------------------------------------------------------------------
(* A request arrives; one that the checks of API key, Idempotency-Key and *)
(* body refuse (module Admission) is answered before any query.           *)
Arrive(r) ==
    /\ pc[r] = "new"
    /\ \/ RefusalOf[r] = 202 /\ Goto(r, "lookup") /\ UNCHANGED reply
       \/ RefusalOf[r] # 202 /\ Refuse(r, RefusalOf[r])
    /\ UNCHANGED <<tables, index, tx, result, budget>>

Lookup(r) ==
    /\ pc[r] = "lookup"
    /\ \/ /\ Stored(KeyOf[r]) = {}
          /\ Goto(r, "insertPayment")
          /\ UNCHANGED result
       \/ \E existing \in Stored(KeyOf[r]) : Found(r, existing)
    /\ UNCHANGED <<tables, index, tx, reply, budget>>

InsertPayment(r) ==
    /\ pc[r] = "insertPayment"
    /\ KeyFree(KeyOf[r])
    /\ index' = [index EXCEPT ![KeyOf[r]] = r]
    /\ tx' = [tx EXCEPT ![r] = {"payment"}]
    /\ Goto(r, "insertEvent")
    /\ UNCHANGED <<tables, result, reply, budget>>

(* Mutant: an open transaction counts as a violation. *)
KeyTakenEarly(r) ==
    /\ pc[r] = "insertPayment"
    /\ ~KeyFree(KeyOf[r])
    /\ Goto(r, "recover")
    /\ UNCHANGED <<tables, index, tx, result, reply, budget>>

(* IntegrityError on idempotency_key: rollback, then look for the winner. *)
KeyTaken(r) ==
    /\ pc[r] = "insertPayment"
    /\ Stored(KeyOf[r]) # {}
    /\ Goto(r, "recover")
    /\ UNCHANGED <<tables, index, tx, result, reply, budget>>

(* Mutant: the event in a transaction of its own. *)
InsertEventAtOnce(r) ==
    /\ pc[r] = "insertEvent"
    /\ InTransaction(r)
    /\ events' = events \cup {r}
    /\ Goto(r, "commit")
    /\ UNCHANGED <<payments, index, tx, result, reply, budget>>

InsertEvent(r) ==
    /\ pc[r] = "insertEvent"
    /\ InTransaction(r)
    /\ tx' = [tx EXCEPT ![r] = @ \cup {"event"}]
    /\ Goto(r, "commit")
    /\ UNCHANGED <<tables, index, result, reply, budget>>

Commit(r) ==
    /\ pc[r] = "commit"
    /\ InTransaction(r)
    /\ Apply(r)
    /\ Close(r)
    /\ Created(r)
    /\ UNCHANGED <<reply, budget>>

(* Mutant: the loser tries the INSERT again. *)
RecoverByRetry(r) ==
    /\ pc[r] = "recover"
    /\ Goto(r, "insertPayment")
    /\ UNCHANGED <<tables, index, tx, result, reply, budget>>

(* Mutant: the loser returns the winner's payment as if it had made it. *)
RecoverAsCreator(r) ==
    /\ pc[r] = "recover"
    /\ \E winner \in Stored(KeyOf[r]) :
          result' = [result EXCEPT ![r] = [payment |-> winner, replayed |-> FALSE]]
    /\ Goto(r, "respond")
    /\ UNCHANGED <<tables, index, tx, reply, budget>>

Recover(r) ==
    /\ pc[r] = "recover"
    /\ \E winner \in Stored(KeyOf[r]) : Found(r, winner)
    /\ UNCHANGED <<tables, index, tx, reply, budget>>

(* _replay, and the answer of create_payment: 409 for another body, 500 if *)
(* create raised something else.                                           *)
Respond(r) ==
    /\ pc[r] = "respond"
    /\ \/ result[r] = None /\ Refuse(r, 500)
       \/ /\ result[r] # None
          /\ \/ SameBody(r) /\ Accept(r)
             \/ ~SameBody(r) /\ Refuse(r, 409)
    /\ UNCHANGED <<tables, index, tx, result, budget>>

-----------------------------------------------------------------------------
(* Faults *)

(* A query or the COMMIT raises something else than the violation of the     *)
(* unique key; get_db_session rolls back.  A COMMIT may have been applied    *)
(* all the same; the statements of a lost session always fail.               *)
QueryFails(r) ==
    /\ pc[r] \in {"lookup", "insertPayment", "insertEvent", "commit", "recover"}
    /\ \/ /\ Spend("db")
          /\ \/ pc[r] = "commit" /\ InTransaction(r) /\ Apply(r)
             \/ UNCHANGED tables
       \/ /\ pc[r] \in {"insertEvent", "commit"} /\ ~InTransaction(r)
          /\ UNCHANGED <<tables, budget>>
    /\ Close(r)
    /\ Goto(r, "respond")
    /\ UNCHANGED <<result, reply>>

(* PostgreSQL ends the session of an open transaction. *)
SessionLost(r) ==
    /\ InTransaction(r)
    /\ Spend("db")
    /\ Close(r)
    /\ UNCHANGED <<tables, pc, result, reply>>

(* The process dies or the client hangs up: no answer, nothing committed *)
(* that is not committed yet.                                            *)
Abort(r) ==
    /\ pc[r] \notin {"new", "end"}
    /\ Spend("crash")
    /\ Goto(r, "end")
    /\ Close(r)
    /\ UNCHANGED <<tables, result, reply>>

-----------------------------------------------------------------------------
Step(r) ==
    \/ Lookup(r) \/ InsertPayment(r) \/ KeyTaken(r) \/ InsertEvent(r)
    \/ Commit(r) \/ Recover(r) \/ Respond(r) \/ QueryFails(r)

Served == (\A r \in Requests : pc[r] = "end") /\ UNCHANGED vars

Next ==
    \/ \E r \in Requests : Arrive(r) \/ Step(r) \/ SessionLost(r) \/ Abort(r)
    \/ Served

\* The event loop runs every request it has accepted.
Fairness == \A r \in Requests : WF_vars(Step(r))

Spec == Init /\ [][Next]_vars
FairSpec == Spec /\ Fairness

-----------------------------------------------------------------------------
(* Properties *)

\* models.py:49, payment_service.py:115-128: however the requests interleave, a
\* key stands for one payment.
OnePaymentPerKey == \A p, q \in payments : KeyOf[p] = KeyOf[q] => p = q

\* payment_service.py:112-113: the broker hears of a payment if and only if it
\* is stored; no crash or failed commit separates the two rows.
PaymentIffEvent == payments = events

\* routes/payments.py:55-60: a 202 names a stored payment with the key and the
\* body of the request; a 409 means that the key belongs to another body.
ReplyTruthful ==
    \A r \in Requests : reply[r] # None =>
        /\ reply[r].code = 202 =>
              /\ reply[r].payment \in payments
              /\ KeyOf[reply[r].payment] = KeyOf[r]
              /\ PrintOf[reply[r].payment] = PrintOf[r]
        /\ reply[r].code = 409 =>
              \E p \in payments : KeyOf[p] = KeyOf[r] /\ PrintOf[p] # PrintOf[r]

\* payment_service.py:120-122: the loser of a race always finds the winner, also
\* if the winner's client never got its answer.
WinnerFound == \A r \in Requests : pc[r] = "recover" => Stored(KeyOf[r]) # {}

\* payment_service.py:83, 128, 136: if an answer says that it is no replay, then
\* the payment is the one this very call has made, and every other call accepted
\* under the key, the loser of a race included, is told of that payment and that
\* it is a replay.
OneCreator ==
    \A r, q \in Requests :
        /\ reply[r] # None /\ reply[q] # None /\ KeyOf[r] = KeyOf[q]
        /\ reply[r].code = 202 /\ reply[q].code = 202
        /\ ~reply[r].replayed
        => reply[q].payment = r /\ (reply[q].replayed <=> q # r)

\* payment_service.py:111-128: nobody waits for ever on the key: every request
\* that was admitted is answered or has died.
EveryRequestEnds == \A r \in Requests : pc[r] = "lookup" ~> pc[r] = "end"

\* The payment a key stands for.
Owner == [k \in Keys |-> IF Stored(k) = {} THEN None ELSE CHOOSE p \in Stored(k) : TRUE]

Registry == INSTANCE IdempotentRegistry WITH owner <- Owner

\* routes/payments.py:55-60: the interleaved transactions act like one atomic
\* registration per key.
ImplementsRegistry == Registry!Spec

=============================================================================

------------------------- MODULE IdempotentRegistry -------------------------
(***************************************************************************)
(* What POST /payments promises: one payment for each Idempotency-Key, the *)
(* one of the first request that got through; every answer to a request    *)
(* with that key speaks of that payment, or refuses a different body.      *)
(* The event for the relay exists exactly when the payment does.           *)
(***************************************************************************)
CONSTANTS Requests, Keys, KeyOf, PrintOf, None

VARIABLES
    owner,   \* the request whose payment the key stands for
    events,  \* payments with an outbox row
    reply    \* answers given

vars == <<owner, events, reply>>

Init ==
    /\ owner = [k \in Keys |-> None]
    /\ events = {}
    /\ reply = [r \in Requests |-> None]

Create(r) ==
    /\ owner[KeyOf[r]] = None
    /\ owner' = [owner EXCEPT ![KeyOf[r]] = r]
    /\ events' = events \cup {r}
    /\ UNCHANGED reply

Accept(r) ==
    LET payment == owner[KeyOf[r]] IN
    /\ reply[r] = None
    /\ payment # None
    /\ PrintOf[payment] = PrintOf[r]
    /\ reply' = [reply EXCEPT ![r] = [code |-> 202, payment |-> payment, replayed |-> payment # r]]
    /\ UNCHANGED <<owner, events>>

Refusals == {400, 401, 409, 422, 500}

\* Refused: another body under the same key, a request the checks turn away, a fault.
Refuse(r) ==
    /\ reply[r] = None
    /\ \E code \in Refusals :
          /\ code = 409 => /\ owner[KeyOf[r]] # None
                           /\ PrintOf[owner[KeyOf[r]]] # PrintOf[r]
          /\ reply' = [reply EXCEPT ![r] = [code |-> code, payment |-> None, replayed |-> FALSE]]
    /\ UNCHANGED <<owner, events>>

Next == \E r \in Requests : Create(r) \/ Accept(r) \/ Refuse(r)

Spec == Init /\ [][Next]_vars

=============================================================================

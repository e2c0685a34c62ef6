------------------------------ MODULE Endpoint ------------------------------
(***************************************************************************)
(* POST /payments from the request as a client wrote it to the answer.     *)
(* What Intake knows of a call, its key, its fingerprint and whether the   *)
(* checks let it through, is what Admission makes of the request that the  *)
(* call carries; the transactions are those of Intake.                     *)
(***************************************************************************)
EXTENDS Intake

CONSTANTS
    Sent,                                       \* the request of each call
    Powers, Values, Depth, MaxDepth,            \* of RequestFingerprint
    MaxKeyLength, MaxDescription, MaxMetadataKeys, MoneyLimit, FloatLimit, Currencies

\* The requests that have come in are those of the calls under way or answered.
Checks == INSTANCE Admission WITH
    Requests <- {Sent[r] : r \in Requests},
    arrived  <- {Sent[r] : r \in {q \in Requests : pc[q] # "new"}}

ASSUME ChecksAssumption ==
    /\ Checks!PowersAssumption /\ Checks!ValuesAssumption /\ Checks!LoadAssumption
    /\ Checks!LimitsAssumption /\ Checks!RequestsAssumption

\* The command that create_payment builds, its fingerprint, and the checks.
ASSUME CommandAssumption ==
    /\ KeyOf = [r \in Requests |-> Checks!Command(Sent[r]).key]
    /\ PrintOf = [r \in Requests |-> Checks!Fingerprint(Checks!Command(Sent[r]))]
    /\ RefusalOf = [r \in Requests |-> Checks!Refusal(Sent[r])]

-----------------------------------------------------------------------------
(* Properties *)

\* fingerprint.py:3-8, payment_service.py:72-78: the answer depends on what the
\* clients said and not on how they wrote it.  A 202 names a payment made for a
\* request that said the same; a 409 means that the payment under this key was
\* made for one that said something else, so an honest retry never gets it.
AnswersMeanBodies ==
    \A r \in Requests : reply[r] # None =>
        /\ reply[r].code = 202 =>
              Checks!SameBody(Sent[reply[r].payment].body, Sent[r].body)
        /\ reply[r].code = 409 =>
              \A p \in Stored(KeyOf[r]) : ~Checks!SameBody(Sent[p].body, Sent[r].body)

=============================================================================

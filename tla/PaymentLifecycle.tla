-------------------------- MODULE PaymentLifecycle --------------------------
(***************************************************************************)
(* What the service promises of one payment, whatever consumers, queues    *)
(* and faults there are: pending becomes succeeded or failed once and for  *)
(* all; the client is told that outcome and no other; a notification is    *)
(* marked delivered after the client was told, and stays so.               *)
(***************************************************************************)
CONSTANT Payments

Status == {"pending", "succeeded", "failed"}
Final == {"succeeded", "failed"}

VARIABLES
    status,     \* payments.status
    told,       \* statuses the client's endpoint was told
    delivered   \* webhook_delivered_at IS NOT NULL

vars == <<status, told, delivered>>

Init ==
    /\ status = [p \in Payments |-> "pending"]
    /\ told = [p \in Payments |-> {}]
    /\ delivered = [p \in Payments |-> FALSE]

Finalize(p) ==
    /\ status[p] = "pending"
    /\ \E outcome \in Final : status' = [status EXCEPT ![p] = outcome]
    /\ UNCHANGED <<told, delivered>>

Notify(p) ==
    /\ status[p] \in Final
    /\ told[p] = {}
    /\ told' = [told EXCEPT ![p] = {status[p]}]
    /\ UNCHANGED <<status, delivered>>

Deliver(p) ==
    /\ told[p] # {}
    /\ delivered' = [delivered EXCEPT ![p] = TRUE]
    /\ UNCHANGED <<status, told>>

Next == \E p \in Payments : Finalize(p) \/ Notify(p) \/ Deliver(p)

Spec == Init /\ [][Next]_vars

=============================================================================

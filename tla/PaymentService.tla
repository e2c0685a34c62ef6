--------------------------- MODULE PaymentService ---------------------------
(***************************************************************************)
(* What the service as a whole promises a client, whatever processes,      *)
(* queues and faults there are: POST /payments is the registry, every      *)
(* payment it holds goes through the lifecycle, and nothing is done to,    *)
(* or said of, a payment that was not accepted.                            *)
(***************************************************************************)
CONSTANTS Requests, Keys, KeyOf, PrintOf, None

VARIABLES
    owner, events, reply,       \* the registry of payments
    status, told, delivered     \* the lifecycle of each

registry == <<owner, events, reply>>
lifecycle == <<status, told, delivered>>
vars == <<registry, lifecycle>>

Registry == INSTANCE IdempotentRegistry

Lifecycle == INSTANCE PaymentLifecycle WITH Payments <- Requests

Init == Registry!Init /\ Lifecycle!Init

Register(r) ==
    /\ Registry!Create(r) \/ Registry!Accept(r) \/ Registry!Refuse(r)
    /\ UNCHANGED lifecycle

Process(p) ==
    /\ p \in events
    /\ Lifecycle!Finalize(p) \/ Lifecycle!Notify(p) \/ Lifecycle!Deliver(p)
    /\ UNCHANGED registry

Next == \E r \in Requests : Register(r) \/ Process(r)

Spec == Init /\ [][Next]_vars

=============================================================================

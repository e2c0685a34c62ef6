-------------------------- MODULE MCPaymentSystem --------------------------
(* Instances of PaymentSystem for TLC. *)
EXTENDS PaymentSystem

CONSTANTS ApiCrashes, ApiDbFaults, RelayCrashes, RelayDbFaults, RelayOutages,
          WorkerCrashes, WorkerDbFaults, WorkerBrokerFaults

MCApiBudget == [crash |-> ApiCrashes, db |-> ApiDbFaults]

MCRelayBudget == [crash |-> RelayCrashes, db |-> RelayDbFaults, reject |-> 0,
                  outage |-> RelayOutages, stop |-> 0]

\* Every publication is paid for by a request or a fault of the relay.
MCWorkerBudget == [crash |-> WorkerCrashes, db |-> WorkerDbFaults, broker |-> WorkerBrokerFaults,
                   publish |-> NumRequests * (1 + RelayCrashes + RelayDbFaults + RelayOutages)]

\* Two requests of one client under one key.
MCKeyOf == [r \in Requests |-> "k1"]
MCPrintOf == [r \in Requests |-> "a"]
MCRefusalOf == [r \in Requests |-> 202]
=============================================================================

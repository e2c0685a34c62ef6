--------------------------- MODULE MCOutboxRelay ---------------------------
(* Instances of OutboxRelay for TLC. *)
EXTENDS OutboxRelay, TLC

CONSTANTS MaxCrashes, MaxDbFaults, MaxRejections, MaxOutages, MaxStops,
          Backlog   \* rows that have failed until just before the overflow

MCBudget == [crash |-> MaxCrashes, db |-> MaxDbFaults, reject |-> MaxRejections,
             outage |-> MaxOutages, stop |-> MaxStops]

MCInitialAttempts == [r \in Rows |-> IF r \in Backlog THEN OverflowAt - 1 ELSE 0]

\* Replicas are compared only for equality.
Symmetry == Permutations(Relays)
=============================================================================

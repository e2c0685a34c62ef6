----------------------------- MODULE MCConsumer -----------------------------
(* Instances of Consumer for TLC. *)
EXTENDS Consumer, TLC

CONSTANTS MaxCrashes, MaxDbFaults, MaxBrokerFaults, MaxCopies

MCBudget == [crash |-> MaxCrashes, db |-> MaxDbFaults,
             broker |-> MaxBrokerFaults, publish |-> MaxCopies]

\* Handlers are compared only for equality.
Symmetry == Permutations(Handlers)
=============================================================================

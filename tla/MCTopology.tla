----------------------------- MODULE MCTopology -----------------------------
(* Instances of Topology for TLC. *)
EXTENDS Topology

CONSTANTS r1, c1, c2, MaxCrashes, MaxOutages, MaxRedeploys

MCBudget == [crash |-> MaxCrashes, outage |-> MaxOutages, redeploy |-> MaxRedeploys]

Fraction(n, d) == [num |-> n, den |-> d]

With(retries, base, multiplier) == [retries |-> retries, base |-> base, multiplier |-> multiplier]

Usual == With(2, Fraction(1, 1), Fraction(5, 1))    \* 1000 and 5000 ms
Steeper == With(2, Fraction(1, 1), Fraction(11, 2)) \* 1000 and 5500 ms
Slower == With(2, Fraction(2, 1), Fraction(5, 1))   \* 2000 and 10000 ms
Shorter == With(1, Fraction(10004, 10000), Fraction(5, 1)) \* 1000.4 ms, cut to 1000

MCSettings == {Usual, Steeper, Slower, Shorter}

MCInitialSettings == [p \in Processes |-> IF p = c2 THEN Steeper ELSE Usual]
=============================================================================

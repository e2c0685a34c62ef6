SPECIFICATION Spec
CONSTANTS
  None = None
  r1 = r1
  r2 = r2
  Relays = {r1, r2}
  NumRows = 3
  BatchSize = 2
  Poison = {}
  Backlog = {3}
  AttemptsBound = 2
  OverflowAt = 1024
  MaxCrashes = 1
  MaxDbFaults = 1
  MaxRejections = 1
  MaxOutages = 1
  MaxStops = 0
  Budget <- MCBudget
  InitialAttempts <- MCInitialAttempts
SYMMETRY Symmetry
INVARIANTS
  MarkedMeansConfirmed
  CopyAccounting
  CopiesBounded

SPECIFICATION FairSpec
CONSTANTS
  None = None
  r1 = r1
  r2 = r2
  Relays = {r1, r2}
  NumRows = 3
  BatchSize = 2
  Poison = {1}
  Backlog = {}
  AttemptsBound = 1
  OverflowAt = 1024
  MaxCrashes = 1
  MaxDbFaults = 0
  MaxRejections = 1
  MaxOutages = 1
  MaxStops = 1
  Budget <- MCBudget
  InitialAttempts <- MCInitialAttempts
INVARIANTS
  PublishedOnce
PROPERTIES
  EventuallyPublished
  StopHonoured

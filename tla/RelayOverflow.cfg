SPECIFICATION FairSpec
CONSTANTS
  None = None
  r1 = r1
  Relays = {r1}
  NumRows = 2
  BatchSize = 2
  Poison = {1}
  Backlog = {1}
  AttemptsBound = 1024
  OverflowAt = 1024
  MaxCrashes = 0
  MaxDbFaults = 0
  MaxRejections = 0
  MaxOutages = 0
  MaxStops = 0
  Budget <- MCBudget
  InitialAttempts <- MCInitialAttempts
PROPERTIES
  EventuallyPublished

SPECIFICATION FairSpec
CONSTANTS
  r1 = r1
  c1 = c1
  c2 = c2
  Processes = {r1, c1, c2}
  Consumers = {c1, c2}
  Messages = {m1}
  MaxCrashes = 1
  MaxOutages = 1
  MaxRedeploys = 1
  Settings <- MCSettings
  InitialSettings <- MCInitialSettings
  Budget <- MCBudget
INVARIANTS
  NothingLost
  SettingsAgree
PROPERTIES
  NoLockout

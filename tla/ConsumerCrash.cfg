SPECIFICATION Spec
CONSTANTS
  None = None
  p1 = p1
  h1 = h1
  Handlers = {h1}
  Payments = {p1}
  Stored = {p1}
  WithWebhook = {p1}
  Malformed = {}
  Answers = {200, 302, 404, 429, 503}
  MaxRetries = 1
  MaxCrashes = 1
  MaxDbFaults = 0
  MaxBrokerFaults = 0
  MaxCopies = 1
  Budget <- MCBudget
INVARIANTS
  ChargedAtMostOnce

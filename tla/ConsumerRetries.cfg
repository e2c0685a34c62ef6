SPECIFICATION FairSpec
CONSTANTS
  None = None
  p1 = p1
  p2 = p2
  lost = lost
  junk = junk
  h1 = h1
  h2 = h2
  Handlers = {h1, h2}
  Payments = {p1, p2, lost}
  Stored = {p1, p2}
  WithWebhook = {p2}
  Malformed = {junk}
  Answers = {200, 302, 404, 429, 503}
  MaxRetries = 1
  MaxCrashes = 0
  MaxDbFaults = 0
  MaxBrokerFaults = 1
  MaxCopies = 2
  Budget <- MCBudget
PROPERTIES
  ComesToRest
  EventuallyResolved

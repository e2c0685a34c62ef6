SPECIFICATION Spec
CONSTANTS
  None = None
  p1 = p1
  h1 = h1
  h2 = h2
  Handlers = {h1, h2}
  Payments = {p1}
  Stored = {p1}
  WithWebhook = {p1}
  Malformed = {}
  Answers = {200, 302, 404, 429, 503}
  MaxRetries = 1
  MaxCrashes = 1
  MaxDbFaults = 1
  MaxBrokerFaults = 1
  MaxCopies = 2
  Budget <- MCBudget
SYMMETRY Symmetry
INVARIANTS
  NoLoss
  ChargeAccounting
  WebhookAgrees
  DeliveredConsistent
  DlqJustified
  RepeatsPaidFor
  AttemptsRecorded
  PostsBounded
PROPERTIES
  ImplementsLifecycle

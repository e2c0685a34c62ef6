SPECIFICATION FairSpec
CONSTANTS
  None = None
  NumRequests = 2
  Keys = {"k1"}
  Prints = {"a"}
  Relays = {r1}
  BatchSize = 1
  AttemptsBound = 1
  OverflowAt = 1024
  WithWebhook = {1, 2}
  Handlers = {h1}
  Answers = {200, 503}
  MaxRetries = 1
  ApiCrashes = 1
  ApiDbFaults = 1
  RelayCrashes = 1
  RelayDbFaults = 1
  RelayOutages = 1
  WorkerCrashes = 1
  WorkerDbFaults = 1
  WorkerBrokerFaults = 1
  MinFaultsLeft = 7
  KeyOf <- MCKeyOf
  PrintOf <- MCPrintOf
  RefusalOf <- MCRefusalOf
  ApiBudget <- MCApiBudget
  RelayBudget <- MCRelayBudget
  WorkerBudget <- MCWorkerBudget
INVARIANTS
  HandedOver
  ChargedOncePerKey
  WebhooksBounded
PROPERTIES
  AcceptedIsResolved
  ImplementsService

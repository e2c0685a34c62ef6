SPECIFICATION FairSpec
CONSTANTS
  None = None
  MaxCrashes = 1
  MaxDbFaults = 1
  MaxKeyLength = 2
  MaxDescription = 2
  MaxMetadataKeys = 2
  MoneyLimit = 10000
  FloatLimit = 1000
  Powers = {1, 10, 100}
  Currencies = {"RUB"}
  Values <- MCValues
  Depth <- MCDepth
  MaxDepth = 1
  Budget <- MCBudget
  Requests <- MCRequests
  Sent <- MCSent
  Keys <- MCKeys
  Prints <- MCPrints
  KeyOf <- MCKeyOf
  PrintOf <- MCPrintOf
  RefusalOf <- MCRefusalOf
INVARIANTS
  OnePaymentPerKey
  PaymentIffEvent
  ReplyTruthful
  WinnerFound
  OneCreator
  AnswersMeanBodies
PROPERTIES
  ImplementsRegistry
  EveryRequestEnds

SPECIFICATION Spec
CONSTANTS
  MaxKeyLength = 2
  MaxDescription = 2
  MaxMetadataKeys = 2
  MoneyLimit = 10000
  FloatLimit = 1000
  Powers = {1, 10, 100, 1000}
  Currencies = {"RUB", "EUR"}
  Values <- MCValues
  Depth <- MCDepth
  MaxDepth = 3
  Requests <- MCRequests
INVARIANTS
  NoCentsDropped
CHECK_DEADLOCK FALSE

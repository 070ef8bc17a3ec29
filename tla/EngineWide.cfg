SPECIFICATION MCSpec
CONSTANTS
  MaxTx = 1
  MaxFaults = 1
  NumActions = 2
  Values <- MCValues
  NoValue = NoValue
  Slots = {1}
  Initial = "off"
  SessionActions = {}
  FencedActions = {1}
  TrialOnlyActions = {}
  Requests <- MCRequests
  CallsFail = TRUE
INVARIANTS TypeOK StatementsNotRefused SucceededItemsWereVerified RolledBackIsComplete AppliedValueIsAccounted
PROPERTIES GivenBackHoldsOriginal ReverseOrder

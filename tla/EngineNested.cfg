SPECIFICATION MCSpec
CONSTANTS
  MaxTx = 2
  MaxFaults = 1
  NumActions = 1
  Values <- TwoValues
  NoValue = NoValue
  Slots = {1}
  Initial = "off"
  SessionActions = {}
  FencedActions = {}
  TrialOnlyActions = {}
  Requests <- ThereAndBack
  CallsFail = FALSE
INVARIANTS ForwardRunsAlone UnfinishedIsEnumerated
PROPERTIES PromiseKept

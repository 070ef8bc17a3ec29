SPECIFICATION MCSpec
CONSTANTS
  MaxTx = 1
  NumActions = 1
  MaxFaults = 3
  Values <- TwoValues
  NoValue = NoValue
  Slots = {1}
  Initial = "off"
  SessionActions = {}
  FencedActions = {}
  TrialOnlyActions = {}
  Requests <- TurnOn
  CallsFail = FALSE
INVARIANT RecoveryIsNotRefused

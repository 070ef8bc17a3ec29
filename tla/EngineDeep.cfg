SPECIFICATION LiveSpec
CONSTANTS
  MaxTx = 1
  NumActions = 2
  MaxFaults = 3
  Values <- TwoValues
  NoValue = NoValue
  Slots = {1}
  Initial = "off"
  SessionActions = {2}
  FencedActions = {}
  TrialOnlyActions = {2}
  Requests <- MCRequests
  CallsFail = FALSE
INVARIANTS ForeignBackupIsNotRestored
PROPERTIES GateIsReleased TrialIsTakenBack

SPECIFICATION MCSpec
CONSTANTS
  Profile = {"go", "chess"}
  Instance = {1, 2}
  Setting = {1, 2}
  Values = {"off", "on"}
  NoValue = NoValue
  NoProfile = NoProfile
  Wants <- MCApart
  SkipsConflicts = {"chess"}
  KeyRank <- MCKeyRank
  Matches <- MCMatches
  First = "off"
  MaxDisturbances = 2
INVARIANT StopRestoresAll

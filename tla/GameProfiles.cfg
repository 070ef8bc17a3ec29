SPECIFICATION MCSpec
CONSTANTS
  Profile = {"go", "chess"}
  Instance = {1, 2, 3}
  Setting = {1, 2}
  Values = {"off", "on", "third"}
  NoValue = NoValue
  NoProfile = NoProfile
  Wants <- MCWants
  SkipsConflicts = {"chess"}
  KeyRank <- MCKeyRank
  Matches <- MCMatches
  First = "off"
  MaxDisturbances = 1
INVARIANTS WatcherTypeOK
PROPERTIES LeasedExactlyWhileOwned MatcherAgrees SettingsComeBack ShutdownEnds

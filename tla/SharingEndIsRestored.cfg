SPECIFICATION MCSpec
CONSTANTS
  MaxRuns = 2
  MaxItems = 2
  MinutesPerDay = 4
  Layouts <- MCLayouts
  Spots <- MCSpots
  DwellMs = 2
  CooldownMs = 4
  EndOfTime = 8
  Windows <- MCWindows
  LostWindows = {1, 2}
  MaxRescues = 1
  MaxProfiles = 2
  GameModes = {"game"}
  ManualModes = {"quiet"}
  Colours = {"sky"}
  CleanFiles = {file1, file2}
  ShellPids = {pid1, pid2, pid3}
  Handles = {handle1, handle2}
  MaxOpened = 3
  LostRects <- MCLostRects
  AreaSets <- MCAreaSets
  NormalOffsets = {0, 1}
  MaxOthers = 2
  MaxRequests = 2
  ChangeSizes <- MCChangeSizes
  MaxFaults = 2
INVARIANT SharingEndIsRestored

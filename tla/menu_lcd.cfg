SPECIFICATION FairSpec
CONSTANTS
  Apps <- MCApps
  Settings = 2
  Tree <- MCTree
  PathMax = 4
  Overlays = TRUE
PROPERTY IdleCloses

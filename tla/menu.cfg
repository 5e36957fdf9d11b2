SPECIFICATION FairSpec
CONSTANTS
  Apps <- MCApps
  Settings = 2
  Tree <- MCTree
  PathMax = 4
  Overlays = TRUE
INVARIANTS TypeOK ModelLoaded
PROPERTIES ChosenIsWiped HeldFrameEnds UninstallEnds MenuEnds

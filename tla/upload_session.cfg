SPECIFICATION Spec
CONSTANTS
  Apps <- MCApps
  Splashes = {0, 3, 7}
  Installed <- MCInstalled
  NSlots = 3
  Hosts = {h1}
  MaxBegins = 2
INVARIANTS TypeOK SpansDisjoint DoneHoldsApp PlanAllowed
PROPERTIES ConfinedWrites

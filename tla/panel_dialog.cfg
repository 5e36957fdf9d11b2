SPECIFICATION Spec
CONSTANTS
  Limit = 2
  Grace = 1
  Period = 3
  Bus = {"CONFIGURED", "SUSPEND", "INIT"}
INVARIANT DialogLit

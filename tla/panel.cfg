SPECIFICATION Spec
CONSTANTS
  Limit = 2
  Grace = 1
  Period = 2
  Bus = {"CONFIGURED", "SUSPEND"}
INVARIANT PanelLit
PROPERTIES OffStaysOff WakesOnKey IdleSleeps

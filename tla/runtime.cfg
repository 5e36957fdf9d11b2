SPECIFICATION Spec
CONSTANTS
  Slots = {1, 2}
  Outside = {"launch", "prompt", "off"}
INVARIANTS LoadedInFront NoStaleCall TornDown

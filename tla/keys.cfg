SPECIFICATION Spec
CONSTANTS
  Plain = {"E"}
  Socd = {"W", "A", "S", "D"}
  Opposite <- MCOpposite
INVARIANTS PlainHeld OneDirection HeldIsSeen
PROPERTY PressesHeld

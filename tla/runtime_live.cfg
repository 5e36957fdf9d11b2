SPECIFICATION FairSpec
CONSTANTS
  Slots = {1, 2}
  Outside = {}
PROPERTIES GoesHome WipeEnds

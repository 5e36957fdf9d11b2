SPECIFICATION FairSpec
CONSTANTS
  Size = 3
  IdleLimit = 1
  MaxEvents = 3
  Requests = {"KEYBOARD"}
INVARIANTS PollsOldest RingInv
PROPERTIES IsFifo AcceptedIsTaken IdleEndsOs

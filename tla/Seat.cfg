SPECIFICATION FairSpec
CONSTANTS
  Rooms = {r1}
  HandshakeRoom = r1
  Slots = {c1, c2}
  RingCap = 3
  MaxUp = 2
  MaxDown = 2
  MaxBreaks = 2
  MaxRestarts = 1
INVARIANTS
  UpInOrder
  HeldIsUnsent
  SeatsAgree
  NothingSkipped
PROPERTY ConnectionSettles
CHECK_DEADLOCK FALSE

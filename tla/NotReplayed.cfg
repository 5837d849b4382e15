SPECIFICATION Spec
CONSTANTS
  Rooms = {r1}
  HandshakeRoom = handle
  Slots = {c1, c2}
  RingCap = 9
  MaxUp = 0
  MaxDown = 1
  MaxBreaks = 1
  MaxRestarts = 0
SYMMETRY Symmetry
INVARIANT AtLeastOnce
CHECK_DEADLOCK FALSE

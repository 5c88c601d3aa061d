SPECIFICATION Spec
CONSTANTS
  Base = 8
  MaxFrameSize = 64
  Values <- TheValues
  Pads <- ThePads
  Vhosts <- TheVhosts
  Answers <- TheAnswers
INVARIANTS
  DecodedInPieces
  EncodedWhole
  RoomForLengths
CHECK_DEADLOCK FALSE

SPECIFICATION Spec
CONSTANTS
  c1 = c1
  c2 = c2
  Bad = Bad
  NoAnswer = NoAnswer
  ATSHA204_MAX_SLOT_NUMBER = 15
  Slot <- Slots
  ConfAddr <- ConfAddrs
  OtpAddr <- OtpAddrs
  Challenge = {c1, c2}
  Value = {}
  File <- Files
  Requests <- AllRequests
INVARIANTS TypeOK AnswersAsChip TestPasses

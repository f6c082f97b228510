SPECIFICATION Spec
CONSTANTS
  c1 = c1
  c2 = c2
  OtpBytes = {0, 1, 255}
  Record = {0, 8, 255, 258}
  DNS_ERR_CONST = 255
  Challenge = {c1, c2}
  NoChallenge = NoChallenge
  ATSHA204_MAX_SLOT_NUMBER = 15
INVARIANTS TypeOK SlotIsRight CalmIsAccepted
PROPERTY AnswersWithNamedKey
SYMMETRY Symmetry

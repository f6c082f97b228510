SPECIFICATION Spec
CONSTANTS
  c1 = c1
  c2 = c2
  NoKey = NoKey
  NoCall = NoCall
  NoAnswer = NoAnswer
  WD_MIN = 7
  WD_MAX = 17
  TRY_SEND_RECV_ON_COMM_ERROR = 5
  ATSHA204_MAX_SLOT_NUMBER = 15
  Slot = {0}
  ConfAddr = {0, 4}
  OtpAddr = {}
  Challenge = {c1, c2}
  Value <- FieldSets
  ChallengeA = c1
  ChallengeB = c2
INVARIANTS TypeOK KnownWhileOpen NoLostUpdate
PROPERTIES HandleAlone ServiceSpec

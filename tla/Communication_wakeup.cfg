SPECIFICATION SpecQuiet
CONSTANTS
  c1 = c1
  c2 = c2
  v1 = v1
  v2 = v2
  NoKey = NoKey
  NoCall = NoCall
  NoAnswer = NoAnswer
  WD_MIN = 7
  WD_MAX = 17
  TRY_SEND_RECV_ON_COMM_ERROR = 5
  ATSHA204_MAX_SLOT_NUMBER = 15
  Slot = {0}
  ConfAddr = {0}
  OtpAddr = {}
  Challenge = {c1}
  Value = {v1}
  Requests <- MixedRequests
INVARIANT WakeupDevice

SPECIFICATION Spec
CONSTANTS
  NoKey = NoKey
  WD_MIN = 7
  WD_MAX = 17
  Bad = Bad
  Factory = Factory
  FactoryAddress = 200
  Configured = Configured
  Blank = Blank
  ATSHA204_MAX_SLOT_NUMBER = 15
  Slot <- Slots
  ConfAddr <- ConfAddrs
  OtpAddr <- OtpAddrs
  Challenge = {"challenge"}
  Value = {}
  Command <- InitAlone
  Suffix <- SuffixOf
  CharIsSigned = FALSE
  CallTimes = {2}
  KILL_UNRELEASED_LOCK_AFTER = 100
INVARIANT HealthyRunFinishes

SPECIFICATION FairSpec
CONSTANTS
  RL_PING_TIMEOUT = 1
  Version <- SameVersions
  HasClock <- ControllerOnly
  MayCrash <- ControllerOnly
  AllocMayFail = FALSE
  Prompt = TRUE
  EarlyPackets = FALSE
  MaxReqs = 0
PROPERTY DeviceTornDown

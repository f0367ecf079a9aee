SPECIFICATION FairSpec
CONSTANTS
  RL_PING_TIMEOUT = 2
  Version <- SameVersions
  HasClock <- ControllerOnly
  MayCrash <- Ends
  AllocMayFail = TRUE
  Prompt = TRUE
  EarlyPackets = TRUE
  MaxReqs = 1
INVARIANTS TypeOK NoFalseTimeout
PROPERTIES DeadPeerDetected BothGoDown ControllerTerminates HandshakeCompletes

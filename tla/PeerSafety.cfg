SPECIFICATION Spec
CONSTANTS
  RL_PING_TIMEOUT = 1
  Version <- SameVersions
  HasClock <- Ends
  MayCrash <- Nobody
  AllocMayFail = FALSE
  Prompt = FALSE
  EarlyPackets = TRUE
  MaxReqs = 1
INVARIANTS ConnectedAgreement HandshakeComesFirst PingAccounting

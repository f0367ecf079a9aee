SPECIFICATION Spec
CONSTANTS
  NULL = NULL
  MaxConns = 2
  MaxEvents = 2
  IndexModulus = 2
  MaxProcs = 1
INVARIANT PeersMaintained
CHECK_DEADLOCK FALSE

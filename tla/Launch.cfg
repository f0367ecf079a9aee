SPECIFICATION FairSpec
CONSTANTS
  NULL = NULL
  MaxConns = 3
  MaxEvents = 4
  IndexModulus = 2
  MaxProcs = 2
INVARIANTS TypeOK PortAccounting ReportsGoHome EndReportedOnce DevicesFollowConnections VolumeNamesDistinct
PROPERTIES EveryControllerEnds
CHECK_DEADLOCK FALSE

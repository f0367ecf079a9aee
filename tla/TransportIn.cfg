SPECIFICATION FairSpec
CONSTANTS
  BufSize = 5
  HdrLen = 2
  GoodLens = {2, 3, 5}
  BadLens = {0, 1, 6}
  MaxFrames = 3
CHECK_DEADLOCK FALSE
INVARIANTS TypeOK DeliveredExactly RecvHasRoom CloseLosesNothing
PROPERTY EveryFrameDelivered

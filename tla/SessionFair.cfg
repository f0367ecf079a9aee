SPECIFICATION FairSpec
CONSTANTS
  Tree <- BigFile
  RootSize = 2
  Chunk = 2
  RL_MAX_FILE_HANDLES = 2
  IoMayFail = FALSE
  Procs = {p1, p2}
  Ops <- FairOps
  Names <- FairNames
  Counts = {0, 1, 3, 6}
  SeekTargets <- Seeks
  LockIds = {l1, l2}
  MaxPackets = 4
  AllocMayFail = FALSE
  ConnMayFail = FALSE
  SpawnMayFail = TRUE
INVARIANT ReadCorrect
PROPERTY EveryPacketAnswered
CHECK_DEADLOCK FALSE

SPECIFICATION Spec
CONSTANTS
  Tree <- SmallTree
  RootSize = 2
  Chunk = 2
  RL_MAX_FILE_HANDLES = 2
  IoMayFail = TRUE
  Procs = {p1, p2}
  Ops <- AllOps
  Names <- AllNames
  Counts = {3}
  SeekTargets <- SomeSeeks
  LockIds = {l1, l2, l3}
  MaxPackets = 3
  AllocMayFail = TRUE
  ConnMayFail = TRUE
  SpawnMayFail = TRUE
SYMMETRY Symmetry
INVARIANTS TypeOK OnePendingPerPacket WriteComplete
CHECK_DEADLOCK FALSE

SPECIFICATION Spec
CONSTANTS
  Tree <- SmallTree
  RootSize = 2
  Chunk = 2
  RL_MAX_FILE_HANDLES = 2
  IoMayFail = FALSE
  Procs = {p1}
  Ops <- DupOps
  Names <- HandleNames
  Counts = {2}
  SeekTargets <- NoSeeks
  LockIds = {l1, l2, l3, l4}
  MaxPackets = 6
  AllocMayFail = FALSE
  ConnMayFail = FALSE
  SpawnMayFail = FALSE
INVARIANT LockNamesItsObject
CHECK_DEADLOCK FALSE

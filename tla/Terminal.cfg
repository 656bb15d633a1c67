\* A program's output on its way to the readers of its screen.
SPECIFICATION RunSpec
CONSTANTS
  Chunks <- DriverChunks
  Budgets <- DriverBudgets
  Capacity = 1
  Readers = {r1, r2}
  None = None
INVARIANTS
  NoTornBatch
  NothingLost
  SurfaceIsHosts
  IngressMediates
CHECK_DEADLOCK FALSE

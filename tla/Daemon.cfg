\* Two creations race a stop and a rename; and a device whose
\* store answers late.
SPECIFICATION RunSpec
CONSTANTS
  Creations = {c1, c2}
  Names = {main, n1, n2}
  Main = main
  Ids = {i1, i2}
  Stoppers = {r1}
  None = None
  MaxLive = 2
  StoreBuffering = TRUE
SYMMETRY Symmetry
INVARIANTS
  SessionsAccounted
  StoppedReleasedAll
  LateStoreIsSafe
CHECK_DEADLOCK FALSE

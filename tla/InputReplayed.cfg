\* Input typed before an outage is written to the attachment after it.
SPECIFICATION RunSpec
CONSTANTS
  Parts = {"fence"}
  OscBound = 6
  SeqBound = 9
  PasteBound = 12
  MaxHeld = 2
  Scripts <- FenceScripts
  Budgets <- FenceBudgets
  Capacity = 1
  MaxChunk = 3
INVARIANT NeverReplayed
CHECK_DEADLOCK FALSE

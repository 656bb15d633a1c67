\* The user types while the view opens, closes, reconnects and uploads.
SPECIFICATION RunSpec
CONSTANTS
  Parts = {"fence", "input"}
  OscBound = 6
  SeqBound = 9
  PasteBound = 12
  MaxHeld = 2
  Scripts <- FenceScripts
  Budgets <- FenceBudgets
  Capacity = 1
  MaxChunk = 3
INVARIANTS
  NoStaleInput
  TypedArrives
  InputIsWhole
CHECK_DEADLOCK FALSE

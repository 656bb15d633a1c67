CONSTANTS
  Attachments = {a1, a2}
  Local = local
  Principals = {d1}
  Views = {v1}
  Operations = {o1}
  None = none
  Colors = {dark, light}
  MaxGeneration = 2
  MaxRevision = 2
SPECIFICATION Spec
SYMMETRY Symmetry
INVARIANTS
  ExpelledIsGone
  UpdatesContinue
  FinalScreenShown
CHECK_DEADLOCK FALSE

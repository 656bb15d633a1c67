CONSTANTS
  Attachments = {a1, a2, a3}
  Local = local
  Principals = {local}
  Views = {}
  Operations = {o1, o2}
  None = none
  Colors = {dark}
  MaxGeneration = 3
  MaxRevision = 1
SPECIFICATION Spec
SYMMETRY Symmetry
INVARIANTS
  SingleController
  InputAfterSnapshot
PROPERTIES
  ImplementsLease
  RetryDisplacesOwn
CHECK_DEADLOCK FALSE

CONSTANTS
  Principals = {p1}
  Callers = {c1, c2}
  Fingerprints = {f1, f2}
  Unknown = unknown
  Results = {unknown}
  NoResult = none
  MaxPrincipals = 1
  MaxEpochs = 2
  ResultsPerEpoch = 2
  MaxOrdinal = 3
  MaxSequence = 3
  MaxClock = 3
  MaxIncarnations = 2
  MaxExecutions = 3
SPECIFICATION Spec
SYMMETRY Symmetry
INVARIANTS
  AtMostOnce
  CellsRetained
  ResidentExactly
  BoundedByRecency
CHECK_DEADLOCK FALSE

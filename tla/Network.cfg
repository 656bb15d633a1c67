\* Two ends of a connection, and what the daemon does over the network
\* and over its socket.
SPECIFICATION RunSpec
CONSTANTS
  Attempts = {1, 2}
  Incarnations = {1, 2, 3, 4, 5, 6}
  MaxRetired = 2
  Users <- BrokerUsers
  Old = {2}
  FaultKinds = {"timeout", "link", "silence", "detach", "quiesce", "restart"}
  MaxFaults = 1
  None = none
INVARIANTS
  CandidatesSound
  NetworkIsOrderly
  CallersAreToldTruth
  UpdateIsSigned
  WaitingIsServed
  ReportsHold
CHECK_DEADLOCK FALSE

\* A device is revoked while everything about it is in flight; the
\* hosts it pairs with; its files and its daemon.
SPECIFICATION RunSpec
CONSTANTS
  Inbound = {c1}
  Outbound = {d1}
  Revokers = {r1}
  Pairers = {p1}
  Offers = {o1}
  None = None
  MaxGeneration = 3
INVARIANTS
  RevokedIsGone
  MirrorsStore
  HostIsOwned
  AcceptanceIsDefinite
PROPERTIES
  RevokeEnds
CHECK_DEADLOCK FALSE

\* Handshakes race for the tickets of three calls, at the limit of offers.
SPECIFICATION Spec
CONSTANTS
  Calls = {k1, k2, k3}
  Operations = {o1, o2, o3}
  Prints = {p1, p2}
  Ids = {i1, i2}
  Attempts = {a1, a2}
  None = None
  MaxOffers = 1
SYMMETRY Symmetry
INVARIANTS
  OffersAgree
PROPERTIES
  ImplementsTickets
CHECK_DEADLOCK FALSE

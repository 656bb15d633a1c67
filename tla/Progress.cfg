\* What must eventually happen, whatever fails or goes away in between.
SPECIFICATION RunSpec
CONSTANT None = None
PROPERTIES
  BegunEnds
  SidesAgree
CHECK_DEADLOCK FALSE

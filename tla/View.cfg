\* One view of a terminal, its shell, its history and its uploads.
SPECIFICATION RunSpec
CONSTANTS
  Window = 1
  OutboundCapacity = 2
  EventCapacity = 1
  Budgets <- ViewBudgets
INVARIANTS
  ViewEndsRight
  ShellGivesBack
  HistoryIsWhatIsShown
  UploadIsHonest
CHECK_DEADLOCK FALSE

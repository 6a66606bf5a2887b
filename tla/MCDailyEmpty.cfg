SPECIFICATION Spec
CONSTANTS
  Selections <- MCSelections
  Baseline <- MCBaseline
  DayHours = 4
  NumSessions = 4
  MaxOwner = 3
PROPERTY EmptyStaysEmpty
CHECK_DEADLOCK FALSE

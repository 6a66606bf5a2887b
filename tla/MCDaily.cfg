\* Three sessions after the one the run starts in, one pause and one resume.
SPECIFICATION Spec
CONSTANTS
  Selections <- MCSelections
  Baseline <- MCBaseline
  DayHours = 4
  NumSessions = 4
  MaxOwner = 3
INVARIANTS GrantIsCurrent FenceAgrees
CHECK_DEADLOCK FALSE

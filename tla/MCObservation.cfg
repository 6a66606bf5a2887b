SPECIFICATION Spec
CONSTANTS
  Workers = {w1, w2}
  Nobody = Nobody
  MaxClose = 4
  MaxGrants = 1
  MaxFaults = 1
INVARIANTS SignalsNeedRearm
PROPERTIES DueBarIsConsumed
CHECK_DEADLOCK FALSE

SPECIFICATION FairSpec
CONSTANTS
  Plans = {"regular", "closure", "compatible"}
  MaxFaults = 1
  MaxOwner = 1
  MaxHistory = 1
INVARIANTS
  RuntimeMatchesSchema
PROPERTIES
  MutationsAreQuiet
  FixForwardRestoresSafety

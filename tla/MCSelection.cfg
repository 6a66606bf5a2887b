SPECIFICATION Spec
CONSTANTS
  Selections <- MCSelections
  First <- MCFirst
  NumPeriods = 3
  Cadence = 3
  MaxOwner = 5
INVARIANTS
  FencedGenerationOwnsVacuum
  EntryNeedsFreshSelection
PROPERTIES
  GenerationDrainEnds
CHECK_DEADLOCK FALSE

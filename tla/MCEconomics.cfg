\* The numbers of a Ticket: sizing, stress, claim, stops, review.
CONSTANTS
  Base <- MCBase
  Leverage <- MCLeverage
  Policy <- MCPolicy
  Rules <- MCRules
  Fees <- MCFees
  Hold <- MCHold
  FactSet <- MCFactSet
  Bars <- MCBars
  AtrPeriod = 1
  FillPrices = {33, 38, 40, 41, 44, 47}
  MaxBars = 6
  MaxSlip = 3
SPECIFICATION Spec
INVARIANTS SizingIsLargestAdmissible StressCoversEveryPrice RunnerKeepsCosts
CHECK_DEADLOCK FALSE

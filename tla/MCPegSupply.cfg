\* Three voting or proof-of-work blocks anywhere in eight: enough for a winning interval,
\* the interval before it, and the two intervals in which the result is used.
CONSTANTS
  PegInterval = 2
  PegStartHeight = 7
  MaxSupplyIndex = 5
  WeightStep = 3
  Stakes <- MCStakes
  MaxHeight = 14
  MaxMarked = 3
SPECIFICATION Spec
INVARIANTS
  TypeOK
  IndexConstantInInterval
  StepAtMostBuffer
  ForecastHolds
  SumsAreTheIntervalsOwn

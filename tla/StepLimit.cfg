SPECIFICATION Spec
CONSTANTS
  Exact = Exact
  Poor = Poor
  Odd = Odd
  NaN = NaN
  Broken = NaN
  Formula <- MCFormula
  Chi2 <- MCChi2
  Worst = 2
  Ants <- MCAnts
  AntWorld <- MCAntWorld
  Arguments <- MCArguments
  Word = 256
  PopSize = 3
  MaxGenerations = 2
  MaxElite = 2
  MaxTries = 2
  MaxRounds = 2
CHECK_DEADLOCK FALSE
INVARIANT StepsLimited

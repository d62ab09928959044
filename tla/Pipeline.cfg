SPECIFICATION MCSpec
CONSTANTS
  Good = Good
  Bad = Bad
  Odd = Odd
  NaN = NaN
  Broken = NaN
  Genome <- MCGenome
  Fit <- MCFit
  Transform <- MCTransform
  PopSize = 3
  NumberElite = 1
  TournamentSize = 2
  MinHeight = 1
  MaxHeight = 4
  NonTerminals = {1, 2}
INVARIANTS PopulationSizeKept HeightIsDepth HeightsInLimits
PROPERTIES ObserverAccounts BestNeverLost ImplementsEvolution GenerationEnds ImplementsPolishWord Terminates
CHECK_DEADLOCK FALSE

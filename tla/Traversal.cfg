SPECIFICATION MCSpec
CONSTANTS
  MaxNodes = 6
  Labellings = {0, 1, 2, 3}
  Arity <- MCArity
  Numbers = {"2"}
  Modulus = 5
  Data <- MCData
  InitialTrees <- MCInitialTrees
INVARIANTS IteratorsInPlace RankIsLevelOrder SubtreeRangesEnd TextsTellTrees FormulaEvaluated

SPECIFICATION Spec
CONSTANTS
  Modulus = 5
  Rules <- MCRules
  MaxTrials = 40
  RuleTrials = 20
  InitialTrees <- MCInitialTrees
INVARIANTS CursorValid NothingLeft
PROPERTIES ValueKept Completes
CHECK_DEADLOCK FALSE

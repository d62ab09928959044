CONSTANTS
  Node = {n1, n2, n3, n4, n5}
  Tree = {s, t}
  Value = {v}
  MaxArity = 2
  Null = Null
  Child = {a, b, c}
  MaxChildren = 4
  NoChild = NoChild
SPECIFICATION NarySpec
SYMMETRY NodeSymmetry
INVARIANTS Forest ArityRespected SizeAccount
PROPERTIES LeaksOnlyByThrow ImplementsForest ImplementsContainer
CHECK_DEADLOCK FALSE

CONSTANTS
  Node = {n1, n2, n3}
  Tree = {s, t}
  Value = {v}
  MaxArity = 1
  Null = Null
SPECIFICATION Spec
SYMMETRY NodeSymmetry
INVARIANT SizeReturnsNodeCount
CHECK_DEADLOCK FALSE

CONSTANTS
  Node = {n1, n2, n3}
  Tree = {s, t}
  Value = {v}
  MaxArity = 9
  Null = Null
SPECIFICATION Spec
SYMMETRY NodeSymmetry
PROPERTY InsertAtRootThrows
CHECK_DEADLOCK FALSE

CONSTANTS
  Node = {n1, n2, n3, n4}
  Tree = {s, t}
  Value = {v, w}
  MaxArity = 9
  Null = Null
SPECIFICATION Spec
SYMMETRY NodeSymmetry
INVARIANTS LinksConsistent ParentsEnd
PROPERTY CallsAsSpecified
CHECK_DEADLOCK FALSE

SPECIFICATION Spec
CONSTANTS
  X = X
  Sin = Sin
  Neg = Neg
  Plus = Plus
  Symbol = {X, Sin, Neg, Plus}
  Arity <- MCArity
  Initial <- MCLimited
  Generated <- MCGenerated
  MaxHeight = 2
  MaxTries = 2
PROPERTY PipHeightsLimited

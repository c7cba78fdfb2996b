SPECIFICATION Spec
CONSTANTS
  Axes = {1}
  FloatLimit = 1048576
  Trees <- MCTrees
  Conditions <- MCConditions
INVARIANTS ReadWhole MeansItsTree HoldsAsWritten
CHECK_DEADLOCK FALSE

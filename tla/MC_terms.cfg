SPECIFICATION Spec
CONSTANTS
  Axes = {1}
  FloatLimit = 1048576
  Trees <- MCTrees
  Conditions <- MCConditions
INVARIANTS TermsAreAdded
CHECK_DEADLOCK FALSE

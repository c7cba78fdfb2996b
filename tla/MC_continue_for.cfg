SPECIFICATION Spec
CONSTANTS
  Vars <- VarNames
  Programs <- Samples
  SELECT_AND_CYCLE_NEST = 3
  SUB_NEST = 4
PROPERTIES ContinueIsNext

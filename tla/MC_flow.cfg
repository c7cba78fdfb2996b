SPECIFICATION Spec
CONSTANTS
  Vars <- VarNames
  Programs <- SafePrograms
  SELECT_AND_CYCLE_NEST = 4
  SUB_NEST = 3
INVARIANTS FramesMatch
PROPERTIES ImplementsStructured Terminates

SPECIFICATION Spec
CONSTANTS
  Vars <- VarNames
  Programs <- AnyPrograms
  SELECT_AND_CYCLE_NEST = 3
  SUB_NEST = 4
INVARIANTS TypeOK FramesSound ReturnsFind LocalsReturned
PROPERTIES RepeatsOwnKind

SPECIFICATION Spec
CONSTANTS
  NUM_THREAD = 1
  LastLine = 5
  Stmt <- PauseStmt
  Succ <- NoSucc
  JumpLines <- OneLine
  StepModes <- StepOrFull
  Requests <- Statements
  MaxSeq = 1
  ShmAttached = TRUE
INVARIANTS AbortBoundsRun
CHECK_DEADLOCK FALSE

SPECIFICATION Spec
CONSTANTS
  NUM_THREAD = 1
  LastLine = 5
  Stmt <- PauseStmt
  Succ <- NoSucc
  JumpLines <- NoLine
  StepModes <- Full
  Requests <- ForwardOnly
  MaxSeq = 0
  ShmAttached = FALSE
PROPERTIES PauseStatementHolds

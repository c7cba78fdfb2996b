SPECIFICATION Spec
CONSTANTS
  NUM_THREAD = 1
  LastLine = 7
  Stmt <- ElseStmt
  Succ <- ElseSucc
  JumpLines <- NoLine
  StepModes <- Full
  Requests <- ForwardOnly
  MaxSeq = 0
  ShmAttached = FALSE
INVARIANTS StepIsOneLine

SPECIFICATION Spec
CONSTANTS
  NUM_THREAD = 1
  LastLine = 4
  Stmt <- BlankStmt
  Succ <- BlankSucc
  JumpLines <- NoLine
  StepModes <- Full
  Requests <- SteeringAll
  MaxSeq = 0
  ShmAttached = FALSE
INVARIANTS TypeOK PauseBoundsRun OneStatementPerStep OnlyAbortTearsStatement

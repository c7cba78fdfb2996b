SPECIFICATION FairSpec
CONSTANTS
  NUM_THREAD = 1
  LastLine = 4
  Stmt <- LoopStmt
  Succ <- LoopSucc
  JumpLines <- NoLine
  StepModes <- Full
  Requests <- Aborting
  MaxSeq = 0
  ShmAttached = FALSE
PROPERTIES AbortEnds StepReturns

SPECIFICATION Spec
CONSTANTS
  NUM_THREAD = 3
  LastLine = 3
  Stmt <- ShortStmt
  Succ <- NoSucc
  JumpLines <- NoLine
  StepModes <- Full
  Requests <- StartOnly
  MaxSeq = 2
  ShmAttached = FALSE
PROPERTIES OneProgramPerStart

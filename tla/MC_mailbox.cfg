SPECIFICATION FairSpec
CONSTANTS
  w1 = w1
  w2 = w2
  r1 = r1
  r2 = r2
  Writers <- OneWriter
  Readers <- OneReader
  MaxMessages = 4
INVARIANTS Exclusion
PROPERTIES IsMailbox Delivered
CHECK_DEADLOCK FALSE

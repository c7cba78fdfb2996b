SPECIFICATION Spec
CONSTANTS
  w1 = w1
  w2 = w2
  r1 = r1
  r2 = r2
  Writers <- TwoWriters
  Readers <- TwoReaders
  MaxMessages = 3
SYMMETRY UserSymmetry
INVARIANTS FlagsReturn
CHECK_DEADLOCK FALSE

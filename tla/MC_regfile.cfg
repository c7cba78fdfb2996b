SPECIFICATION Spec
CONSTANTS
  Axes = {1, 2}
  FloatLimit = 16
  Ids = {1, 2}
  MAX_REG_VALUE = 3
  Kind = "HR"
  Threads = {p, c}
  Writes <- MCWrites
  Deletes = {1}
SYMMETRY ThreadSymmetry
INVARIANTS TypeOK Durable ValuesInLimit

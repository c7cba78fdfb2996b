SPECIFICATION Spec
CONSTANTS
  Axes = {1}
  FloatLimit = 4
  Ids = {1, 2}
  MAX_REG_VALUE = 9
  Programs = {p}
  Statements <- MCStatements
  Requests <- MCRequests
  Contents <- MCContents
  Junk = {2}
  Uint16 = 4
  Here <- MCHere
  MaxCalls <- OneEach
INVARIANTS TypeOK CopiesAgree FloatsAssigned
PROPERTIES OnlyNamedRegister OthersKept NoRevival ReadsBack
CHECK_DEADLOCK FALSE

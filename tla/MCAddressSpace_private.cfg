SPECIFICATION Spec
CONSTANTS
  Word = 64
  LowLimit = 2
  Limit = 16
  StackBottom = 12
  StackPages = 2
  Headers <- MCHeaders
  MaxHeaders = 3
  Slots = 2
  Fresh = {f1, f2, f3}
  None = None
CHECK_DEADLOCK FALSE
INVARIANT PrivateWritesStayPrivate

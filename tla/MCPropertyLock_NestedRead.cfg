CONSTANTS
  Ids = {n1}
  Keys = {k1}
  Vals <- MCVals
  NoValue = NoValue
  MaxRowCount = 6
  Threads = {t1, t2}
  NoThread = NoThread
  MaxCalls = 2
  NestedOps = {"read"}
SPECIFICATION Spec
PROPERTY CallsReturn
CHECK_DEADLOCK FALSE

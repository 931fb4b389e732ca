CONSTANTS
  Ids = {n1}
  Keys = {k1}
  Vals <- MCVals
  NoValue = NoValue
  MaxRowCount = 6
  Threads = {t1, t2}
  NoThread = NoThread
  MaxCalls = 3
  NestedOps = {}
SPECIFICATION Spec
PROPERTY Refines
PROPERTY ReadsLinearizable
PROPERTY CallsReturn
CHECK_DEADLOCK FALSE

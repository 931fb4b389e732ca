CONSTANTS
  Ids = {n1, n2}
  Keys = {k1}
  NoValue = NoValue
  MaxRowCount = 3
  Vals <- MCValsNaN
SPECIFICATION Spec
INVARIANT ZoneMapSound

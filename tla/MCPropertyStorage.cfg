CONSTANTS
  Ids = {n1, n2}
  Keys = {k1, k2}
  NoValue = NoValue
  MaxRowCount = 3
  Vals <- MCVals
SYMMETRY Symmetry
SPECIFICATION Spec
INVARIANT TypeOK
INVARIANT ZoneMapSound
PROPERTY RebuildMakesTight

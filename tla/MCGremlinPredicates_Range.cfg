CONSTANTS
  Lits <- MCLits
  KidLits <- MCKidLits
  StrLits <- MCStrLits
  LabelLits <- MCLabelLits
  IdLits <- MCIdLits
  Elements <- MCElements
  Absent = Absent
  MaxList = 2
  MaxOffset = 4
  RangePairs <- MCRangesAll
  Builds = {"debug", "release"}
  Width = 3
  NRows = 3
  ReadElems <- MCReadElems
SPECIFICATION Spec
INVARIANT PagingMatchesSpec

SPECIFICATION Spec
CONSTANTS
  Start <- MCStart
  Indices = {0, 1, 2}
  Extents = {1, 2, 3}
  Dims <- MCDims
  Keys = {"a", "b", "NA"}
  New = New
  MaxRank = 3
  MaxViews = 2
  MaxWritten = 1
  MaxAttributes = 1
\* A call that R or the attribute refused is over.
CHECK_DEADLOCK FALSE
INVARIANTS ViewFits AddressExact ChecksComeFirst ExhaustiveExact
PROPERTIES TransposeExact

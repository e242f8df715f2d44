SPECIFICATION Spec
CONSTANTS
  Objects = {o1, o2, o3, o4}
  Argument = Argument
  NULL = NULL
  NoValue = NoValue
  RValues <- MCRValues
  ProtectLimit = 4
  MaxLocals = 1
  ByteMax = 3
  IntMax = 7
  SizeMax = 31
  Exact = 8
  Inf = Inf
  NaN = NaN
  Text = Text
SYMMETRY AnyObject
INVARIANTS StackBalanced NothingDangles PanicAbandonsNothing NumberSurvives

SPECIFICATION FairSpec
CONSTANTS
  Pointers = {p1, p2}
  Boxes = {b1, b2, b3}
  Null = Null
  NoPointer = NoPointer
INVARIANTS BorrowsAreLive GivenBackOnce
PROPERTIES DroppedGetsFreed
CHECK_DEADLOCK FALSE

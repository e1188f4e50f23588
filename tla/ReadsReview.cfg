SPECIFICATION ReadsSpec
CONSTANTS
  ModPath = {lib, ext}
  OurPath = {lib}
  StorePath = {lib}
  Reader = {a1}
  MaxOpen = 1
  NotCached = NotCached
CHECK_DEADLOCK FALSE
INVARIANT ReviewHidesFromSearch

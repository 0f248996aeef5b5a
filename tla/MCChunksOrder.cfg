\* Buffers of two sizes whose bins are neighbours come and go.
SPECIFICATION Spec
CHECK_DEADLOCK FALSE
CONSTANTS
  MEM = 62
  Sizes = {4, 8}
  Returned = {4, 8}
  Class <- MCClass
  Least = 32
  RECORDS = 6
INVARIANT FreeListOrdered

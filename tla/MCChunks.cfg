\* Buffers of one size come and go, larger regions are never given back.
SPECIFICATION Spec
CHECK_DEADLOCK FALSE
CONSTANTS
  MEM = 62
  Sizes = {4, 6, 16}
  Returned = {4}
  Class <- MCClass
  Least = 32
  RECORDS = 5
INVARIANTS
  TypeOK
  FreeListLinked
  BinsDelimit
  NothingLost
  GivesBackItsOwn
PROPERTY HandsOutRegions

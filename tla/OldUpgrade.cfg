SPECIFICATION Spec
CONSTANTS
  oa = oa
  Openers = {o1, o2}
  NoTable = NoTable
  Nobody = Nobody
  OldRows <- MCOldRows
  OldNames = {oa}
  MaxCrashes = 2
INVARIANTS NothingIsDropped StampIsHonest RoutesAreKept
PROPERTIES EverybodyOpens
CHECK_DEADLOCK FALSE

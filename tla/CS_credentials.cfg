SPECIFICATION Spec
CONSTANTS
  k1 = k1
  k2 = k2
  r1 = r1
  r2 = r2
  Keys = {k1, k2}
  Mapped = {k1}
  Requests = {r1, r2}
  MaxBegun = 3
  MaxFaults = 1
SYMMETRY Symmetry
INVARIANTS CacheIsFresh ReportedWritesAreStored
PROPERTY OnlyTheirOwn
CHECK_DEADLOCK FALSE

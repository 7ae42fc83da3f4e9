SPECIFICATION FairSpec
CONSTANTS
  t1 = t1
  t2 = t2
  t3 = t3
  w1 = w1
  w2 = w2
  Task = {t1, t2}
  Worker = {w1, w2}
  Absent = absent
  Ghost = ghost
  Nobody = nobody
  Events = {"workersCreate", "cancelHere", "cancelThere"}
  MaxCrashes = 0
PROPERTIES RunEnds CancelledRunStops
CHECK_DEADLOCK FALSE

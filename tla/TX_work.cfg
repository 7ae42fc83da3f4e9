SPECIFICATION Spec
CONSTANTS
  t1 = t1
  t2 = t2
  t3 = t3
  w1 = w1
  w2 = w2
  Task = {t1, t2, t3}
  Worker = {w1, w2}
  Absent = absent
  Ghost = ghost
  Nobody = nobody
  Events = {"taskFails", "workersCreate", "absentWorker", "ghostDep", "modelError"}
  MaxCrashes = 1
SYMMETRY WorkerAndTaskSymmetry
INVARIANTS WorkFollowsDependencies SynthesisSeesEverything
PROPERTY QueueIsKept
CHECK_DEADLOCK FALSE

SPECIFICATION Spec
CONSTANTS
  r1 = r1
  r2 = r2
  r3 = r3
  s1 = s1
  s2 = s2
  s3 = s3
  Replica = {r1, r2}
  Stable = {}
  Run = {run1}
  Scanner = {s1, s2}
  Host <- HostOfTwo
  MaxTurns = 2
  Events = {"cancel", "cancelTTL", "revoke", "shutdown", "storeError"}
  None = None
SYMMETRY PairSymmetry
INVARIANTS TypeOK AdoptedRunsAreRunning
CHECK_DEADLOCK FALSE

SPECIFICATION FairSpec
CONSTANTS
  r1 = r1
  r2 = r2
  r3 = r3
  s1 = s1
  s2 = s2
  s3 = s3
  Replica = {r1, r2, r3}
  Stable = {r3}
  Run = {run1}
  Scanner = {s2, s3}
  Host <- HostOfThree
  MaxTurns = 2
  Events = {"cancel"}
  None = None
INVARIANTS OnlyTheDeadAreTakenOver OneRecoveryAtATime
PROPERTIES RecordedRunsEnd CancelSticks RecoveryKeepsPromise
CHECK_DEADLOCK FALSE

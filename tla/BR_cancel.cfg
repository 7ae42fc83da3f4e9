SPECIFICATION Spec
CONSTANTS
  r1 = r1
  r2 = r2
  s1 = s1
  Run = {r1, r2}
  Session = {s1}
  NoRun = noRun
  Events = {"storeError", "cancel"}
  MaxTokens = 1
  Quiet = 1
  MaxSilent = 2
INVARIANTS TrackedRuns
PROPERTIES CancelReachesRuns
CHECK_DEADLOCK FALSE

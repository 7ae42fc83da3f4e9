SPECIFICATION FairSpec
CONSTANTS
  r1 = r1
  r2 = r2
  s1 = s1
  Run = {r1, r2}
  Session = {s1}
  NoRun = noRun
  Events = {"modelError", "reconnect"}
  MaxTokens = 1
  Quiet = 1
  MaxSilent = 2
INVARIANTS ClientOutlastsRun StreamMatchesLog
PROPERTIES StreamEnds ClientStops
CHECK_DEADLOCK FALSE

SPECIFICATION FairSpec
CONSTANTS
  stdout = stdout
  traces = traces
  memory = memory
  policy = policy
  c1 = c1
  Sinks = {stdout, traces}
  Prompt = {stdout}
  Echoing = {traces}
  EchoesExcluded = TRUE
  QueueSize = 2
  Primitives = {memory, policy}
  PolicyPrimitive = policy
  Calls = {c1}
  MaxConfigs = 2
  Scenarios <- Scenarios1
INVARIANTS TypeOK NoEventVanishes WrittenOnceInOrder ServedProvidersAreOpen OneConfigInService ReadyServesTheFile
PROPERTIES SinksAreIsolated ShutdownEnds ChangesAreServed ChangesAreEnforced
CHECK_DEADLOCK FALSE

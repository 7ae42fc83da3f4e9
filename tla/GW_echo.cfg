SPECIFICATION Spec
CONSTANTS
  stdout = stdout
  traces = traces
  memory = memory
  policy = policy
  c1 = c1
  Sinks = {stdout, traces}
  Prompt = {stdout}
  Echoing = {traces}
  EchoesExcluded = FALSE
  QueueSize = 2
  Primitives = {memory, policy}
  PolicyPrimitive = policy
  Calls = {c1}
  MaxConfigs = 2
  Scenarios <- OneCall
INVARIANT NothingIsRefused
CHECK_DEADLOCK FALSE

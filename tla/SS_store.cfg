SPECIFICATION Spec
CONSTANTS
  Requests = {r1, r2}
  Users = {root}
  Admins = {root}
  Names = {bot}
  System = system
  None = None
  MaxVersions = 3
  MaxFileSaves = 5
  MaxRedisSaves = 3
  MaxRaces = 1
  Shared <- SharedSpecs
  Coloned = {root}
  Cap = 1
SYMMETRY Symmetry
INVARIANTS PointersAgree NumberedInOrder QueueIsComplete OneWinnerUntilDeleted
PROPERTIES GateIsKept LedgerIsKept
CHECK_DEADLOCK FALSE

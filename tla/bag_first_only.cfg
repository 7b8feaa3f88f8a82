SPECIFICATION Spec
CONSTANTS
  Client = {c1}
  Value = {v1, v2}
  Absent = Absent
  None = None
  Nobody = Nobody
  Anyone = Anyone
  Handlers = TRUE
  Scripts = TRUE
  Queueing = TRUE
  MaxWrites = 2
  MaxEvents = 3
INVARIANTS
  QueueHoldsLatest
CHECK_DEADLOCK FALSE

SPECIFICATION FairSpec
CONSTANTS
  Client = {c1}
  Value = {v1, v2}
  Absent = Absent
  None = None
  Nobody = Nobody
  Anyone = Anyone
  Handlers = TRUE
  Scripts = TRUE
  Queueing = TRUE
  MaxWrites = 3
  MaxEvents = 5
INVARIANTS
  Agreement
PROPERTIES
  NeverBackwards
  Converges
CHECK_DEADLOCK FALSE

SPECIFICATION Spec
CONSTANTS
  Sizes = {1, 2, 4}
  Latencies = {0, 2, 3}
  Steps = {0, 1, 5, 7}
  Delay = 4
  AgeCap = 16
INVARIANTS
  LoopOutcomes
  PacedByRate
  SentOncePerBurst
PROPERTY EveryFragmentServed
CHECK_DEADLOCK FALSE

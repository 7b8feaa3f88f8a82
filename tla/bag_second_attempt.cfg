SPECIFICATION Spec
CONSTANTS
  Main = Main
  Sync = Sync
  Entity = {e1, e2}
  None = None
  Bag = {1, 2, 3, 4, 5}
INVARIANTS
  SecondAttempt

CONSTANTS
  Origin = {1, 2}
  Doc = {1, 2}
  Readers <- MCReaders
  Public = {}
  Cap = 1
  MaxWrites = 2
  Disruptions = 1
SPECIFICATION Spec
INVARIANTS ClockMeansHeld OnlyReadersHold
PROPERTIES Converges
CHECK_DEADLOCK FALSE

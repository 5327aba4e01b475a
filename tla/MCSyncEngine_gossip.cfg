CONSTANTS
  Origin = {1, 2}
  Doc = {1}
  Readers <- MCReaders
  Public = {1}
  Cap = 1
  MaxWrites = 2
  Disruptions = 0
SPECIFICATION GossipSpec
PROPERTIES Converges
CHECK_DEADLOCK FALSE

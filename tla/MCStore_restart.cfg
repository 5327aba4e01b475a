CONSTANTS
  Origin = {1, 2}
  Key = {"k"}
  Name = {"a"}
  DocId = {1}
  Kinds = {"set", "drop"}
  SnapshotOps = 2
  Crashes = 1
  Proposals = 0
  MaxTs = 3
  MaxBuilt = 3
  MaxTaken = 4
SPECIFICATION Spec
INVARIANTS RestartKeepsDocs ClockCoversLog VersionsAreUnique
PROPERTIES DeleteIsTerminal
CHECK_DEADLOCK FALSE

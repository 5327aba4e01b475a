CONSTANTS
  Origin = {1, 2}
  Key = {"k"}
  Name = {"a"}
  DocId = {1, 2}
  Kinds = {"set", "drop"}
  SnapshotOps = 10
  Crashes = 0
  Proposals = 0
  MaxTs = 3
  MaxBuilt = 3
  MaxTaken = 3
SPECIFICATION Spec
INVARIANTS NamesFindLiveDocs CleanLogsVerify
CHECK_DEADLOCK FALSE

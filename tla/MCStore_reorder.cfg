CONSTANTS
  Origin = {1, 2}
  Key = {"k"}
  Name = {"a"}
  DocId = {1}
  Kinds = {"set", "unset", "claim"}
  SnapshotOps = 10
  Crashes = 0
  Proposals = 1
  MaxTs = 3
  MaxBuilt = 3
  MaxTaken = 3
SPECIFICATION Spec
INVARIANTS CanonicalFold SameActionsSameDoc
CHECK_DEADLOCK FALSE

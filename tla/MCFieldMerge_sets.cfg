\* Three replicas, one contended field; values and whole-document deletes.
CONSTANTS
  Origin = {1, 2, 3}
  Key = {"k"}
  Name = {}
  Kinds = {"set", "drop"}
  MaxTs = 3
  MaxOps = 3
SPECIFICATION Spec
INVARIANTS TypeOK SameOpsSameDoc CausalOpsAreLater MergeInv

CONSTANTS
  Versions = {2, 3}
  AutoApply = TRUE
  Budgets <- AnyTwo
  MaxSuffix = 2
  Inodes = 5
SPECIFICATION FairSpec
INVARIANTS StartsAreWhole RunningIsKept
PROPERTIES NoDowngrade UpdatesSettle
CHECK_DEADLOCK FALSE

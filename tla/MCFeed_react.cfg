SPECIFICATION Spec
CONSTANTS
    Deployments <- MCDeployments
    Standing <- MCStanding
    Writes <- MCWrites
    NAME_KEY = "__name__"
    Null = "null"
    Commands <- MCCommands
    Rules <- MCRules
    Relations <- MCRelations
    Reference <- MCReference
    Filters <- MCFilters
    HISTORY_CAP = 1
    JobCap = 2
    MaxAttempts = 1
    MaxDocs = 4
    MaxWrites = 3
    MaxCommands = 2
    MaxInstalls = 2
    MaxFaults = 1
INVARIANTS
    PublishedNarrow
    ViewCurrent
PROPERTIES
    FeedDrains
CHECK_DEADLOCK FALSE

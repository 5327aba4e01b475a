CONSTANTS
    Requests <- Page
    Groups <- Before
    Plugins <- Calendar
    Borrowed <- Borrow
    Needy <- Tasks
    MaxOpen = 2
    MaxDocs = 7
    MaxRemote = 1
SPECIFICATION Spec
INVARIANTS FilesExist  MigratedWhole
PROPERTIES RequestsAnswered
CHECK_DEADLOCK FALSE

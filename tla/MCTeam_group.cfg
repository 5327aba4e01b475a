CONSTANTS
    Origin = {1, 2, 3}
    Key <- Fields
    Name = {"team", "site", "talk"}
    DocId <- Docs
    Scenes <- TwoScenes
    ModelOf <- Models
    SpaceOf <- Spaces
    Founder <- Founders
    Founding <- Beginnings
    Requests <- Wishes
    Keys <- Everyone
    FreshOnly = TRUE
    MaxTs <- Lengths
    MaxActions <- Lengths
    MaxProposals = 1
SPECIFICATION Spec
INVARIANTS SchemaHolds SameLogSameDoc TwoPersonRule MessagesAligned
PROPERTIES GrantsConverge
CHECK_DEADLOCK FALSE

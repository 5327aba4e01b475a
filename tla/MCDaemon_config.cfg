CONSTANTS
    Names = {"d"}
    Joined = {"j", "D"}
    Key <- LowerCase
    Opts = {0, 1}
    Default = 0
    BadOpt = 9
    Peers = {"j"}
    Grants = {{"g", "h"}}
    OwnName = "me"
    Groups = {"g"}
    MaxPending = 0
    Budgets <- SmallBudgets
    MaxFails = 1
    MaxChan = 2
SPECIFICATION Spec
INVARIANTS EngineFollowsConfig PauseIsReal RefusedAreListed InvitesGrantOnce
PROPERTIES EditsNotClobbered ConfigSettles
CHECK_DEADLOCK FALSE

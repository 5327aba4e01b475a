SPECIFICATION Spec
CONSTANTS
    Me <- MCMe
    Peers <- MCPeers
    PeerHas <- MCPeerHas
    Offers <- MCOffers
    Held <- MCHeld
    Genuine <- MCGenuine
    Drafts <- MCDrafts
    Definitions <- MCDefinitions
    Wanted <- MCWanted
    Deletable <- MCDeletable
    MaxOpen = 2
    MaxOps = 2
    MaxFaults = 1
INVARIANTS
    BundlesHeld
PROPERTIES
    GateKept
    InstallCompletes
CHECK_DEADLOCK FALSE

SPECIFICATION PeerSpec
CONSTANTS
    Padded <- MCPadded
    SpiffeDomain <- MCSpiffeDomain
    LowerCase <- MCLowerCase
    TrustChoices <- Trusts
    ChainChoices <- Chains
    LastHour = 2
INVARIANTS PeerIsBound
PROPERTIES RightfulPeerIsKnown
CHECK_DEADLOCK FALSE

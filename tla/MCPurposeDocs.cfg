SPECIFICATION DecisionSpec
CONSTANTS
    Padded <- MCPadded
    AssuranceMeets <- MCAssuranceMeets
    RouteChoices <- Routes
    HeaderChoices <- Headers
    Clients = {"a", "b"}
    Entitlements <- MCEntitlements
    DecidedAt = 5
INVARIANTS PurposeOutsideListIsPurposeDenied
CHECK_DEADLOCK FALSE

SPECIFICATION DecisionSpec
CONSTANTS
    Padded <- MCPadded
    AssuranceMeets <- MCAssuranceMeets
    RouteChoices <- Routes
    HeaderChoices <- Headers
    Clients = {"a", "b", "c"}
    Entitlements <- MCEntitlements
    DecidedAt = 5
INVARIANTS PermitIsJustified JustifiedIsPermitted DenialsNameTheirRule
CHECK_DEADLOCK FALSE

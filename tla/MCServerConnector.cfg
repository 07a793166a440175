SPECIFICATION Spec
CONSTANTS
    Requests = {q1, q2}
    Inputs <- AllInputs
    Config <- MCConfig
    MaxConcurrent = 1
    RequestTimeout = 1
    UpstreamTimeout = 1
    Limit = 1
    Window = 2
    MaxTime = 3
    Padded <- MCPadded
    Decode <- MCDecode
    Undecodable = {}
    SpiffeDomain <- MCSpiffeDomain
    LowerCase <- MCLowerCase
    AssuranceMeets = {}
SYMMETRY Symmetry
INVARIANTS TypeOK PermitsConserved LogTellsRelay SentAsAuthorized RelaySeesOnlyAuthorized RelayRateBounded
PROPERTIES EndIsFinal GateSpec LimiterSpec

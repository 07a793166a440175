SPECIFICATION PairSpec
CONSTANTS
    Requests = {q1}
    Calls <- AllCalls
    Inputs <- AllInputs
    Config <- MCConfig
    MaxConcurrent = 1
    RequestTimeout = 1
    UpstreamTimeout = 1
    ClientConfig <- MCClientConfig
    ClientConcurrent = 1
    ClientTimeout = 1
    ClientUpstreamTimeout = 2
    ClientChain <- Chain
    UrlEncode <- MCUrlEncode
    ValidRequestIds = {"i1"}
    Limit = 1
    Window = 2
    MaxTime = 2
    Padded <- MCPadded
    Decode <- MCDecode
    Undecodable = {"%"}
    SpiffeDomain <- MCSpiffeDomain
    LowerCase <- MCLowerCase
    AssuranceMeets = {}
INVARIANTS CallerIsToldTheTruth LogsShareRequestId PurposeTravels PathTravels
PROPERTIES ClientGateSpec

SPECIFICATION FairPairSpec
CONSTANTS
    Requests = {q1, q2}
    Calls <- BusyCalls
    Inputs <- BusyInputs
    Config <- MCConfig
    MaxConcurrent = 1
    RequestTimeout = 0
    UpstreamTimeout = 0
    ClientConfig <- MCClientConfigOdd
    ClientConcurrent = 1
    ClientTimeout = 0
    ClientUpstreamTimeout = 0
    ClientChain <- Chain
    UrlEncode <- MCUrlEncode
    ValidRequestIds = {"i1"}
    Limit = 1
    Window = 2
    MaxTime = 0
    Padded <- MCPadded
    Decode <- MCDecode
    Undecodable = {"%"}
    SpiffeDomain <- MCSpiffeDomain
    LowerCase <- MCLowerCase
    AssuranceMeets = {}
INVARIANTS ClientPermitsConserved
PROPERTIES BothSidesEnd

SPECIFICATION Spec
CONSTANTS
    Requests = {q1, q2}
    Inputs <- BusyInputs
    Config <- MCConfig
    MaxConcurrent = 1
    RequestTimeout = 1
    UpstreamTimeout = 1
    Limit = 1
    Window = 2
    MaxTime = 3
    Padded <- MCPadded
    Decode <- MCDecode
    Undecodable = {}
    SpiffeDomain <- MCSpiffeDomain
    LowerCase <- MCLowerCase
    AssuranceMeets = {}
INVARIANTS AllowedCookieIsForwarded

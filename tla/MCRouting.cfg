SPECIFICATION SearchSpec
CONSTANTS
    Padded <- MCPadded
    Decode <- MCDecode
    Undecodable = {"%"}
    Elements = {"/", "a", "b", "%61", "%2F", "%2E", "%5C", "%"}
    RouteTables <- MCRouteTables
    Paths <- MCPaths
    MaxLength = 5
INVARIANTS RoutedWhenCovered MostSpecificRouteWins RewriteLandsUnderUpstream
CHECK_DEADLOCK FALSE

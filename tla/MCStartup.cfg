CONSTANTS
    Padded <- MCPadded
    Decode <- MCDecode
    Undecodable = {"%zz"}
    SpiffeDomain <- MCSpiffeDomain
    LowerCase <- MCLowerCase
    AssuranceMeets <- MCAssuranceMeets
    Malformed = {"a\nb", "xyz"}
    PrivateNames = {"x-registry-connector-id"}
    AuditSecrets = {"long audit secret"}
    Cases <- AllCases
    Edited <- EditedFiles
    Rotated <- MCRotated
    SecondsPerDay = 2
    U64 = 8
    MaxPermits = 3
    MaxEdits = 1
    MaxTime = 2
SPECIFICATION Spec
INVARIANTS ValidatedStarts AllowedIdentitiesAreAnchored MissingVariableIsAnError RefusingRouteIsExplained NoSilentExpiry

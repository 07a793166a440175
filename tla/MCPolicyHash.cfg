CONSTANTS
    Tasks = {t1, t2}
    MaxRestarts = 1
    MaxNumber = 5
    Padded <- MCPadded
    AssuranceMeets <- MCAssuranceMeets
    Routes <- MCRoutes
    Entitlements <- MCEntitlements
    Probes <- MCProbes
    Characters <- MCCharacters
    Texts <- MCTexts
    Spelling <- MCSpelling
SPECIFICATION Spec
INVARIANTS RecordedHashIsOwn SameHashSameDecision
CHECK_DEADLOCK FALSE

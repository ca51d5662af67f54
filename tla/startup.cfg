SPECIFICATION FairSpec
CHECK_DEADLOCK FALSE
CONSTANTS
    p1 = p1
    p2 = p2
    Pod = {p1, p2}
    MaxGrants = 2
    MaxKills = 2
INVARIANTS
    TypeOK
    RunsPersisted
PROPERTIES
    PersistedTokenSuffices
    RegistrationsEnd

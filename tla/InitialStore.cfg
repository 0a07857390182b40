CONSTANTS
    Sims = {s1, s2}
    Fixtures <- MCFixtures
    Logins = {acme, beta}
    Keys = {k1, k2}
    FirstInstallationId = 2000
    FirstRepositoryId = 3000
    MaxExact = 3007
    ResetValues = {3004}
    NoId = NoId
    None = None
    acme = acme
    beta = beta
    k1 = k1
    k2 = k2
SPECIFICATION FairSpec
INVARIANTS TypeOK GeneratedIdsUnique OrganizationsInstalled
PROPERTIES AssemblyEnds
ACTION_CONSTRAINT ResetsForward
CHECK_DEADLOCK FALSE

CONSTANTS
    Ids = {2000, 2001}
    Logins = {acme, beta}
    Names = {repo, REPO}
    Lower <- MCLower
    Refs = {x, y}
    Contents = {c1, c2}
    Stores <- MCStores
    MaxBlobs = 2
    Absent = Absent
    acme = acme
    beta = beta
    repo = repo
    REPO = REPO
SPECIFICATION Spec
INVARIANTS TypeOK TokenCoversRepository ListIsComplete TreeLinkReturnsEntry RestAgreesWithGraphQL
CONSTRAINTS OneConcern FreshEnough

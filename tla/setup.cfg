SPECIFICATION SetupSpec
CONSTANTS
    Roles <- MCRoles
    ModelOwner = "model_owner"
    Lookups = {l1}
    MaxWallets = 4
    Ids = {1, 2, 3}
    PageSize = 1
    MaxRuns = 5
INVARIANTS LookupTellsTruth WalletsKept
CHECK_DEADLOCK FALSE

CONSTANTS
    Calls = {c1, c2}
    TxIds = {x1, x2}
    Texts = {t1, t2}
    agent = agent
    server = server
    owner = owner
    q1 = q1
    None = None
    NoAddress = NoAddress
    Rlusd = Rlusd
    Xrp = Xrp
    Requests <- MCRequests
    Accounts <- MCAccounts
    Payments <- ClientPayments
    ServerWallet = server
    NftOwner = server
    XrpFallback = FALSE
    RoyaltyEnabled = TRUE
    HcsAnchorEnabled = TRUE
    MaxHour = 1
    MaxRestarts = 1
SPECIFICATION Spec
SYMMETRY CallSymmetry
INVARIANTS ServedIsBound StoreIsBound HitIsServable NoSelfFunding
CHECK_DEADLOCK FALSE

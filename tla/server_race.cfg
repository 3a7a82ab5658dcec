CONSTANTS
    Calls = {c1, c2, c3}
    TxIds = {x1, x2, x3}
    Texts = {t1, t2}
    agent = agent
    server = server
    owner = owner
    q1 = q1
    None = None
    NoAddress = NoAddress
    Rlusd = Rlusd
    Xrp = Xrp
    Requests <- MCRequests
    Accounts <- MCAccounts
    Payments <- FirstHourPayments
    ServerWallet = server
    NftOwner = owner
    XrpFallback = FALSE
    RoyaltyEnabled = TRUE
    HcsAnchorEnabled = FALSE
    MaxHour = 0
    MaxRestarts = 1
SPECIFICATION Spec
SYMMETRY CallSymmetry
INVARIANTS TypeOK Agreement HitCountExact HitAfterMint RoyaltyAtMostOnce
PROPERTY ImplementsMemo
CHECK_DEADLOCK FALSE

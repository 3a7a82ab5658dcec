CONSTANTS
    Calls = {c1, c2}
    TxIds = {x1, x2}
    Texts = {t1, t2}
    agent = agent
    server = server
    owner = owner
    q1 = q1
    None = None
    NoAddress = NoAddress
    Rlusd = Rlusd
    Xrp = Xrp
    Requests <- MCRequests
    Accounts <- MCAccounts
    Payments <- FirstHourPayments
    ServerWallet = server
    NftOwner = owner
    XrpFallback = TRUE
    RoyaltyEnabled = TRUE
    HcsAnchorEnabled = TRUE
    MaxHour = 0
    MaxRestarts = 1
SPECIFICATION FairSpec
INVARIANT RoyaltyIsBacked
PROPERTIES EveryCallEnds EveryRoyaltyEnds
CHECK_DEADLOCK FALSE

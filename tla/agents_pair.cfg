CONSTANTS
    Agents = {a1, a2}
    TxIds = {x1, x2, x3}
    Texts = {t1, t2}
    server = server
    owner = owner
    q1 = q1
    None = None
    NoAddress = NoAddress
    Rlusd = Rlusd
    Xrp = Xrp
    Calls <- MCCalls
    Requests <- MCRequests
    Accounts <- MCAccounts
    Payments <- AgentPayments
    ServerWallet = server
    NftOwner = owner
    XrpFallback = FALSE
    RoyaltyEnabled = TRUE
    HcsAnchorEnabled = TRUE
    MaxHour = 1
    MaxRestarts = 1
SPECIFICATION SystemSpec
SYMMETRY AgentSymmetry
INVARIANTS AgentTypeOK QuoteHonoured DoneIsSettled
CHECK_DEADLOCK FALSE

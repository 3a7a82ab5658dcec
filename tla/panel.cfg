SPECIFICATION FairBalanceSpec
CONSTANTS
    Readers = {r1, r2}
    Wallets = {w1}
    TTL = 2
    Timeout = 1
    MaxPayments = 2
    MaxFails = 1
    None = None
INVARIANTS BalanceTypeOK ServedIsRecent
PROPERTY PanelSettles

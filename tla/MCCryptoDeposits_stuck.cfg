SPECIFICATION FairSpec
CONSTANTS
    Txs = {t1, t2}
    Wallets = {w1}
    Pollers = {p1}
    None = None
    MinConfirmations = 1
    MaxBlocks = 1
    PageLimit = 2
    SweepFee = 1
    SweepsToBank = TRUE
    MaxHeight = 4
    MaxCrashes = 0
    MaxReorg = 0
    MaxForked = 0
PROPERTIES EveryDepositLoaded

SPECIFICATION Spec
CONSTANTS
    Txs = {t1, t2}
    Wallets = {w1}
    Pollers = {p1, p2}
    None = None
    MinConfirmations = 1
    MaxBlocks = 1
    PageLimit = 1
    SweepFee = 2
    SweepsToBank = TRUE
    MaxHeight = 3
    MaxCrashes = 1
    MaxReorg = 1
    MaxForked = 1
SYMMETRY Symmetry
INVARIANTS TypeOK BalanceIsLoadedDeposits LoadedIsSettled NoBlockSkipped
PROPERTIES ImplementsLedger

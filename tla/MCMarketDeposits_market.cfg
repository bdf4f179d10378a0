SPECIFICATION FairSpec
CONSTANTS
    Txs = {t1, t2}
    Accounts = {a, b}
    None = None
    MinConfirmations = 2
    MaxHeight = 4
    MaxReorg = 1
    MaxCrashes = 1
INVARIANTS TypeOK BalanceIsLoaded CreditNotified BalancesInOrder RepeatedAfterCrash LoadedIsSettled
PROPERTIES EveryDepositLoaded
CHECK_DEADLOCK FALSE

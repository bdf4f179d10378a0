SPECIFICATION FairSpec
CONSTANTS
    alice = alice
    bob = bob
    Stranger = Stranger
    NaN = NaN
    Null = Null
    None = None
    Txs = {1, 2}
    Wallets = {alice, bob}
    OutputLists <- SomeOutputs
    Clients = {"btc", "eth", "erc20", "xlm", "eos", "xdac", "xem", "trx", "xmr", "etn", "xrp", "neo"}
    MinConfirmations = 2
    IncomingPage = 1
    PaymentsPage = 3
    MaxBlocks = 2
    PageLimit = 4
    MaxHeight = 5
    MaxReorg = 1
    MaxFaults = 1
INVARIANTS TypeOK CreditedOnce CreditedIsSettled CreditedToPayee NoPaymentSkipped TopUpsBounded
PROPERTIES EveryDepositLoaded
CHECK_DEADLOCK FALSE

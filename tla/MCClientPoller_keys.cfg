SPECIFICATION FairSpec
CONSTANTS
    alice = alice
    bob = bob
    Stranger = Stranger
    NaN = NaN
    Null = Null
    None = None
    Txs = {1}
    Wallets = {alice, bob}
    OutputLists <- OnePayment
    Clients = {"xlm", "xdac", "xem", "trx"}
    MinConfirmations = 2
    IncomingPage = 25
    PaymentsPage = 10
    MaxBlocks = 2
    PageLimit = 4
    MaxHeight = 5
    MaxReorg = 1
    MaxFaults = 0
PROPERTIES KeyedClientsLoad
CHECK_DEADLOCK FALSE

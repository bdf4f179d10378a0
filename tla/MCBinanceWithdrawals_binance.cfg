SPECIFICATION FairSpec
CONSTANTS
    p1 = p1
    p2 = p2
    Payments = {p1, p2}
    None = None
    Leaked = Leaked
    Funds = 2
    SwitchTo = {"binance"}
    MaxHeld = 1
    MaxFailures = 3
INVARIANTS
    TypeOK
    LockedBacksPending
    OnePayout
PROPERTIES
    Settled

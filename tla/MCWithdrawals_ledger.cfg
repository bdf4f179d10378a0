SPECIFICATION FairSpec
CONSTANTS
    Wallets = {w1, w2}
    Payments = {p1, p2}
    Requests = {r1, r2}
    None = None
    MaxAmount = 1
    Fee = 1
    MaxCredit = 1
    MaxSends = 2
    SendOutcomes = {"hash", "rejected"}
    Faults = {"lockTimeout", "leak"}
INVARIANTS ExactlyOnceUnlessLost
PROPERTIES ImplementsLedger EveryRequestAnswered
CHECK_DEADLOCK FALSE

SPECIFICATION Spec
CONSTANTS
    Wallets = {w1}
    Payments = {p1}
    Requests = {r1, r2}
    None = None
    MaxAmount = 2
    Fee = 1
    MaxCredit = 2
    MaxSends = 2
    SendOutcomes = {"hash", "unrecorded", "rejected"}
    Faults = {}
INVARIANTS NoDoublePayment

SPECIFICATION Spec
CONSTANTS
    Wallets = {w1}
    Payments = {p1, p2}
    Requests = {r1, r2, r3}
    None = None
    MaxAmount = 2
    Fee = 2
    MaxCredit = 4
    MaxSends = 2
    SendOutcomes = {"hash", "unrecorded", "rejected"}
    Faults = {"crash", "dbLost", "lockTimeout", "leak"}
SYMMETRY Symmetry
INVARIANTS TypeOK Conservation LockedBacksPending SendsAccounted ChecksStayValid
PROPERTIES StatusFinal

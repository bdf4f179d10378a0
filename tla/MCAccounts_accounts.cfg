SPECIFICATION Spec
CONSTANTS
    Users = {u, v}
    Requests = {r1, r2, r3}
    None = None
    MaxCredited = 2
SYMMETRY Symmetry
INVARIANTS TypeOK OneAddress AddressOnShownWallet CreditsKept
CHECK_DEADLOCK FALSE

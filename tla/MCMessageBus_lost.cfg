SPECIFICATION FairSpec
CONSTANTS
    btc1 = btc1
    ltc1 = ltc1
    btc2 = btc2
    ltc2 = ltc2
    Wallets = {btc1, ltc1, btc2, ltc2}
    MaxMessages = 2
    Bodies <- MCBodies
    MaxUpdates = 4
    MaxShort = 0
    MaxOther = 0
    MaxCrashes = 1
PROPERTIES
    EveryMessageApplied

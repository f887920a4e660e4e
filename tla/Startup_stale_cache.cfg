CONSTANTS
    c1 = c1
    c2 = c2
    d1 = d1
    x1 = x1
    Pools = {c1, x1}
    Dex <- MCDex
    Tradeable = {c1, x1}
    Configured = {}
    Curves = {x1}
    MaxPoolsPerDex = 2
    Extended = {}
    Wealth <- MCWealth
    TopClmm = 1
    TopPolled = 1
    MaxLost = 1
    MaxAge = 2
    MaxNow = 2
SPECIFICATION StartupSpec
PROPERTY StaleIsReloaded
